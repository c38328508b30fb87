-------------------------- MODULE HostInput_proofs --------------------------
(* What the guest executes is authentic, whatever the RPC node did, and is *)
(* enough when the chain stood still: for any chain, accounts and bounds.  *)
EXTENDS HostInput, WellFoundedInduction, TLAPS

-----------------------------------------------------------------------------
(* The chain *)

LEMMA WidthIsTwo == Width \in Nat /\ Width >= 2 /\ -1 \notin Branches
BY HostInputAssumption

LEMMA BlockAtType ==
  ASSUME NEW b \in Branches \cup {-1}, NEW h \in Heights
  PROVE  BlockAt(b, h) \in SomeBlock
BY HostInputAssumption DEF BlockAt, SomeBlock

LEMMA PredType ==
  ASSUME NEW h \in Heights
  PROVE  /\ Pred(h) \in Heights
         /\ h > 0 => Pred(h) = h - 1
         /\ h = 0 => Pred(h) = Width - 1
<1>1. Width \in Nat /\ Width >= 2 /\ h \in Nat /\ h < Width
  BY WidthIsTwo DEF Heights
<1>2. CASE h = 0
  <2>1. Pred(h) = (Width - 1) % Width
    BY <1>1, <1>2 DEF Pred
  <2>2. (Width - 1) % Width = Width - 1
    BY <1>1
  <2> QED BY <1>1, <1>2, <2>1, <2>2 DEF Heights
<1>3. CASE h > 0
  <2>1. h + Width - 1 = (h - 1) + Width
    BY <1>1
  <2>2. ((h - 1) + Width) % Width = h - 1
    BY <1>1, <1>3
  <2> QED BY <1>1, <1>3, <2>1, <2>2 DEF Heights, Pred
<1> QED BY <1>1, <1>2, <1>3

LEMMA ParentType ==
  ASSUME NEW b \in SomeBlock
  PROVE  parent_hash(b) \in SomeBlock
<1>1. NoBlock \in SomeBlock
  BY WidthIsTwo DEF NoBlock, SomeBlock, Heights
<1>2. CASE b.number = 0
  BY <1>1, <1>2 DEF parent_hash
<1>3. CASE b.number # 0
  <2>1. b.number - 1 \in Heights /\ b.branch \in Branches \cup {-1}
    BY <1>3, WidthIsTwo DEF SomeBlock, Heights
  <2> QED BY <1>3, <2>1, BlockAtType DEF parent_hash
<1> QED BY <1>2, <1>3

-----------------------------------------------------------------------------
(* Types *)

LEMMA NothingType ==
  /\ NoBlock \in SomeBlock /\ NoHost \in HostType /\ NoInput \in InputType
  /\ NoGuest \in [block_hashes : [Heights -> SomeBlock], loaded : SUBSET Addresses,
                  diverged : BOOLEAN]
<1>1. NoBlock \in SomeBlock
  BY WidthIsTwo DEF NoBlock, SomeBlock, Heights
<1>2. /\ NoBlocks(Addresses) \in [Addresses -> SomeBlock]
      /\ NoBlocks(Heights) \in [Heights -> SomeBlock]
  BY <1>1 DEF NoBlocks
<1>3. NoTrace \in TraceType
  BY <1>2 DEF NoTrace, TraceType
<1>4. 0 \in Heights
  BY WidthIsTwo DEF Heights
<1> HIDE DEF Heights
<1>5. NoHost \in HostType
  BY <1>1, <1>2, <1>3, <1>4 DEF NoHost, HostType, TraceType, NoTrace
<1>6. NoInput \in InputType
  BY <1>1, <1>2, <1>3 DEF NoInput, InputType
<1> QED BY <1>1, <1>2, <1>5, <1>6 DEF NoGuest

(* Everything a run changes, and the rest that stays. *)
Typed == /\ file \in [kind : {"absent", "partial", "whole"}, input : InputType]
         /\ pc \in {"idle", "load", "cache_create", "cache_write", "output_create",
              "output_write", "fetch_block", "fetch_parent", "execute", "proofs",
              "headers", "build", "witness_db", "replay"}
         /\ result \in {"none", "made", "accepted", "rejected", "panic", "failed"}
         /\ host \in HostType /\ input \in InputType
         /\ guest \in [block_hashes : [Heights -> SomeBlock], loaded : SUBSET Addresses,
                       diverged : BOOLEAN]

LEMMA StopType ==
  ASSUME TypeOK, NEW r \in {"none", "made", "accepted", "rejected", "panic", "failed"}, Stop(r)
  PROVE  Typed'
BY NothingType DEF TypeOK, Typed, Stop, End

LEMMA FailsType ==
  ASSUME TypeOK, NEW found, Fails(found)
  PROVE  Typed'
BY StopType DEF Fails

LEMMA HostStepType ==
  ASSUME TypeOK, NEW x \in HostType,
         Host(x) \/ \E q \in {"fetch_parent", "execute", "proofs", "headers"} : HostTo(q, x)
  PROVE  Typed'
BY DEF TypeOK, Typed, Host, HostTo

LEMMA GuestStepType ==
  ASSUME TypeOK, NEW x \in [block_hashes : [Heights -> SomeBlock], loaded : SUBSET Addresses,
                       diverged : BOOLEAN], Guest(x)
  PROVE  Typed'
BY DEF TypeOK, Typed, Guest

LEMMA AnswerType ==
  ASSUME TypeOK, NEW h \in Int, h >= 0, NEW b \in get_block_by_number(h)
  PROVE  h \in Heights /\ b = BlockAt(head, h) /\ b \in SomeBlock /\ h <= Tip[head]
<1>1. h <= Tip[head] /\ b = BlockAt(head, h)
  BY DEF get_block_by_number
<1>2. h \in Heights /\ head \in Branches
  BY <1>1, HostInputAssumption DEF TypeOK, Heights
<1> QED BY <1>1, <1>2, BlockAtType

LEMMA StateBlockType ==
  ASSUME TypeOK
  PROVE  n \in Heights /\ Pred(n) \in Heights /\ StateBlock \in SomeBlock
         /\ StateBlock.branch \in Branches
<1>1. n \in Heights /\ head \in Branches
  BY HostInputAssumption DEF TypeOK
<1>2. Pred(n) \in Heights
  BY <1>1, PredType
<1> QED BY <1>1, <1>2, BlockAtType, HostInputAssumption DEF StateBlock, BlockAt

LEMMA DriverType ==
  ASSUME TypeOK, Driver
  PROVE  Typed'
<1> USE DEF TypeOK, Typed
<1>1. CASE try_load_input_from_cache
  BY <1>1, StopType DEF try_load_input_from_cache, WithInput
<1>2. CASE create_cache \/ create_output
  BY <1>2, NothingType DEF create_cache, create_output, create
<1>3. CASE write_cache
  BY <1>3 DEF write_cache, whole, WithInput
<1>4. CASE write_output
  BY <1>4, NothingType DEF write_output, whole, End
<1> QED BY <1>1, <1>2, <1>3, <1>4 DEF Driver

LEMMA AccountType ==
  ASSUME NEW b \in Branches, NEW a \in Addresses
  PROVE  /\ AccountOf[b][a] \in Account /\ AccountOf[b][a].nonce \in Nonces
         /\ AccountOf[b][a].code \in Codes
         /\ \A s \in Slots : StorageOf[b][a][s] \in Values
BY HostInputAssumption DEF Account

LEMMA ExecutesType ==
  ASSUME TypeOK, Executes
  PROVE  Typed'
<1>0. n \in Heights /\ Pred(n) \in Heights /\ StateBlock \in SomeBlock
      /\ StateBlock.branch \in Branches /\ host \in HostType /\ n \in Int /\ n >= 0
      /\ Pred(n) \in Int /\ Pred(n) >= 0 /\ head \in Branches
  BY StateBlockType DEF TypeOK, Heights
<1>1. CASE fetch_block
  <2>1. CASE Fails(get_block_by_number(n) # {})
    BY <2>1, FailsType
  <2>2. CASE \E b \in get_block_by_number(n) :
               HostTo("fetch_parent", [host EXCEPT !.current = b])
    <3>1. PICK b \in get_block_by_number(n) :
            HostTo("fetch_parent", [host EXCEPT !.current = b])
      BY <2>2
    <3>2. [host EXCEPT !.current = b] \in HostType
      BY <1>0, <3>1, AnswerType DEF HostType
    <3> QED BY <3>1, <3>2, HostStepType
  <2> QED BY <1>1, <2>1, <2>2 DEF fetch_block
<1>2. CASE fetch_parent
  <2>1. CASE Fails(get_block_by_number(Pred(n)) # {})
    BY <2>1, FailsType
  <2>2. ASSUME NEW b \in get_block_by_number(Pred(n)),
               HostTo("execute", [host EXCEPT !.previous = b,
                                              !.oldest_ancestor = first_ancestor(n)])
        PROVE  Typed'
    <3>1. [host EXCEPT !.previous = b, !.oldest_ancestor = first_ancestor(n)] \in HostType
      BY <1>0, AnswerType DEF HostType, first_ancestor
    <3> QED BY <2>2, <3>1, HostStepType
  <2> QED BY <1>2, <2>1, <2>2 DEF fetch_parent
<1>3. ASSUME NEW a \in Addresses, fetch_account_proof(a)
      PROVE  Typed'
  <2> DEFINE new == [host EXCEPT !.pending =
               {[address |-> a, nonce |-> AccountOf[StateBlock.branch][a].nonce]}]
  <2>1. new \in HostType
    BY <1>0, AccountType DEF HostType
  <2>2. Host(new) \/ Fails(HasState)
    BY <1>3 DEF fetch_account_proof
  <2> HIDE DEF new
  <2> QED BY <2>1, <2>2, HostStepType, FailsType
<1>4. CASE fetch_account_code
  <2>1. PICK p \in host.pending :
          \/ Host([host EXCEPT !.accounts[p.address] =
                     [nonce |-> p.nonce, code |-> AccountOf[StateBlock.branch][p.address].code],
                   !.pending = {}])
          \/ Fails(HasState)
    BY <1>4 DEF fetch_account_code
  <2> DEFINE info == [nonce |-> p.nonce, code |-> AccountOf[StateBlock.branch][p.address].code]
             new == [host EXCEPT !.accounts[p.address] = info, !.pending = {}]
  <2>2. p.address \in Addresses /\ p.nonce \in Nonces
    BY <1>0 DEF HostType
  <2>3. info \in Account
    BY <1>0, <2>2, AccountType DEF Account
  <2>4. Host(new) \/ Fails(HasState)
    BY <2>1
  <2> HIDE DEF info
  <2>5. new \in HostType
    BY <1>0, <2>2, <2>3 DEF HostType
  <2> HIDE DEF new
  <2> QED BY <2>4, <2>5, HostStepType, FailsType
<1>5. ASSUME NEW a \in Addresses, NEW s \in Slots, fetch_storage_at(a, s)
      PROVE  Typed'
  <2> DEFINE value == StorageOf[StateBlock.branch][a][s]
             new == [host EXCEPT !.storage[<<a, s>>] = value]
  <2>1. Host(new) \/ Fails(HasState)
    BY <1>5 DEF fetch_storage_at
  <2>2. value \in Values
    BY <1>0, AccountType
  <2> HIDE DEF value
  <2>3. new \in HostType
    BY <1>0, <2>2 DEF HostType
  <2> HIDE DEF new
  <2> QED BY <2>1, <2>3, HostStepType, FailsType
<1>6. ASSUME NEW h \in Heights, fetch_block_hash(h)
      PROVE  Typed'
  <2>1. CASE Fails(get_block_by_number(h) # {})
    BY <2>1, FailsType
  <2>2. ASSUME NEW b \in get_block_by_number(h),
               Host([host EXCEPT !.hashes[h] = b, !.oldest_ancestor = min_ancestor(h, @)])
        PROVE  Typed'
    <3>1. b \in SomeBlock
      BY AnswerType DEF Heights
    <3>2. min_ancestor(h, host.oldest_ancestor) \in Heights
      BY <1>0 DEF HostType, min_ancestor
    <3>3. [host EXCEPT !.hashes[h] = b, !.oldest_ancestor = min_ancestor(h, @)] \in HostType
      BY <1>0, <3>1, <3>2 DEF HostType
    <3> QED BY <2>2, <3>3, HostStepType
  <2> QED BY <1>6, <2>1, <2>2 DEF fetch_block_hash
<1>7. CASE finish_execution
  <2> DEFINE new == [host EXCEPT !.todo = get_state_requests(host.accounts, host.storage)]
  <2>1. HostTo("proofs", new) \/ Fails(IsTrue(Trace, host.current))
    BY <1>7 DEF finish_execution
  <2>2. get_state_requests(host.accounts, host.storage) \subseteq Addresses
    BY DEF get_state_requests, AccountsOf, SlotsOf
  <2>3. new \in HostType
    BY <1>0, <2>2 DEF HostType
  <2> HIDE DEF new
  <2> QED BY <2>1, <2>3, HostStepType, FailsType
<1>8. ASSUME NEW a \in Addresses, fetch_proof_before(a) \/ fetch_proof_after(a)
      PROVE  Typed'
  <2> DEFINE before == [host EXCEPT !.proofs[a] = StateBlock]
             after == [host EXCEPT !.todo = @ \ {a}]
  <2>1. Host(before) \/ Host(after) \/ Fails(HasState) \/ Fails(n <= Tip[head])
    BY <1>8 DEF fetch_proof_before, fetch_proof_after
  <2>2. before \in HostType /\ after \in HostType
    BY <1>0 DEF HostType
  <2> HIDE DEF before, after
  <2> QED BY <2>1, <2>2, HostStepType, FailsType
<1>9. CASE derive_header
  <2>1. CASE Fails(header_matches(host.current, host.previous))
    BY <2>1, FailsType
  <2>2. ASSUME NEW r \in Roots(host.proofs), HostTo("headers", [host EXCEPT !.root = r])
        PROVE  Typed'
    <3>1. r \in SomeBlock
      BY <1>0 DEF HostType, Roots, ProofsOf
    <3>2. [host EXCEPT !.root = r] \in HostType
      BY <1>0, <3>1 DEF HostType
    <3> QED BY <2>2, <3>2, HostStepType
  <2> QED BY <1>9, <2>1, <2>2 DEF derive_header
<1>10. CASE fetch_header
  <2>1. CASE Fails(get_block_by_number(Height) # {})
    BY <2>1, FailsType
  <2>2. ASSUME NEW b \in get_block_by_number(Height),
               Host([host EXCEPT !.ancestor_headers = Append(@, b)])
        PROVE  Typed'
    <3>1. Height \in Int /\ Height >= 0
      BY <1>0, <1>10 DEF fetch_header, Height, HostType, Heights
    <3>2. b \in SomeBlock
      BY <3>1, AnswerType
    <3>4. Append(host.ancestor_headers, b) \in Seq(SomeBlock)
      BY <1>0, <3>2 DEF HostType
    <3>3. [host EXCEPT !.ancestor_headers = Append(@, b)] \in HostType
      BY <1>0, <3>4 DEF HostType
    <3> QED BY <2>2, <3>3, HostStepType
  <2> QED BY <1>10, <2>1, <2>2 DEF fetch_header
<1>11. CASE finish_input
  <2>1. Trace \in TraceType
    BY <1>0 DEF Trace, TraceType, HostType
  <2>2. get_bytecodes(host.accounts) \subseteq Codes /\ SlotsOf(host.storage) \subseteq Addresses \X Slots
    BY <1>0, HostInputAssumption DEF get_bytecodes, AccountsOf, SlotsOf, HostType, Account, NoAccount
  <2>3. input' \in InputType
    BY <1>0, <1>11, <2>1, <2>2 DEF finish_input, InputType, HostType
  <2> QED BY <1>11, <2>3 DEF finish_input, TypeOK, Typed
<1> QED BY <1>1, <1>2, <1>3, <1>4, <1>5, <1>6, <1>7, <1>8, <1>9, <1>10, <1>11 DEF Executes

LEMMA InsertedType ==
  ASSUME NEW hs \in Seq(SomeBlock)
  PROVE  Inserted(hs) \in [Heights -> SomeBlock]
<1>1. ASSUME NEW h \in Heights, h \in {hs[k].number : k \in 2 .. Len(hs)}
      PROVE  parent_hash(hs[(CHOOSE k \in 2 .. Len(hs) : hs[k].number = h) - 1]) \in SomeBlock
  <2> DEFINE k == CHOOSE k \in 2 .. Len(hs) : hs[k].number = h
  <2>1. k \in 2 .. Len(hs)
    BY <1>1
  <2> HIDE DEF k
  <2>2. k - 1 \in 1 .. Len(hs)
    BY <2>1
  <2>3. hs[k - 1] \in SomeBlock
    BY <2>2
  <2> QED BY <2>3, ParentType DEF k
<1> QED BY <1>1, NothingType DEF Inserted

LEMMA ReplaysType ==
  ASSUME TypeOK, Replays
  PROVE  Typed'
<1> DEFINE GuestType == [block_hashes : [Heights -> SomeBlock], loaded : SUBSET Addresses,
                         diverged : BOOLEAN]
<1>0. guest \in GuestType /\ input \in InputType
  BY DEF TypeOK
<1>1. CASE build
  BY <1>1, StopType DEF build, TypeOK, Typed
<1>2. CASE build_block_hashes
  <2>1. Headers \in Seq(SomeBlock)
    BY <1>0 DEF Headers, InputType
  <2>2. CASE Stop("rejected")
    BY <2>2, StopType
  <2>3. CASE guest' = [guest EXCEPT !.block_hashes = Inserted(Headers)] /\ pc' = "replay"
             /\ UNCHANGED <<file, result, host, input>>
    <3>1. guest' \in GuestType
      BY <1>0, <2>1, <2>3, InsertedType
    <3> QED BY <2>3, <3>1 DEF TypeOK, Typed
  <2> QED BY <1>2, <2>2, <2>3 DEF build_block_hashes
<1>3. ASSUME NEW a \in Addresses, basic_ref(a)
      PROVE  Typed'
  <2> DEFINE new == [guest EXCEPT !.loaded = @ \cup {a},
               !.diverged = @ \/ AccountOf[input.root.branch][a] # input.trace.accounts[a]]
  <2>1. Guest(new) \/ Stop("panic")
    BY <1>3 DEF basic_ref
  <2>2. new \in GuestType
    BY <1>0
  <2> HIDE DEF new
  <2> QED BY <2>1, <2>2, GuestStepType, StopType
<1>4. ASSUME NEW a \in Addresses, code_by_hash_ref(a)
      PROVE  Typed'
  BY <1>4, StopType DEF code_by_hash_ref
<1>5. ASSUME NEW a \in Addresses, NEW s \in Slots, storage_ref(a, s)
      PROVE  Typed'
  <2> DEFINE new == [guest EXCEPT !.diverged =
               @ \/ StorageOf[input.root.branch][a][s] # input.trace.storage[<<a, s>>]]
  <2>1. Guest(new) \/ Stop("panic")
    BY <1>5 DEF storage_ref
  <2>2. new \in GuestType
    BY <1>0
  <2> HIDE DEF new
  <2> QED BY <2>1, <2>2, GuestStepType, StopType
<1>6. ASSUME NEW h \in Heights, block_hash_ref(h)
      PROVE  Typed'
  <2> DEFINE new == [guest EXCEPT !.diverged =
               @ \/ guest.block_hashes[h] # input.trace.hashes[h]]
  <2>1. Guest(new) \/ Stop("panic")
    BY <1>6 DEF block_hash_ref
  <2>2. new \in GuestType
    BY <1>0
  <2> HIDE DEF new
  <2> QED BY <2>1, <2>2, GuestStepType, StopType
<1>7. CASE finish_replay
  BY <1>7, StopType DEF finish_replay
<1> QED BY <1>1, <1>2, <1>3, <1>4, <1>5, <1>6, <1>7 DEF Replays

LEMMA TypeStep == TypeOK /\ [Next]_vars => TypeOK'
<1> SUFFICES ASSUME TypeOK, [Next]_vars PROVE TypeOK'
  OBVIOUS
<1>1. CASE Start
  BY <1>1, HostInputAssumption DEF Start, TypeOK
<1>2. CASE Step
  <2>1. Typed' /\ UNCHANGED <<head, n, driver, reorgs, aborts>>
    BY <1>2, DriverType, ExecutesType, ReplaysType DEF Step
  <2> QED BY <2>1 DEF TypeOK, Typed
<1>3. ASSUME NEW b \in Branches, Reorg(b)
      PROVE  TypeOK'
  BY <1>3, HostInputAssumption DEF Reorg, TypeOK
<1>4. CASE Abort
  <2>1. Typed' /\ UNCHANGED <<head, n, driver, reorgs>> /\ aborts' \in 0 .. MaxAborts
    BY <1>4, StopType, HostInputAssumption DEF Abort, TypeOK
  <2> QED BY <2>1 DEF TypeOK, Typed
<1>5. CASE UNCHANGED vars
  BY <1>5 DEF vars, TypeOK
<1> QED BY <1>1, <1>2, <1>3, <1>4, <1>5 DEF Next

(* The driver, the host and the guest keep their types. *)
THEOREM HostInputType == Spec => []TypeOK
<1>1. Init => TypeOK
  BY NothingType, HostInputAssumption DEF Init, TypeOK
<1> QED BY <1>1, TypeStep, PTL DEF Spec

-----------------------------------------------------------------------------
(* A chain of headers that passes build_block_hashes *)

(* A set of positions that is not empty has a least one. *)
LEMMA LeastPosition ==
  ASSUME NEW D \in SUBSET Nat, D # {}
  PROVE  \E x \in D : \A y \in D : x =< y
<1> DEFINE Less == {ss \in Nat \X Nat : ss[1] < ss[2]}
<1>1. IsWellFoundedOn(Less, Nat)
  BY NatLessThanWellFounded DEF OpToRel
<1>2. \A x, y \in Nat : y < x => <<y, x>> \in Less
  OBVIOUS
<1> HIDE DEF Less
<1>3. PICK x \in D : \A y \in D : ~(<<y, x>> \in Less)
  BY <1>1, WFMin
<1>4. ASSUME NEW y \in D
      PROVE  x =< y
  <2>1. x \in Nat /\ y \in Nat
    OBVIOUS
  <2>2. ~(y < x)
    BY <1>2, <1>3, <2>1
  <2> QED BY <2>1, <2>2
<1> QED BY <1>4

(* One link: the parent is the ancestor of the same block.                 *)
LEMMA LinkIsAncestor ==
  ASSUME NEW b \in Branches \cup {-1}, NEW child \in SomeBlock, NEW parent \in SomeBlock,
         is_parent(child, parent),
         child.branch = b \/ child = BlockAt(b, child.number)
  PROVE  parent = BlockAt(b, parent.number) /\ parent.number = child.number - 1
<1>1. child.number \in Heights /\ parent.number \in Heights
  BY DEF SomeBlock
<1>2. child.number # 0
  <2> SUFFICES ASSUME child.number = 0 PROVE FALSE
    OBVIOUS
  <2>1. parent.number = Width - 1
    BY <1>1, PredType DEF is_parent
  <2>2. parent.number = 0
    BY DEF is_parent, parent_hash, NoBlock
  <2> QED BY <2>1, <2>2, WidthIsTwo
<1>3. parent = BlockAt(child.branch, child.number - 1)
  BY <1>2 DEF is_parent, parent_hash
<1>4. parent.number = child.number - 1
  BY <1>3 DEF BlockAt
<1>5. CASE child.branch = b
  BY <1>3, <1>4, <1>5
<1>6. CASE child = BlockAt(b, child.number)
  <2>1. child.branch = IF child.number < Fork THEN 0 ELSE b
    BY <1>6 DEF BlockAt
  <2>2. child.number \in Int /\ Fork \in Int
    BY <1>1, HostInputAssumption DEF Heights
  <2>3. CASE child.number - 1 < Fork
    BY <1>3, <1>4, <2>3 DEF BlockAt
  <2>4. CASE ~(child.number - 1 < Fork)
    <3>1. ~(child.number < Fork)
      BY <2>2, <2>4
    <3> QED BY <1>3, <1>4, <2>1, <3>1
  <2> QED BY <2>3, <2>4
<1> QED BY <1>5, <1>6

(* Every header behind the first is its ancestor. *)
LEMMA LinkedHeaders ==
  ASSUME NEW hs \in Seq(SomeBlock), Links(hs)
  PROVE  \A k \in 2 .. Len(hs) : hs[k] = BlockAt(hs[1].branch, hs[k].number)
<1> DEFINE b == hs[1].branch
           bad == {k \in 2 .. Len(hs) : hs[k] # BlockAt(b, hs[k].number)}
<1>1. SUFFICES ASSUME bad # {} PROVE FALSE
  OBVIOUS
<1>2. bad \in SUBSET Nat
  OBVIOUS
<1>3. PICK k \in bad : \A y \in bad : k =< y
  <2> HIDE DEF bad
  <2> QED BY <1>1, <1>2, LeastPosition
<1>4. k \in 2 .. Len(hs) /\ k - 1 \in 1 .. Len(hs) - 1 /\ (k - 1) + 1 = k /\ k \in Nat
      /\ 1 \in 1 .. Len(hs)
  BY <1>3
<1>5. is_parent(hs[k - 1], hs[k])
  BY <1>4 DEF Links
<1>6. hs[k] \in SomeBlock /\ hs[k - 1] \in SomeBlock /\ hs[1] \in SomeBlock
  BY <1>4
<1>7. b \in Branches \cup {-1}
  BY <1>6 DEF SomeBlock
<1>8. hs[k - 1].branch = b \/ hs[k - 1] = BlockAt(b, hs[k - 1].number)
  <2>1. CASE k = 2
    BY <2>1
  <2>2. CASE k # 2
    <3>1. k - 1 \in 2 .. Len(hs) /\ k - 1 < k
      BY <1>4, <2>2
    <3>2. k - 1 \notin bad
      <4> SUFFICES ASSUME k - 1 \in bad PROVE FALSE
        OBVIOUS
      <4>1. k =< k - 1
        BY <1>3
      <4> QED BY <1>4, <4>1
    <3> QED BY <3>1, <3>2
  <2> QED BY <2>1, <2>2
<1> HIDE DEF b
<1>9. hs[k] = BlockAt(b, hs[k].number)
  BY <1>5, <1>6, <1>7, <1>8, LinkIsAncestor
<1> QED BY <1>3, <1>9

(* So are the hashes that go into the map. *)
LEMMA InsertedAncestors ==
  ASSUME NEW hs \in Seq(SomeBlock), Links(hs), NEW h \in Heights
  PROVE  /\ Inserted(hs)[h] # NoBlock => Inserted(hs)[h] = BlockAt(hs[1].branch, h)
         /\ \A k \in 2 .. Len(hs) :
              hs[k].number = h => Inserted(hs)[h] = BlockAt(hs[1].branch, h)
<1> DEFINE numbers == {hs[k].number : k \in 2 .. Len(hs)}
<1>1. CASE h \notin numbers
  BY <1>1 DEF Inserted
<1>2. CASE h \in numbers
  <2> DEFINE k == CHOOSE k \in 2 .. Len(hs) : hs[k].number = h
  <2>1. k \in 2 .. Len(hs) /\ hs[k].number = h
    BY <1>2
  <2>2. Inserted(hs)[h] = parent_hash(hs[k - 1])
    BY <1>2 DEF Inserted
  <2> HIDE DEF k
  <2>3. k - 1 \in 1 .. Len(hs) - 1 /\ (k - 1) + 1 = k
    BY <2>1
  <2>4. is_parent(hs[k - 1], hs[k])
    BY <2>3 DEF Links
  <2>5. parent_hash(hs[k - 1]) = BlockAt(hs[1].branch, h)
    BY <2>1, <2>4, LinkedHeaders DEF is_parent
  <2> QED BY <2>2, <2>5
<1> QED BY <1>1, <1>2

-----------------------------------------------------------------------------
(* What is executed is authentic *)

AuthenticInv ==
  /\ TypeOK
  /\ pc = "witness_db" => root_matches(input)
  /\ pc = "replay" => Authentic

LEMMA HashesAreAuthentic ==
  ASSUME TypeOK, root_matches(input), Links(Headers)
  PROVE  /\ input.root = parent_hash(input.current_block)
         /\ \A h \in HeightsOf(Inserted(Headers)) :
              Inserted(Headers)[h] = BlockAt(input.current_block.branch, h)
<1>1. input.current_block \in SomeBlock /\ input.ancestor_headers \in Seq(SomeBlock)
      /\ input.ancestor_headers # <<>>
  BY DEF TypeOK, InputType, root_matches
<1>2. Headers \in Seq(SomeBlock) /\ Len(Headers) = 1 + Len(input.ancestor_headers)
      /\ Headers[1] = input.current_block /\ Headers[2] = input.ancestor_headers[1]
      /\ Len(input.ancestor_headers) >= 1
  BY <1>1 DEF Headers
<1>3. is_parent(Headers[1], Headers[2])
  <2>1. 1 \in 1 .. Len(Headers) - 1
    BY <1>1, <1>2
  <2> QED BY <2>1 DEF Links
<1>4. input.root = parent_hash(input.current_block)
  BY <1>2, <1>3 DEF is_parent, root_matches
<1>5. ASSUME NEW h \in HeightsOf(Inserted(Headers))
      PROVE  Inserted(Headers)[h] = BlockAt(input.current_block.branch, h)
  BY <1>2, InsertedAncestors DEF HeightsOf
<1> QED BY <1>4, <1>5

LEMMA AuthenticStep == AuthenticInv /\ [Next]_vars => AuthenticInv'
<1> SUFFICES ASSUME AuthenticInv, [Next]_vars PROVE AuthenticInv'
  OBVIOUS
<1>1. TypeOK /\ TypeOK'
  BY TypeStep DEF AuthenticInv
<1>2. ASSUME UNCHANGED <<input, guest>>, pc' = pc PROVE AuthenticInv'
  BY <1>1, <1>2 DEF AuthenticInv, root_matches, Authentic
<1>3. ASSUME pc' \notin {"witness_db", "replay"} PROVE AuthenticInv'
  BY <1>1, <1>3 DEF AuthenticInv
<1>4. CASE Start \/ Abort \/ \E b \in Branches : Reorg(b)
  BY <1>2, <1>3, <1>4 DEF Start, Abort, Reorg, Stop, End
<1>5. CASE Driver
  BY <1>3, <1>5 DEF Driver, try_load_input_from_cache, create_cache, write_cache,
       create_output, write_output, create, WithInput, Stop, End
<1>6. CASE Executes
  <2>1. \/ UNCHANGED <<input, guest>> /\ pc' = pc
        \/ pc' \notin {"witness_db", "replay"}
    BY <1>6 DEF Executes, fetch_block, fetch_parent, fetch_account_proof,
         fetch_account_code, fetch_storage_at, fetch_block_hash, finish_execution,
         fetch_proof_before, fetch_proof_after, derive_header, fetch_header,
         finish_input, Host, HostTo, Fails, Stop, End
  <2> QED BY <1>2, <1>3, <2>1
<1>7. CASE build
  <2>1. CASE Stop("rejected")
    BY <1>3, <2>1 DEF Stop, End
  <2>2. CASE root_matches(input) /\ pc' = "witness_db" /\ UNCHANGED input
    BY <1>1, <2>2 DEF AuthenticInv, root_matches
  <2> QED BY <1>7, <2>1, <2>2 DEF build
<1>8. CASE build_block_hashes
  <2>1. CASE Stop("rejected")
    BY <1>3, <2>1 DEF Stop, End
  <2>2. CASE /\ pc = "witness_db" /\ Links(Headers) /\ pc' = "replay" /\ UNCHANGED input
             /\ guest' = [guest EXCEPT !.block_hashes = Inserted(Headers)]
    <3>1. root_matches(input)
      BY <2>2 DEF AuthenticInv
    <3>2. guest'.block_hashes = Inserted(Headers)
      BY <1>1, <2>2 DEF TypeOK
    <3>3. Authentic'
      BY <1>1, <2>2, <3>1, <3>2, HashesAreAuthentic DEF Authentic
    <3> QED BY <1>1, <2>2, <3>3 DEF AuthenticInv
  <2> QED BY <1>8, <2>1, <2>2 DEF build_block_hashes
<1>9. ASSUME NEW x, Guest(x), x.block_hashes = guest.block_hashes, pc = "replay"
      PROVE  AuthenticInv'
  BY <1>1, <1>9 DEF AuthenticInv, Guest, Authentic
<1>10. ASSUME NEW a \in Addresses, basic_ref(a) \/ code_by_hash_ref(a)
       PROVE  AuthenticInv'
  <2>1. CASE Stop("panic")
    BY <1>3, <2>1 DEF Stop, End
  <2> DEFINE new == [guest EXCEPT !.loaded = @ \cup {a},
               !.diverged = @ \/ AccountOf[input.root.branch][a] # input.trace.accounts[a]]
  <2>2. (Guest(new) /\ pc = "replay") \/ Stop("panic")
    BY <1>10 DEF basic_ref, code_by_hash_ref
  <2>3. new.block_hashes = guest.block_hashes
    BY <1>1 DEF TypeOK
  <2> HIDE DEF new
  <2> QED BY <1>9, <2>1, <2>2, <2>3
<1>11. ASSUME NEW d, Guest([guest EXCEPT !.diverged = d]), pc = "replay"
       PROVE  AuthenticInv'
  <2>1. [guest EXCEPT !.diverged = d].block_hashes = guest.block_hashes
    BY <1>1 DEF TypeOK
  <2> QED BY <1>9, <1>11, <2>1
<1>12. ASSUME NEW a \in Addresses, NEW s \in Slots, storage_ref(a, s)
       PROVE  AuthenticInv'
  <2>1. CASE Stop("panic")
    BY <1>3, <2>1 DEF Stop, End
  <2>2. CASE \E d : Guest([guest EXCEPT !.diverged = d]) /\ pc = "replay"
    BY <1>11, <2>2
  <2> QED BY <1>12, <2>1, <2>2 DEF storage_ref
<1>13. ASSUME NEW h \in Heights, block_hash_ref(h)
       PROVE  AuthenticInv'
  <2>1. CASE Stop("panic")
    BY <1>3, <2>1 DEF Stop, End
  <2>2. CASE \E d : Guest([guest EXCEPT !.diverged = d]) /\ pc = "replay"
    BY <1>11, <2>2
  <2> QED BY <1>13, <2>1, <2>2 DEF block_hash_ref
<1>14. CASE finish_replay
  BY <1>3, <1>14 DEF finish_replay, Stop, End
<1>15. CASE Replays
  BY <1>7, <1>8, <1>10, <1>12, <1>13, <1>14, <1>15 DEF Replays
<1>16. CASE UNCHANGED vars
  BY <1>2, <1>16 DEF vars
<1> QED BY <1>4, <1>5, <1>6, <1>15, <1>16 DEF Next, Step

(* Whatever the RPC node answered, and whenever, the guest executes a      *)
(* block on the state of its parent with the hashes of its ancestors.      *)
THEOREM GuestExecutesAuthenticInput == Spec => []OnlyAuthenticInputIsExecuted
<1>1. Init => AuthenticInv
  <2>1. Init => TypeOK
    BY NothingType, HostInputAssumption DEF Init, TypeOK
  <2> QED BY <2>1 DEF AuthenticInv, Init
<1>2. AuthenticInv => OnlyAuthenticInputIsExecuted
  BY DEF AuthenticInv, OnlyAuthenticInputIsExecuted
<1> QED BY <1>1, <1>2, AuthenticStep, PTL DEF Spec

-----------------------------------------------------------------------------
(* The recorded input is enough *)

Home == BlockAt(head, n - 1)

(* What the execution was told, if anything. *)
Told(t) ==
  /\ \A a \in Addresses : t.accounts[a] \in {NoAccount, AccountOf[Home.branch][a]}
  /\ \A k \in Addresses \X Slots :
       t.storage[k] \in {NoValue, StorageOf[Home.branch][k[1]][k[2]]}
  /\ \A h \in Heights : t.hashes[h] \in {NoBlock, BlockAt(head, h)}

IsChain(hs) ==
  Len(hs) <= n /\ \A i \in 1 .. Len(hs) : hs[i] = BlockAt(head, n - i)

(* The host, when it is about to do q. *)
HostGood(x, q) ==
  /\ Told(x)
  /\ \A r \in x.pending : r.nonce = AccountOf[Home.branch][r.address].nonce
  /\ \A h \in Heights : x.hashes[h] # NoBlock => x.oldest_ancestor <= h /\ h < n
  /\ \A a \in Addresses : x.proofs[a] \in {NoBlock, Home}
  /\ IsChain(x.ancestor_headers)
  /\ q \in {"idle", "load", "fetch_block", "fetch_parent"} =>
       \A h \in Heights : x.hashes[h] = NoBlock
  /\ q \in {"fetch_parent", "execute", "proofs", "headers"} => x.current = BlockAt(head, n)
  /\ q \in {"execute", "proofs", "headers"} =>
       n >= 1 /\ x.previous = Home /\ x.oldest_ancestor <= n - 1
  /\ q = "proofs" => AccountsOf(x.accounts) \subseteq x.todo \cup ProofsOf(x.proofs)
  /\ q = "headers" => AccountsOf(x.accounts) \subseteq ProofsOf(x.proofs) /\ x.root = Home

(* An input that the guest can execute. *)
InputGood(i) ==
  /\ n >= 1 /\ i.current_block = BlockAt(head, n) /\ i.root = Home
  /\ IsChain(i.ancestor_headers) /\ Len(i.ancestor_headers) >= 1
  /\ Told(i.trace)
  /\ \A h \in Heights :
       i.trace.hashes[h] # NoBlock => n - Len(i.ancestor_headers) <= h /\ h < n
  /\ \A a \in Addresses : i.proofs[a] \in {NoBlock, Home}
  /\ \A a \in AccountsOf(i.trace.accounts) :
       i.proofs[a] # NoBlock /\ i.trace.accounts[a].code \in i.bytecodes
  /\ SlotsOf(i.trace.storage) \subseteq i.slots

GuestGood(g, i) ==
  /\ ~g.diverged /\ g.loaded \subseteq AccountsOf(i.trace.accounts)
  /\ \A h \in Heights :
       n - Len(i.ancestor_headers) <= h /\ h < n => g.block_hashes[h] = BlockAt(head, h)

HasInput == {"cache_create", "cache_write", "output_create", "output_write", "build",
             "witness_db", "replay"}
Enough ==
  /\ HostGood(host, pc)
  /\ file.kind = "whole" => InputGood(file.input)
  /\ pc \in HasInput => InputGood(input)
  /\ pc = "replay" => GuestGood(guest, input)
  /\ pc # "replay" => guest = NoGuest
  /\ RecordedInputIsEnough
EnoughInv == TypeOK /\ (reorgs = 0 => Enough)

(* The same chain, seen from one of its blocks. *)
LEMMA SameBranch ==
  ASSUME NEW b, NEW m \in Int, NEW h \in Int, h <= m
  PROVE  BlockAt(BlockAt(b, m).branch, h) = BlockAt(b, h)
<1>1. BlockAt(b, m).branch = IF m < Fork THEN 0 ELSE b
  BY DEF BlockAt
<1>2. CASE h < Fork
  BY <1>2 DEF BlockAt
<1>3. CASE ~(h < Fork)
  <2>1. ~(m < Fork)
    BY <1>3, HostInputAssumption
  <2> QED BY <1>1, <2>1
<1> QED BY <1>2, <1>3

LEMMA NoHostGood ==
  ASSUME TypeOK, NEW q \in {"idle", "load", "fetch_block"}
  PROVE  HostGood(NoHost, q)
<1>1. n \in Nat
  BY HostInputAssumption DEF TypeOK, Heights
<1>2. Told(NoHost)
  BY DEF Told, NoHost, NoTrace, NoBlocks
<1>3. IsChain(NoHost.ancestor_headers)
  BY <1>1 DEF IsChain, NoHost
<1> QED BY <1>2, <1>3 DEF HostGood, NoHost, NoTrace, NoBlocks

(* The run ends, and not by a check of the guest. *)
LEMMA StopEnough ==
  ASSUME TypeOK, Enough, NEW r, r \notin {"rejected", "panic"}, Stop(r), UNCHANGED <<head, n>>
  PROVE  Enough'
<1>1. HostGood(NoHost, "idle")
  BY NoHostGood
<1>2. HostGood(host, pc)'
  BY <1>1 DEF Stop, End, HostGood, Told, IsChain, Home
<1>3. (file.kind = "whole" => InputGood(file.input))'
  BY DEF Enough, Stop, InputGood, Told, IsChain, Home
<1>4. pc' = "idle" /\ result' = r /\ guest' = NoGuest
  BY DEF Stop, End
<1> QED BY <1>2, <1>3, <1>4 DEF Enough, HasInput, RecordedInputIsEnough

LEMMA DriverEnough ==
  ASSUME TypeOK, Enough, reorgs = 0, Driver, UNCHANGED <<head, n, reorgs>>
  PROVE  Enough'
<1> USE DEF HasInput, RecordedInputIsEnough
<1>1. ASSUME NEW i, InputGood(i) PROVE InputGood(i)'
  BY <1>1 DEF InputGood, Told, IsChain, Home
<1>2. ASSUME UNCHANGED host, pc' \in HasInput \/ (pc = "load" /\ pc' = "fetch_block")
      PROVE  HostGood(host, pc)'
  BY <1>2 DEF Enough, HostGood, Told, IsChain, Home
<1>3. CASE try_load_input_from_cache
  <2>1. CASE Stop("failed")
    BY <2>1, StopEnough
  <2>2. CASE /\ pc = "load" /\ file.kind = "whole" /\ input' = file.input /\ pc' = WithInput
             /\ UNCHANGED <<file, result, host, guest>>
    BY <1>1, <1>2, <2>2 DEF Enough, WithInput
  <2>3. CASE /\ pc = "load" /\ pc' = "fetch_block"
             /\ UNCHANGED <<file, result, host, input, guest>>
    BY <1>1, <1>2, <2>3 DEF Enough
  <2> QED BY <1>3, <2>1, <2>2, <2>3 DEF try_load_input_from_cache
<1>4. CASE create_cache \/ create_output
  BY <1>1, <1>2, <1>4 DEF Enough, create_cache, create_output, create
<1>5. CASE write_cache
  BY <1>1, <1>2, <1>5 DEF Enough, write_cache, whole, WithInput
<1>6. CASE write_output
  <2>1. HostGood(NoHost, "idle")
    BY NoHostGood
  <2>2. HostGood(host, pc)'
    BY <1>6, <2>1 DEF write_output, End, HostGood, Told, IsChain, Home
  <2> QED BY <1>1, <1>6, <2>2 DEF Enough, write_output, whole, End
<1> QED BY <1>3, <1>4, <1>5, <1>6 DEF Driver

(* A step of the host that goes on. *)
LEMMA HostStepEnough ==
  ASSUME TypeOK, Enough, UNCHANGED <<head, n, reorgs>>, NEW x,
         \/ Host(x) /\ HostGood(x, pc) /\ pc \notin HasInput
         \/ \E q \in {"fetch_parent", "execute", "proofs", "headers"} :
              HostTo(q, x) /\ HostGood(x, q) /\ pc # "replay"
  PROVE  Enough'
<1>1. /\ host' = x /\ HostGood(x, pc') /\ pc' \notin HasInput
      /\ pc # "replay" /\ UNCHANGED <<file, result, guest>>
  BY DEF Host, HostTo, HasInput
<1>2. HostGood(host, pc)'
  BY <1>1 DEF HostGood, Told, IsChain, Home
<1>3. (file.kind = "whole" => InputGood(file.input))'
  BY <1>1 DEF Enough, InputGood, Told, IsChain, Home
<1> QED BY <1>1, <1>2, <1>3 DEF Enough, HasInput, RecordedInputIsEnough

LEMMA FailsEnough ==
  ASSUME TypeOK, Enough, UNCHANGED <<head, n>>, NEW found, Fails(found)
  PROVE  Enough'
BY StopEnough DEF Fails

LEMMA HomeIsStateBlock ==
  ASSUME TypeOK
  PROVE  /\ n \in Heights /\ n \in Nat /\ head \in Branches
         /\ n >= 1 => Pred(n) = n - 1 /\ StateBlock = Home
         /\ Pred(n) <= Tip[head] => n >= 1
<1>1. n \in Heights /\ n \in Nat /\ head \in Branches
  BY HostInputAssumption DEF TypeOK, Heights
<1>2. n >= 1 => Pred(n) = n - 1 /\ StateBlock = Home
  BY <1>1, PredType DEF StateBlock, Home
<1>3. n = 0 => ~(Pred(n) <= Tip[head])
  BY <1>1, PredType, HostInputAssumption
<1> QED BY <1>1, <1>2, <1>3

LEMMA ExecutesEnough ==
  ASSUME TypeOK, Enough, reorgs = 0, Executes, UNCHANGED <<head, n, reorgs>>
  PROVE  Enough'
<1>0. /\ n \in Heights /\ n \in Nat /\ head \in Branches /\ host \in HostType
      /\ HostGood(host, pc)
  BY HomeIsStateBlock DEF TypeOK, Enough
<1>1. CASE fetch_block
  <2>1. ASSUME NEW b \in get_block_by_number(n),
               HostTo("fetch_parent", [host EXCEPT !.current = b])
        PROVE  Enough'
    <3>1. b = BlockAt(head, n)
      BY DEF get_block_by_number
    <3> DEFINE new == [host EXCEPT !.current = b]
    <3>4. pc = "fetch_block"
      BY <1>1 DEF fetch_block
    <3>2. HostGood(new, "fetch_parent")
      BY <1>0, <3>1, <3>4 DEF HostGood, Told, HostType
    <3> HIDE DEF new
    <3> QED BY <2>1, <3>2, <3>4, HostStepEnough DEF new
  <2> QED BY <1>1, <2>1, FailsEnough DEF fetch_block
<1>2. CASE fetch_parent
  <2>1. ASSUME NEW b \in get_block_by_number(Pred(n)),
               HostTo("execute", [host EXCEPT !.previous = b,
                                              !.oldest_ancestor = first_ancestor(n)])
        PROVE  Enough'
    <3>1. Pred(n) <= Tip[head] /\ b = BlockAt(head, Pred(n))
      BY DEF get_block_by_number
    <3>2. n >= 1 /\ b = Home /\ first_ancestor(n) = n - 1
      BY <3>1, HomeIsStateBlock DEF Home, first_ancestor
    <3> DEFINE new == [host EXCEPT !.previous = b, !.oldest_ancestor = first_ancestor(n)]
    <3>4. pc = "fetch_parent"
      BY <1>2 DEF fetch_parent
    <3>5. /\ new.previous = Home /\ new.oldest_ancestor = n - 1
          /\ new.current = host.current /\ new.accounts = host.accounts
          /\ new.storage = host.storage /\ new.hashes = host.hashes
          /\ new.pending = host.pending /\ new.proofs = host.proofs
          /\ new.ancestor_headers = host.ancestor_headers
      BY <1>0, <3>2 DEF HostType
    <3>6. HostGood(host, "fetch_parent")
      BY <1>0, <3>4
    <3> HIDE DEF new
    <3>7. Told(new)
      BY <3>5, <3>6 DEF HostGood, Told
    <3>3. HostGood(new, "execute")
      BY <1>0, <3>2, <3>5, <3>6, <3>7 DEF HostGood
    <3> HIDE DEF new
    <3> QED BY <2>1, <3>3, <3>4, HostStepEnough DEF new
  <2> QED BY <1>2, <2>1, FailsEnough DEF fetch_parent
<1>3. ASSUME pc = "execute" PROVE n >= 1 /\ StateBlock = Home /\ pc \notin HasInput
  BY <1>0, <1>3, HomeIsStateBlock DEF HostGood, HasInput
<1>4. ASSUME NEW a \in Addresses, fetch_account_proof(a)
      PROVE  Enough'
  <2> DEFINE new == [host EXCEPT !.pending =
               {[address |-> a, nonce |-> AccountOf[StateBlock.branch][a].nonce]}]
  <2>1. pc = "execute" /\ (Host(new) \/ Fails(HasState))
    BY <1>4 DEF fetch_account_proof, Executing
  <2>2. HostGood(new, pc)
    BY <1>0, <1>3, <2>1 DEF HostGood, Told, HostType
  <2> HIDE DEF new
  <2> QED BY <1>3, <2>1, <2>2, HostStepEnough, FailsEnough
<1>5. CASE fetch_account_code
  <2>1. PICK r \in host.pending :
          \/ Host([host EXCEPT !.accounts[r.address] =
                     [nonce |-> r.nonce, code |-> AccountOf[StateBlock.branch][r.address].code],
                   !.pending = {}])
          \/ Fails(HasState)
    BY <1>5 DEF fetch_account_code
  <2> DEFINE info == [nonce |-> r.nonce, code |-> AccountOf[StateBlock.branch][r.address].code]
             new == [host EXCEPT !.accounts[r.address] = info, !.pending = {}]
  <2>2. r.address \in Addresses /\ pc = "execute"
    BY <1>0, <1>5 DEF HostType, fetch_account_code
  <2>3. info = AccountOf[Home.branch][r.address]
    <3>1. StateBlock = Home /\ Home.branch \in Branches
      BY <1>3, <2>2, StateBlockType
    <3>2. AccountOf[Home.branch][r.address] \in Account
      BY <2>2, <3>1, AccountType
    <3>3. r.nonce = AccountOf[Home.branch][r.address].nonce
      BY <1>0 DEF HostGood
    <3> QED BY <3>1, <3>2, <3>3 DEF Account
  <2>4. Host(new) \/ Fails(HasState)
    BY <2>1
  <2> HIDE DEF info
  <2>5. HostGood(new, pc)
    BY <1>0, <2>2, <2>3 DEF HostGood, Told, HostType
  <2> HIDE DEF new
  <2> QED BY <1>3, <2>2, <2>4, <2>5, HostStepEnough, FailsEnough
<1>6. ASSUME NEW a \in Addresses, NEW s \in Slots, fetch_storage_at(a, s)
      PROVE  Enough'
  <2> DEFINE value == StorageOf[StateBlock.branch][a][s]
             new == [host EXCEPT !.storage[<<a, s>>] = value]
  <2>1. pc = "execute" /\ (Host(new) \/ Fails(HasState))
    BY <1>6 DEF fetch_storage_at, Executing
  <2>2. value = StorageOf[Home.branch][a][s]
    BY <1>3, <2>1
  <2> HIDE DEF value
  <2>3. HostGood(new, pc)
    BY <1>0, <2>1, <2>2 DEF HostGood, Told, HostType
  <2> HIDE DEF new
  <2> QED BY <1>3, <2>1, <2>3, HostStepEnough, FailsEnough
<1>7. ASSUME NEW h \in Heights, fetch_block_hash(h)
      PROVE  Enough'
  <2>1. ASSUME NEW b \in get_block_by_number(h),
               Host([host EXCEPT !.hashes[h] = b, !.oldest_ancestor = min_ancestor(h, @)])
        PROVE  Enough'
    <3>1. b = BlockAt(head, h) /\ h \in Nat /\ h < n /\ pc = "execute"
      <4>1. b = BlockAt(head, h)
        BY DEF get_block_by_number
      <4>2. h \in Asked(n) /\ pc = "execute"
        BY <1>7 DEF fetch_block_hash, Executing
      <4>3. h \in Nat /\ h < n
        BY <1>0, <4>2 DEF Asked
      <4> QED BY <4>1, <4>2, <4>3
    <3> DEFINE oldest == min_ancestor(h, host.oldest_ancestor)
               new == [host EXCEPT !.hashes[h] = b, !.oldest_ancestor = oldest]
    <3>2. oldest \in Nat /\ oldest <= h /\ oldest <= host.oldest_ancestor
          /\ host.oldest_ancestor \in Nat
      BY <1>0, <3>1 DEF min_ancestor, HostType, Heights
    <3>3. Host(new)
      BY <2>1
    <3> HIDE DEF oldest
    <3>4. HostGood(new, pc)
      <4>1. new = [host EXCEPT !.hashes[h] = b, !.oldest_ancestor = oldest] /\ new \in HostType
        <5>1. b \in SomeBlock /\ oldest \in Heights
          BY <1>0, <3>1, <3>2, WidthIsTwo, BlockAtType DEF Heights
        <5> QED BY <1>0, <5>1 DEF HostType
      <4>2. Told(new)
        BY <1>0, <3>1 DEF HostGood, Told, HostType
      <4>3. \A g \in Heights : new.hashes[g] # NoBlock => new.oldest_ancestor <= g /\ g < n
        BY <1>0, <3>1, <3>2 DEF HostGood, HostType, Heights
      <4>4. new.oldest_ancestor <= n - 1
        BY <1>0, <3>1, <3>2 DEF HostType
      <4> QED BY <1>0, <3>1, <4>2, <4>3, <4>4 DEF HostGood, HostType
    <3> HIDE DEF new
    <3> QED BY <1>3, <3>1, <3>3, <3>4, HostStepEnough
  <2> QED BY <1>7, <2>1, FailsEnough DEF fetch_block_hash
<1>8. CASE finish_execution
  <2> DEFINE new == [host EXCEPT !.todo = get_state_requests(host.accounts, host.storage)]
  <2>1. pc = "execute" /\ (HostTo("proofs", new) \/ Fails(IsTrue(Trace, host.current)))
    BY <1>8 DEF finish_execution, Executing
  <2>2. HostGood(new, "proofs")
    BY <1>0, <2>1 DEF HostGood, Told, HostType, get_state_requests
  <2> HIDE DEF new
  <2> QED BY <2>1, <2>2, HostStepEnough, FailsEnough
<1>9. ASSUME pc \in {"proofs", "headers"} PROVE n >= 1 /\ StateBlock = Home /\ pc \notin HasInput
  BY <1>0, <1>9, HomeIsStateBlock DEF HostGood, HasInput
<1>10. ASSUME NEW a \in Addresses, fetch_proof_before(a) \/ fetch_proof_after(a)
       PROVE  Enough'
  <2> DEFINE before == [host EXCEPT !.proofs[a] = StateBlock]
             after == [host EXCEPT !.todo = @ \ {a}]
  <2>1. pc = "proofs"
    BY <1>10 DEF fetch_proof_before, fetch_proof_after
  <2>2. \/ Host(before) \/ Fails(HasState)
        \/ host.proofs[a] # NoBlock /\ Host(after)
        \/ Fails(n <= Tip[head])
    BY <1>10 DEF fetch_proof_before, fetch_proof_after
  <2>3. StateBlock = Home /\ Home # NoBlock
    <3>1. Home.branch \in Branches
      BY <1>9, <2>1, StateBlockType
    <3> QED BY <1>9, <2>1, <3>1, WidthIsTwo DEF NoBlock
  <2>4. HostGood(before, pc)
    <3>1. AccountsOf(before.accounts) \subseteq before.todo \cup ProofsOf(before.proofs)
      BY <1>0, <2>1, <2>3 DEF HostGood, HostType, ProofsOf, AccountsOf
    <3> QED BY <1>0, <2>1, <2>3, <3>1 DEF HostGood, Told, HostType
  <2>5. ASSUME host.proofs[a] # NoBlock PROVE HostGood(after, pc)
    <3>1. AccountsOf(after.accounts) \subseteq after.todo \cup ProofsOf(after.proofs)
      BY <1>0, <2>1, <2>5 DEF HostGood, HostType, ProofsOf, AccountsOf
    <3> QED BY <1>0, <2>1, <3>1 DEF HostGood, Told, HostType
  <2> HIDE DEF before, after
  <2> QED BY <1>9, <2>1, <2>2, <2>4, <2>5, HostStepEnough, FailsEnough
<1>11. CASE derive_header
  <2>1. ASSUME NEW r \in Roots(host.proofs), HostTo("headers", [host EXCEPT !.root = r])
        PROVE  Enough'
    <3>1. pc = "proofs" /\ host.todo = {}
      BY <1>11 DEF derive_header
    <3>2. r = Home
      BY <1>0, <3>1 DEF HostGood, Roots, ProofsOf
    <3> DEFINE new == [host EXCEPT !.root = r]
    <3>3. HostGood(new, "headers")
      BY <1>0, <3>1, <3>2 DEF HostGood, Told, HostType
    <3> HIDE DEF new
    <3> QED BY <2>1, <3>1, <3>3, HostStepEnough DEF new
  <2> QED BY <1>11, <2>1, FailsEnough DEF derive_header
<1>12. CASE fetch_header
  <2>1. ASSUME NEW b \in get_block_by_number(Height),
               Host([host EXCEPT !.ancestor_headers = Append(@, b)])
        PROVE  Enough'
    <3> DEFINE hs == host.ancestor_headers
               new == [host EXCEPT !.ancestor_headers = Append(hs, b)]
    <3>1. pc = "headers" /\ Height >= 0 /\ hs \in Seq(SomeBlock)
          /\ Height = n - (Len(hs) + 1) /\ b = BlockAt(head, Height)
      BY <1>0, <1>12 DEF fetch_header, Height, HostType, Heights, get_block_by_number
    <3>2. IsChain(hs)
      BY <1>0 DEF HostGood
    <3>3. IsChain(Append(hs, b))
      <4> HIDE DEF hs
      <4>1. Len(Append(hs, b)) = Len(hs) + 1 /\ Len(hs) \in Nat
            /\ Append(hs, b)[Len(hs) + 1] = b
            /\ \A i \in 1 .. Len(hs) : Append(hs, b)[i] = hs[i]
        BY <3>1
      <4>2. ASSUME NEW i \in 1 .. Len(hs) + 1
            PROVE  Append(hs, b)[i] = BlockAt(head, n - i)
        <5>1. CASE i = Len(hs) + 1
          BY <3>1, <4>1, <5>1
        <5>2. CASE i # Len(hs) + 1
          <6>1. i \in 1 .. Len(hs)
            BY <4>1, <5>2
          <6> QED BY <3>2, <4>1, <6>1 DEF IsChain
        <5> QED BY <5>1, <5>2
      <4>3. Len(hs) + 1 <= n
        BY <1>0, <3>1, <4>1
      <4> QED BY <4>1, <4>2, <4>3 DEF IsChain
    <3>4. Host(new)
      BY <2>1
    <3>5. HostGood(new, pc)
      <4> DEFINE hs2 == Append(hs, b)
      <4> HIDE DEF hs2
      <4>1. new = [host EXCEPT !.ancestor_headers = hs2] /\ IsChain(hs2)
        BY <3>3 DEF hs2
      <4> HIDE DEF new
      <4> QED BY <1>0, <3>1, <4>1 DEF HostGood, Told, HostType
    <3> HIDE DEF new
    <3> QED BY <1>9, <3>1, <3>4, <3>5, HostStepEnough
  <2> QED BY <1>12, <2>1, FailsEnough DEF fetch_header
<1>13. CASE finish_input
  <2> DEFINE hs == host.ancestor_headers
  <2>1. pc = "headers" /\ pc' = "cache_create" /\ Height < host.oldest_ancestor
        /\ UNCHANGED <<file, result, host, guest>>
    BY <1>13 DEF finish_input
  <2>2. /\ input'.current_block = host.current /\ input'.root = host.root
        /\ input'.ancestor_headers = hs /\ input'.proofs = host.proofs
        /\ input'.slots = SlotsOf(host.storage)
        /\ input'.bytecodes = get_bytecodes(host.accounts)
        /\ input'.trace.accounts = host.accounts /\ input'.trace.storage = host.storage
        /\ input'.trace.hashes = host.hashes
    BY <1>13 DEF finish_input, Trace
  <2>3. Len(hs) \in Nat /\ n - Len(hs) <= host.oldest_ancestor /\ Len(hs) >= 1
        /\ host.oldest_ancestor \in Nat
    BY <1>0, <2>1 DEF HostGood, HostType, Height, Heights
  <2>4. HostGood(host, "headers")
    BY <1>0, <2>1
  <2>5. InputGood(input)'
    <3>1. (n >= 1 /\ input.current_block = BlockAt(head, n) /\ input.root = Home)'
      BY <2>2, <2>4 DEF HostGood, Home
    <3>2. (IsChain(input.ancestor_headers) /\ Len(input.ancestor_headers) >= 1)'
      BY <2>2, <2>3, <2>4 DEF HostGood, IsChain
    <3>3. Told(input.trace)'
      BY <2>2, <2>4 DEF HostGood, Told, Home
    <3>4. (\A h \in Heights :
            input.trace.hashes[h] # NoBlock => n - Len(input.ancestor_headers) <= h /\ h < n)'
      BY <1>0, <2>2, <2>3, <2>4 DEF HostGood, Heights
    <3>5. (\A a \in Addresses : input.proofs[a] \in {NoBlock, Home})'
      BY <2>2, <2>4 DEF HostGood, Home
    <3>6. (\A a \in AccountsOf(input.trace.accounts) :
            input.proofs[a] # NoBlock /\ input.trace.accounts[a].code \in input.bytecodes)'
      BY <2>2, <2>4 DEF HostGood, AccountsOf, ProofsOf, get_bytecodes
    <3>7. (SlotsOf(input.trace.storage) \subseteq input.slots)'
      BY <2>2
    <3> QED BY <3>1, <3>2, <3>3, <3>4, <3>5, <3>6, <3>7 DEF InputGood
  <2>6. HostGood(host, pc)'
    BY <2>1, <2>4 DEF HostGood, Told, IsChain, Home
  <2>7. (file.kind = "whole" => InputGood(file.input))'
    BY <2>1 DEF Enough, InputGood, Told, IsChain, Home
  <2> QED BY <2>1, <2>5, <2>6, <2>7 DEF Enough, HasInput, RecordedInputIsEnough
<1> QED BY <1>1, <1>2, <1>4, <1>5, <1>6, <1>7, <1>8, <1>10, <1>11, <1>12, <1>13 DEF Executes

(* The headers of a good input are linked, and give every hash asked for.  *)
LEMMA GoodHeaders ==
  ASSUME TypeOK, InputGood(input)
  PROVE  /\ Links(Headers)
         /\ \A h \in Heights : n - Len(input.ancestor_headers) <= h /\ h < n =>
              Inserted(Headers)[h] = BlockAt(head, h)
<1> DEFINE hs == input.ancestor_headers
<1>1. /\ n \in Nat /\ n < Width /\ Width \in Nat /\ n >= 1 /\ hs \in Seq(SomeBlock)
      /\ input.current_block \in SomeBlock
      /\ Len(hs) \in Nat /\ Len(hs) <= n
      /\ \A i \in 1 .. Len(hs) : hs[i] = BlockAt(head, n - i)
      /\ input.current_block = BlockAt(head, n)
  BY HostInputAssumption DEF TypeOK, InputType, InputGood, IsChain, Heights
<1>2. /\ Headers \in Seq(SomeBlock) /\ Len(Headers) = Len(hs) + 1
      /\ Headers[1] = input.current_block
      /\ \A k \in 2 .. Len(hs) + 1 : Headers[k] = hs[k - 1]
  <2> HIDE DEF hs
  <2>1. Headers = <<input.current_block>> \o hs
    BY DEF Headers, hs
  <2> QED BY <1>1, <2>1
<1> HIDE DEF hs
<1>3. ASSUME NEW k \in 1 .. Len(hs) + 1
      PROVE  Headers[k] = BlockAt(head, n - k + 1)
  <2>1. CASE k = 1
    BY <1>1, <1>2, <2>1
  <2>2. CASE k # 1
    <3>1. k \in 2 .. Len(hs) + 1 /\ k - 1 \in 1 .. Len(hs) /\ n - (k - 1) = n - k + 1
      BY <1>1, <2>2
    <3>2. Headers[k] = BlockAt(head, n - (k - 1))
      BY <1>1, <1>2, <3>1
    <3> QED BY <3>1, <3>2
  <2> QED BY <2>1, <2>2
<1>4. ASSUME NEW k \in 1 .. Len(Headers) - 1
      PROVE  is_parent(Headers[k], Headers[k + 1])
  <2> DEFINE m == n - k + 1
  <2>1. k \in 1 .. Len(hs) + 1 /\ k + 1 \in 1 .. Len(hs) + 1 /\ n - (k + 1) + 1 = m - 1
        /\ m \in Nat /\ m >= 1 /\ m < Width
    BY <1>1, <1>2
  <2>2. Headers[k] = BlockAt(head, m) /\ Headers[k + 1] = BlockAt(head, m - 1)
    BY <1>3, <2>1
  <2> HIDE DEF m
  <2>3. Pred(m) = m - 1
    <3>1. m \in Heights
      BY <1>1, <2>1 DEF Heights
    <3> QED BY <2>1, <3>1, PredType
  <2>4. BlockAt(head, m).number = m /\ BlockAt(head, m - 1).number = m - 1
    BY DEF BlockAt
  <2>5. BlockAt(BlockAt(head, m).branch, m - 1) = BlockAt(head, m - 1)
    BY <2>1, SameBranch
  <2>6. parent_hash(BlockAt(head, m)) = BlockAt(head, m - 1)
    BY <2>1, <2>4, <2>5 DEF parent_hash
  <2> QED BY <2>2, <2>3, <2>4, <2>6 DEF is_parent
<1>5. Links(Headers)
  BY <1>4 DEF Links
<1>6. ASSUME NEW h \in Heights, n - Len(hs) <= h, h < n
      PROVE  Inserted(Headers)[h] = BlockAt(head, h)
  <2>1. h \in Nat
    BY WidthIsTwo DEF Heights
  <2> DEFINE k == n - h + 1
  <2>2. k \in 2 .. Len(Headers) /\ k \in 1 .. Len(hs) + 1 /\ n - k + 1 = h
    BY <1>1, <1>2, <1>6, <2>1
  <2> HIDE DEF k
  <2>3. Headers[k].number = h
    <3>1. Headers[k] = BlockAt(head, n - k + 1)
      BY <1>3, <2>2
    <3> QED BY <2>2, <3>1 DEF BlockAt
  <2>4. Inserted(Headers)[h] = BlockAt(Headers[1].branch, h)
    BY <1>2, <1>5, <2>2, <2>3, InsertedAncestors
  <2>5. BlockAt(BlockAt(head, n).branch, h) = BlockAt(head, h)
    BY <1>1, <1>6, <2>1, SameBranch
  <2> QED BY <1>1, <1>2, <2>4, <2>5
<1> QED BY <1>5, <1>6 DEF hs

LEMMA ReplaysEnough ==
  ASSUME TypeOK, Enough, reorgs = 0, Replays, UNCHANGED <<head, n, reorgs>>
  PROVE  Enough'
<1> DEFINE GuestType == [block_hashes : [Heights -> SomeBlock], loaded : SUBSET Addresses,
                         diverged : BOOLEAN]
<1>0. guest \in GuestType /\ input \in InputType
  BY DEF TypeOK
<1>1. ASSUME pc \in HasInput, pc' \in HasInput, UNCHANGED <<file, result, host, input>>,
             pc' = "replay" => GuestGood(guest, input)', pc' # "replay" => guest' = NoGuest
      PROVE  Enough'
  <2>1. InputGood(input)'
    BY <1>1 DEF Enough, InputGood, Told, IsChain, Home
  <2>2. HostGood(host, pc)'
    BY <1>1 DEF Enough, HostGood, HasInput, Told, IsChain, Home
  <2>3. (file.kind = "whole" => InputGood(file.input))'
    BY <1>1 DEF Enough, InputGood, Told, IsChain, Home
  <2> QED BY <1>1, <2>1, <2>2, <2>3 DEF Enough, RecordedInputIsEnough
<1>2. CASE build
  <2>1. pc = "build" /\ InputGood(input)
    BY <1>2 DEF build, Enough, HasInput
  <2>2. Strays = {}
    BY <2>1 DEF Strays, ProofsOf, InputGood
  <2>3. root_matches(input)
    <3>1. 1 \in 1 .. Len(input.ancestor_headers) /\ input.ancestor_headers # <<>>
      BY <1>0, <2>1 DEF InputGood, InputType
    <3> QED BY <2>1, <3>1 DEF InputGood, IsChain, Home, root_matches
  <2>4. pc' = "witness_db" /\ guest = NoGuest /\ UNCHANGED <<file, result, host, input, guest>>
    BY <1>2, <2>1, <2>2, <2>3 DEF build, Enough
  <2> QED BY <1>1, <2>1, <2>4 DEF HasInput
<1>3. CASE build_block_hashes
  <2>1. pc = "witness_db" /\ InputGood(input)
    BY <1>3 DEF build_block_hashes, Enough, HasInput
  <2>2. Links(Headers)
    BY <2>1, GoodHeaders
  <2>3. /\ pc' = "replay" /\ UNCHANGED <<file, result, host, input>>
        /\ guest' = [guest EXCEPT !.block_hashes = Inserted(Headers)]
    BY <1>3, <2>2 DEF build_block_hashes
  <2>4. guest.diverged = FALSE /\ guest.loaded = {}
    BY <2>1 DEF Enough, NoGuest
  <2>5. GuestGood(guest, input)'
    BY <1>0, <2>1, <2>3, <2>4, GoodHeaders DEF GuestGood
  <2> QED BY <1>1, <2>1, <2>3, <2>5 DEF HasInput
<1>4. ASSUME pc = "replay"
      PROVE  InputGood(input) /\ GuestGood(guest, input)
  BY <1>4 DEF Enough, HasInput
<1>5. ASSUME NEW x, Guest(x), pc = "replay", GuestGood(x, input)
      PROVE  Enough'
  BY <1>1, <1>5 DEF Guest, GuestGood, HasInput
<1>6. ASSUME NEW a \in Addresses, basic_ref(a)
      PROVE  Enough'
  <2>1. pc = "replay" /\ a \in AccountsOf(input.trace.accounts)
    BY <1>4, <1>6 DEF basic_ref, GuestGood, AccountsOf
  <2>2. input.proofs[a] # NoBlock /\ input.trace.accounts[a] = AccountOf[input.root.branch][a]
    BY <1>4, <2>1 DEF InputGood, Told, AccountsOf
  <2> DEFINE new == [guest EXCEPT !.loaded = @ \cup {a},
               !.diverged = @ \/ AccountOf[input.root.branch][a] # input.trace.accounts[a]]
  <2>3. Guest(new)
    BY <1>6, <2>2 DEF basic_ref
  <2>4. GuestGood(new, input)
    BY <1>0, <1>4, <2>1, <2>2 DEF GuestGood
  <2> HIDE DEF new
  <2> QED BY <1>5, <2>1, <2>3, <2>4
<1>7. ASSUME NEW a \in Addresses, code_by_hash_ref(a)
      PROVE  Enough'
  <2>1. pc = "replay" /\ a \in AccountsOf(input.trace.accounts)
        /\ AccountOf[input.root.branch][a].code \notin input.bytecodes
    BY <1>4, <1>7 DEF code_by_hash_ref, GuestGood
  <2> QED BY <1>4, <2>1 DEF InputGood, Told, AccountsOf
<1>8. ASSUME NEW a \in Addresses, NEW s \in Slots, storage_ref(a, s)
      PROVE  Enough'
  <2>1. pc = "replay" /\ a \in AccountsOf(input.trace.accounts)
        /\ <<a, s>> \in SlotsOf(input.trace.storage)
    BY <1>4, <1>8 DEF storage_ref, GuestGood, SlotsOf
  <2>2. /\ input.proofs[a] # NoBlock /\ <<a, s>> \in input.slots
        /\ input.trace.storage[<<a, s>>] = StorageOf[input.root.branch][a][s]
    BY <1>4, <2>1 DEF InputGood, Told, SlotsOf
  <2> DEFINE new == [guest EXCEPT !.diverged =
               @ \/ StorageOf[input.root.branch][a][s] # input.trace.storage[<<a, s>>]]
  <2>3. Guest(new)
    BY <1>8, <2>2 DEF storage_ref
  <2>4. GuestGood(new, input)
    BY <1>0, <1>4, <2>1, <2>2 DEF GuestGood
  <2> HIDE DEF new
  <2> QED BY <1>5, <2>1, <2>3, <2>4
<1>9. ASSUME NEW h \in Heights, block_hash_ref(h)
      PROVE  Enough'
  <2>1. pc = "replay" /\ input.trace.hashes[h] # NoBlock
    BY <1>4, <1>9 DEF block_hash_ref, GuestGood
  <2>2. guest.block_hashes[h] = BlockAt(head, h) /\ input.trace.hashes[h] = BlockAt(head, h)
    BY <1>4, <2>1 DEF InputGood, GuestGood, Told
  <2> DEFINE new == [guest EXCEPT !.diverged = @ \/ guest.block_hashes[h] # input.trace.hashes[h]]
  <2>3. Guest(new)
    BY <1>9, <2>1, <2>2 DEF block_hash_ref
  <2>4. GuestGood(new, input)
    BY <1>0, <1>4, <2>1, <2>2 DEF GuestGood
  <2> HIDE DEF new
  <2> QED BY <1>5, <2>1, <2>3, <2>4
<1>10. CASE finish_replay
  BY <1>10, StopEnough DEF finish_replay
<1> QED BY <1>2, <1>3, <1>6, <1>7, <1>8, <1>9, <1>10 DEF Replays

LEMMA EnoughStep == EnoughInv /\ [Next]_vars => EnoughInv'
<1> SUFFICES ASSUME EnoughInv, [Next]_vars, reorgs' = 0 PROVE Enough'
  BY TypeStep DEF EnoughInv
<1>1. TypeOK /\ reorgs \in Nat
  BY DEF EnoughInv, TypeOK
<1>2. CASE Start
  <2>1. Enough
    BY <1>2 DEF EnoughInv, Start
  <2> QED BY <1>2, <2>1 DEF Start, Enough, HasInput, HostGood, InputGood, Told, IsChain, Home,
         RecordedInputIsEnough
<1>3. CASE Step
  <2>1. Enough /\ reorgs = 0 /\ UNCHANGED <<head, n, reorgs>>
    BY <1>3 DEF EnoughInv, Step
  <2> QED BY <1>1, <1>3, <2>1, DriverEnough, ExecutesEnough, ReplaysEnough DEF Step
<1>4. CASE \E b \in Branches : Reorg(b)
  BY <1>1, <1>4 DEF Reorg
<1>5. CASE Abort
  <2>1. Enough /\ Stop("failed") /\ UNCHANGED <<head, n>>
    BY <1>5 DEF EnoughInv, Abort
  <2> QED BY <1>1, <2>1, StopEnough
<1>6. CASE UNCHANGED vars
  BY <1>6 DEF vars, EnoughInv, Enough, HostGood, InputGood, GuestGood, Told, IsChain, Home,
       RecordedInputIsEnough
<1> QED BY <1>2, <1>3, <1>4, <1>5, <1>6 DEF Next

(* RpcDb records all that the guest needs: over a chain that stands still  *)
(* no lookup and no check of the guest fails, whatever the block asks for, *)
(* in whatever order, and however often the driver was killed before.      *)
THEOREM GuestFindsWhatTheHostRecorded == Spec => []RecordedInputIsEnough
<1>1. Init => EnoughInv
  <2> SUFFICES ASSUME Init PROVE EnoughInv
    OBVIOUS
  <2>1. TypeOK
    BY NothingType, HostInputAssumption DEF Init, TypeOK
  <2>2. HostGood(host, pc)
    BY <2>1, NoHostGood DEF Init
  <2> QED BY <2>1, <2>2 DEF EnoughInv, Enough, HasInput, RecordedInputIsEnough, Init
<1>2. EnoughInv => RecordedInputIsEnough
  BY DEF EnoughInv, Enough, RecordedInputIsEnough
<1> QED BY <1>1, <1>2, EnoughStep, PTL DEF Spec

=============================================================================
