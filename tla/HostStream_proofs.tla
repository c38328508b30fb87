-------------------------- MODULE HostStream_proofs --------------------------
(* The guest on the stream that the host wrote: what is left to read and    *)
(* what is left to ask for agree, for every execution, every set of         *)
(* accounts and every cut of the state into chunks.                         *)
EXTENDS HostStream, StreamingState_proofs, SequenceTheorems, FiniteSetTheorems,
        NaturalsInduction

-----------------------------------------------------------------------------
(* The inductive invariant. *)

Call == [op : {"basic"}, a : Addr, at : Nat]
        \cup [op : {"storage"}, a : Addr, slot : Slot, at : Nat]
        \cup [op : {"code"}, code : Code, at : Nat]
WitnessAccess == [access : {"account", "storage", "modified"}, of : Addr]
                 \cup [access : {"bytecode"}, of : Code]
                 \cup {Marker}

(* Types of the host's and the reader's variables.                         *)
HTypeOK ==
  /\ hpc \in {"record", "bundle", "write", "done"}
  /\ calls \in Seq(Call)
  /\ witness_order \in Seq(WitnessAccess)
  /\ outcome \in Bundle
  /\ unrecorded \subseteq {a \in Addr : outcome[a] # None}
  /\ replayed \in 0 .. Len(calls)
  /\ cursor \in Nat

(* Call i adds an access: every one does but the second for a storage trie. *)
IsStorage(i, a) == calls[i].op = "storage" /\ calls[i].a = a
IsBasic(i, a) == calls[i].op = "basic" /\ calls[i].a = a
Writes(i) == calls[i].op = "storage" => \A j \in 1 .. i - 1 : ~IsStorage(j, calls[i].a)
IsAccessOf(x, call) ==
  \/ call.op = "basic" /\ x = Access("account", call.a)
  \/ call.op = "storage" /\ x = Access("storage", call.a)
  \/ call.op = "code" /\ x = Access("bytecode", call.code)

(* The accesses of execution, and where those of call i begin.             *)
Recorded == IF hpc = "record" THEN Len(witness_order) ELSE state_marker - 1
At(i) == IF i <= Len(calls) THEN calls[i].at ELSE Recorded

(* The accesses before the marker are those of the calls, in their order:  *)
(* call i has written one at calls[i].at + 1, or none.                     *)
CallsInv ==
  /\ At(1) = 0
  /\ \A i \in DOMAIN calls :
       /\ At(i + 1) = IF Writes(i) THEN calls[i].at + 1 ELSE calls[i].at
       /\ Writes(i) => /\ calls[i].at < Recorded
                       /\ IsAccessOf(witness_order[calls[i].at + 1], calls[i])
       /\ calls[i].op = "storage" => \E j \in 1 .. i - 1 : IsBasic(j, calls[i].a)
       /\ calls[i].op = "basic" => \A j \in 1 .. i - 1 : ~IsBasic(j, calls[i].a)

(* The orders that decide whether an access is new.                        *)
OrderInv ==
  /\ account_order = {a \in Addr : Asked(a)}
  /\ hpc = "record" => storage_order = {a \in Addr : \E i \in DOMAIN calls : IsStorage(i, a)}

(* Position i is the first marker.                                         *)
IsMarker(i) ==
  /\ i \in DOMAIN witness_order
  /\ witness_order[i] = Marker
  /\ \A j \in 1 .. i - 1 : witness_order[j] # Marker

(* After the marker no account is recorded: every account of the bundle    *)
(* was asked for.                                                          *)
OutcomeInv ==
  IF hpc = "record"
  THEN \A i \in DOMAIN witness_order : witness_order[i] # Marker
  ELSE /\ IsMarker(state_marker)
       /\ \A i \in state_marker + 1 .. Len(witness_order) :
            witness_order[i].access \in {"modified", "storage"}
       /\ \A a \in Addr : outcome[a] # None =>
            /\ Asked(a)
            /\ outcome[a].destroyed \/ \A s \in Changed(outcome[a]) : AskedSlot(a, s)

(* The guest starts on a complete stream.                                  *)
IdleInv == hpc # "done" => Init /\ replayed = 0 /\ cursor = 0 /\ rest = <<>>

(* The positions of the chunks in the stream, and their regions.           *)
Chunks == state_marker + 1 .. Len(stream)
Region(i) == stream[i].item.region

(* The stream: a hint for each access up to the marker, the frontier in    *)
(* its place, and chunks that part the accounts of the bundle.             *)
StreamInv ==
  hpc = "done" =>
    /\ Len(stream) \in Nat /\ state_marker <= Len(stream)
    /\ \A i \in 1 .. state_marker - 1 : stream[i] = WriteAccess(witness_order[i])
    /\ stream[state_marker] =
         Bytes([map |-> Parent, open |-> {a \in Addr : \A i \in Chunks : a \notin Region(i)},
                bad |-> {}], <<>>)
    /\ \A i \in Chunks : \E r \in Regions : /\ stream[i] = WriteChunk(r)
                                            /\ \E a \in r : outcome[a] # None
    /\ \A i, j \in Chunks : i < j => \A a \in Region(i), b \in Region(j) : a < b
    /\ \A a \in Addr : outcome[a] # None => \E i \in Chunks : a \in Region(i)

(* Calls that have their answer.                                           *)
Waiting == {"account", "storage_header", "storage_bytes"}
Answered == IF pc \in Waiting THEN replayed - 1 ELSE replayed

(* The guest caches what the host had for the calls answered so far, and   *)
(* nothing else.                                                           *)
CacheInv ==
  \A a \in Addr :
    /\ account_cache[a] \in {Unknown, Parent[a]}
    /\ storage_tries[a] \in {Unknown, FullStorage(a)}
    /\ hpc = "done" /\ pc \in Executing =>
         /\ account_cache[a] # Unknown <=> \E i \in 1 .. Answered : IsBasic(i, a)
         /\ storage_tries[a] # Unknown <=> \E i \in 1 .. Answered : IsStorage(i, a)

(* During execution the guest is at the hint of the call it makes next,    *)
(* and within a call at the hint of that call.                             *)
ReplayInv ==
  hpc = "done" /\ pc \in Executing =>
    /\ pc # "start"
    /\ header = [version |-> 2, chunk_count |-> Len(stream) - state_marker]
    /\ pc # "storage_bytes" => rest = <<>>
    /\ pc = "exec" => cursor = At(replayed + 1)
    /\ pc \in Waiting =>
         LET call == calls[replayed]
         IN  /\ replayed > 0 /\ Writes(replayed)
             /\ call.op = IF pc = "account" THEN "basic" ELSE "storage"
             /\ want = [a |-> call.a, slot |-> IF pc = "account" THEN None ELSE call.slot]
             /\ cursor = IF pc = "storage_bytes" THEN call.at + 1 ELSE call.at
             /\ pc = "storage_bytes" => rest = <<Bytes(FullStorage(call.a), <<>>)>>
    /\ pc = "frontier" => replayed = Len(calls) /\ cursor = state_marker - 1 /\ bundle = outcome

(* A chunk with nothing hidden.                                            *)
Whole(region) == [map |-> Below(Parent, region), open |-> region, bad |-> {}]

(* Chunks whose accounts have left the cache, whose accounts were taken    *)
(* from the bundle, and which are back in the frontier.                    *)
Validated == IF pc = "chunk_bytes" THEN cursor - 1 ELSE cursor
Taken == IF pc \in {"chunk_bytes", "chunk_witness"} THEN cursor - 1 ELSE cursor
Placed == IF pc \in {"chunk_bytes", "chunk_witness", "apply"} THEN cursor - 1 ELSE cursor

(* An account that can be updated only with its storage trie.              *)
NeedsTrie(b) == b.info # None /\ ~b.destroyed /\ Changed(b) # {}

(* During the update the cursor counts the chunks: what is left of the     *)
(* bundle lies in those to come.                                           *)
UpdateInv ==
  hpc = "done" /\ pc \in Updating =>
    /\ replayed = Len(calls) /\ bundle = outcome
    /\ cursor \in state_marker .. Len(stream)
    /\ header = [version |-> 2, chunk_count |-> Len(stream) - cursor]
    /\ pc \notin {"chunk_bytes", "chunk_witness"} => rest = <<>>
    /\ pc \in {"root", "accepted"} => cursor = Len(stream)
    /\ todo = {a \in Addr : outcome[a] # None /\ \E i \in Taken + 1 .. Len(stream) : a \in Region(i)}
    /\ \A a \in todo \cup run : NeedsTrie(outcome[a]) => storage_tries[a] # Unknown
    /\ \A i \in state_marker + 1 .. Validated : \A a \in Region(i) : account_cache[a] = Unknown

(* The frontier still holds the parent state where chunks are to come, and *)
(* is open outside of all chunks.                                          *)
FrontierAlignInv ==
  hpc = "done" /\ pc \in Updating =>
    /\ state_trie.bad \subseteq Deleted
    /\ \A a \in Addr : storage_root(state_trie.map[a]).canonical
    /\ \A i \in Placed + 1 .. Len(stream) : \A a \in Region(i) :
           state_trie.map[a] = Parent[a] /\ a \notin state_trie.bad
    /\ \A a \in Addr : (\A i \in Chunks : a \notin Region(i)) => a \in state_trie.open

(* The chunk in hand is the one before the cursor, with its witnesses next.*)
ChunkAlignInv ==
  hpc = "done" /\ pc \in {"chunk_bytes"} \cup InChunk =>
    /\ cursor > state_marker
    /\ chunk.region = Region(cursor)
    /\ chunk.expected = [map |-> Below(Parent, chunk.region), bad |-> {}]
    /\ chunk.count = Cardinality(PostAccesses(chunk.region))
    /\ pc = "chunk_bytes" => rest = <<Bytes(Whole(chunk.region), Witnesses(chunk.region))>>
    /\ pc = "chunk_witness" => rest = Witnesses(chunk.region)
    /\ pc \in InChunk => /\ chunk.open = chunk.region
                         /\ chunk.bad \subseteq chunk.region \cap Deleted
                         /\ \A a \in chunk.region : storage_root(chunk.map[a]).canonical

(* A rejection only for a shape that a deletion spoiled, with the post     *)
(* state reached, and a panic only for a storage trie after the marker.    *)
VerdictInv ==
  /\ pc = "rejected" => /\ DeletionSpoiledTheShape /\ state_trie.map = PostState
                        /\ replayed = Len(calls) /\ cursor = Len(stream) /\ rest = <<>>
  /\ pc = "panic" => PostStorageWitness

HInv == /\ HTypeOK /\ IndInv /\ CallsInv /\ OrderInv /\ OutcomeInv /\ IdleInv /\ StreamInv
        /\ CacheInv /\ ReplayInv /\ UpdateInv /\ FrontierAlignInv /\ ChunkAlignInv /\ VerdictInv

-----------------------------------------------------------------------------
(* Sequences. *)

(* t is s with e at its end.                                               *)
Extended(s, e, t) == t = Append(s, e)

(* What Append gives.                                                      *)
LEMMA ExtendedFacts ==
  ASSUME NEW S, NEW s \in Seq(S), NEW e \in S, NEW t, Extended(s, e, t)
  PROVE  /\ t \in Seq(S)
         /\ Len(s) \in Nat /\ Len(t) = Len(s) + 1
         /\ DOMAIN s = 1 .. Len(s) /\ DOMAIN t = 1 .. Len(s) + 1
         /\ \A i \in 1 .. Len(s) : t[i] = s[i]
         /\ t[Len(s) + 1] = e
BY AppendProperties, LenProperties DEF Extended

LEMMA ConcatFirst ==
  ASSUME NEW S, NEW s \in Seq(S), NEW e \in S
  PROVE  s \o <<>> = s /\ s \o <<e>> = Append(s, e)
BY ConcatEmptySeq, AppendIsConcat

(* A function on 1 .. n is a sequence of that length.                      *)
LEMMA LenOfFunction ==
  ASSUME NEW n \in Nat, NEW f, DOMAIN f = 1 .. n, f = [i \in 1 .. n |-> f[i]]
  PROVE  Len(f) = n
<1> DEFINE R == {f[i] : i \in 1 .. n}
<1>1. f \in [1 .. n -> R]
  OBVIOUS
<1> HIDE DEF R
<1>2. f \in Seq(R)
  BY <1>1, SeqDef
<1>3. Len(f) \in Nat /\ DOMAIN f = 1 .. Len(f)
  BY <1>2, LenProperties
<1> QED BY <1>3

LEMMA SingletonFacts ==
  ASSUME NEW e
  PROVE  /\ <<e>> # <<>> /\ Head(<<e>>) = e /\ Tail(<<e>>) = <<>>
OBVIOUS

-----------------------------------------------------------------------------
(* Recording. *)

LEMMA InitStep == HInit => HInv
<1> SUFFICES ASSUME HInit
             PROVE  HInv
  OBVIOUS
<1>1. TypeOK /\ IndInv
  BY InitTypes
     DEF HInit, Init, IndInv, LookupInv, HistoryInv, SeenInv, CachedAccountsAreNotUpdated,
         FrontierInv, ChunkInv, FinalInv, Executing, Updating, InChunk
<1>2. HTypeOK
  BY EmptySeq DEF HInit, HTypeOK, Bundle
<1>3. CallsInv /\ OrderInv /\ OutcomeInv
  BY EmptySeq DEF HInit, CallsInv, OrderInv, OutcomeInv, At, Recorded, Asked
<1>4. IdleInv /\ StreamInv /\ ReplayInv /\ UpdateInv /\ FrontierAlignInv /\ ChunkAlignInv
  BY DEF HInit, IdleInv, StreamInv, ReplayInv, UpdateInv, FrontierAlignInv, ChunkAlignInv
<1>5. CacheInv /\ VerdictInv
  BY DEF HInit, Init, CacheInv, VerdictInv
<1> QED BY <1>1, <1>2, <1>3, <1>4, <1>5 DEF HInv

(* Until the stream is written the guest has not begun.                    *)
LEMMA HostStep ==
  ASSUME HInv, hpc # "done", hpc' # "done", UNCHANGED <<vars, reader_vars>>,
         HTypeOK', CallsInv', OrderInv', OutcomeInv'
  PROVE  HInv'
<1>1. IndInv'
  BY FailStep DEF HInv
<1>2. IdleInv'
  BY DEF HInv, IdleInv, Init, vars, reader_vars
<1>3. StreamInv' /\ ReplayInv' /\ UpdateInv' /\ FrontierAlignInv' /\ ChunkAlignInv'
  BY DEF StreamInv, ReplayInv, UpdateInv, FrontierAlignInv, ChunkAlignInv
<1>4. CacheInv'
  BY DEF HInv, CacheInv, vars, FullStorage
<1>5. VerdictInv'
  BY DEF HInv, IdleInv, Init, VerdictInv, vars
<1> QED BY <1>1, <1>2, <1>3, <1>4, <1>5 DEF HInv

(* One more call, with its access or with none.                            *)
LEMMA RecordCall ==
  ASSUME HInv, hpc = "record", hpc' = "record",
         NEW call \in Call, NEW access, IsAccessOf(access, call),
         call.at = Len(witness_order), Extended(calls, call, calls'),
         call.op = "storage" => \E j \in DOMAIN calls : IsBasic(j, call.a),
         call.op = "basic" => \A j \in DOMAIN calls : ~IsBasic(j, call.a),
         IF call.op = "storage" /\ \E j \in DOMAIN calls : IsStorage(j, call.a)
         THEN witness_order' = witness_order
         ELSE Extended(witness_order, access, witness_order')
  PROVE  CallsInv' /\ OutcomeInv' /\ calls' \in Seq(Call) /\ witness_order' \in Seq(WitnessAccess)
<1>1. calls \in Seq(Call) /\ witness_order \in Seq(WitnessAccess)
  BY DEF HInv, HTypeOK
<1>2. access \in WitnessAccess /\ access # Marker
  BY DEF Call, WitnessAccess, IsAccessOf, Access, Marker
<1>3. calls' \in Seq(Call) /\ witness_order' \in Seq(WitnessAccess)
  BY <1>1, <1>2, ExtendedFacts
<1>4. PICK n \in Nat, w \in Nat, x \in Nat :
        n = Len(calls) /\ w = Len(witness_order) /\ x = Len(witness_order')
  BY <1>1, <1>3, LenProperties
<1>5. /\ Len(calls') = n + 1
      /\ DOMAIN calls = 1 .. n /\ DOMAIN calls' = 1 .. n + 1
      /\ \A i \in 1 .. n : calls'[i] = calls[i]
      /\ calls'[n + 1] = call
      /\ \A i \in 1 .. n : calls[i] \in Call
  BY <1>1, <1>4, ExtendedFacts, ElementOfSeq
<1>6. /\ DOMAIN witness_order = 1 .. w /\ DOMAIN witness_order' = 1 .. x
      /\ \A i \in 1 .. w : witness_order'[i] = witness_order[i]
      /\ IF call.op = "storage" /\ \E j \in 1 .. n : IsStorage(j, call.a)
         THEN x = w ELSE x = w + 1 /\ witness_order'[w + 1] = access
  <2>1. CASE call.op = "storage" /\ \E j \in DOMAIN calls : IsStorage(j, call.a)
    BY <1>1, <1>4, <1>5, <2>1, LenProperties
  <2>2. CASE ~(call.op = "storage" /\ \E j \in DOMAIN calls : IsStorage(j, call.a))
    <3>1. Extended(witness_order, access, witness_order')
      BY <2>2
    <3>2. /\ Len(witness_order') = Len(witness_order) + 1
          /\ DOMAIN witness_order = 1 .. Len(witness_order)
          /\ DOMAIN witness_order' = 1 .. Len(witness_order) + 1
          /\ \A i \in 1 .. Len(witness_order) : witness_order'[i] = witness_order[i]
          /\ witness_order'[Len(witness_order) + 1] = access
      BY <1>1, <1>2, <3>1, ExtendedFacts
    <3> QED BY <1>4, <1>5, <2>2, <3>2
  <2> QED BY <2>1, <2>2
<1>7. /\ Recorded = w /\ Recorded' = x /\ call.at = w
      /\ \A i \in 1 .. n + 1 : At(i) = IF i <= n THEN calls[i].at ELSE w
      /\ \A i \in 1 .. n + 2 : At(i)' = IF i <= n + 1 THEN calls'[i].at ELSE x
  BY <1>4, <1>5 DEF Recorded, At
<1>8. CallsInv /\ \A i \in DOMAIN witness_order : witness_order[i] # Marker
  BY DEF HInv, OutcomeInv
<1>9. \A i \in 1 .. n : Writes(i)' <=> Writes(i)
  BY <1>5 DEF Writes, IsStorage
<1>10. Writes(n + 1)' <=> ~(call.op = "storage" /\ \E j \in 1 .. n : IsStorage(j, call.a))
  <2>1. (n + 1) - 1 = n
    OBVIOUS
  <2> QED BY <1>5, <2>1 DEF Writes, IsStorage
<1>11. OutcomeInv'
  BY <1>2, <1>6, <1>8 DEF OutcomeInv
<1>12. At(1)' = 0
  <2>1. At(1) = 0
    BY <1>8 DEF CallsInv
  <2> QED BY <1>5, <1>7, <2>1
<1>13. ASSUME NEW i \in 1 .. n
       PROVE  /\ At(i + 1)' = IF Writes(i)' THEN calls'[i].at + 1 ELSE calls'[i].at
              /\ Writes(i)' => /\ calls'[i].at < Recorded'
                               /\ IsAccessOf(witness_order'[calls'[i].at + 1], calls'[i])
              /\ calls'[i].op = "storage" => \E j \in 1 .. i - 1 : IsBasic(j, calls[i].a)'
              /\ calls'[i].op = "basic" => \A j \in 1 .. i - 1 : ~IsBasic(j, calls[i].a)'
  <2>1. calls'[i] = calls[i] /\ i \in DOMAIN calls /\ calls[i].at \in Nat
    BY <1>5 DEF Call
  <2>2. At(i + 1)' = At(i + 1)
    BY <1>5, <1>7
  <2>3. Writes(i) => calls[i].at < w /\ IsAccessOf(witness_order[calls[i].at + 1], calls[i])
    BY <1>7, <1>8, <2>1 DEF CallsInv
  <2>4. calls[i].at < w => /\ calls[i].at < x
                           /\ witness_order'[calls[i].at + 1] = witness_order[calls[i].at + 1]
    BY <1>6, <2>1
  <2>5. \A j \in 1 .. i - 1 : IsBasic(j, calls[i].a)' <=> IsBasic(j, calls[i].a)
    BY <1>5, <2>1 DEF IsBasic
  <2>6. /\ calls[i].op = "storage" => \E j \in 1 .. i - 1 : IsBasic(j, calls[i].a)
        /\ calls[i].op = "basic" => \A j \in 1 .. i - 1 : ~IsBasic(j, calls[i].a)
    BY <1>8, <2>1 DEF CallsInv
  <2>7. At(i + 1) = IF Writes(i) THEN calls[i].at + 1 ELSE calls[i].at
    BY <1>8, <2>1 DEF CallsInv
  <2> QED BY <1>7, <1>9, <2>1, <2>2, <2>3, <2>4, <2>5, <2>6, <2>7
<1>14. /\ At(n + 2)' = IF Writes(n + 1)' THEN call.at + 1 ELSE call.at
       /\ Writes(n + 1)' => call.at < Recorded' /\ IsAccessOf(witness_order'[call.at + 1], call)
  BY <1>6, <1>7, <1>10
<1>15. /\ call.op = "storage" => \E j \in 1 .. n : IsBasic(j, call.a)'
       /\ call.op = "basic" => \A j \in 1 .. n : ~IsBasic(j, call.a)'
  BY <1>5 DEF IsBasic
<1>16. CallsInv'
  <2>1. ASSUME NEW i \in 1 .. n + 1
        PROVE  /\ At(i + 1)' = IF Writes(i)' THEN calls'[i].at + 1 ELSE calls'[i].at
               /\ Writes(i)' => /\ calls'[i].at < Recorded'
                                /\ IsAccessOf(witness_order'[calls'[i].at + 1], calls'[i])
               /\ calls'[i].op = "storage" => \E j \in 1 .. i - 1 : IsBasic(j, calls[i].a)'
               /\ calls'[i].op = "basic" => \A j \in 1 .. i - 1 : ~IsBasic(j, calls[i].a)'
    <3>1. CASE i \in 1 .. n
      BY <1>13, <3>1
    <3>2. CASE i = n + 1
      <4>1. i - 1 = n /\ i + 1 = n + 2 /\ calls'[i] = call
        BY <1>5, <3>2
      <4> QED BY <1>14, <1>15, <3>2, <4>1 DEF IsBasic
    <3> QED BY <3>1, <3>2
  <2> QED BY <1>5, <1>12, <2>1 DEF CallsInv
<1> QED BY <1>3, <1>11, <1>16

(* What is asked for after one more call.                                  *)
LEMMA AskedAfter ==
  ASSUME calls \in Seq(Call), NEW call \in Call, Extended(calls, call, calls')
  PROVE  /\ \A a \in Addr : Asked(a)' <=> Asked(a) \/ (call.op = "basic" /\ call.a = a)
         /\ \A a \in Addr : (\E i \in DOMAIN calls' : IsStorage(i, a)')
                              <=> \/ \E i \in DOMAIN calls : IsStorage(i, a)
                                  \/ call.op = "storage" /\ call.a = a
<1>1. PICK n \in Nat : n = Len(calls)
  BY LenProperties
<1>2. /\ DOMAIN calls = 1 .. n /\ DOMAIN calls' = 1 .. n + 1
      /\ \A i \in 1 .. n : calls'[i] = calls[i]
      /\ calls'[n + 1] = call
  BY <1>1, ExtendedFacts
<1>3. \A i \in DOMAIN calls' : i \in DOMAIN calls \/ i = n + 1
  BY <1>2
<1>4. DOMAIN calls \subseteq DOMAIN calls' /\ n + 1 \in DOMAIN calls'
  BY <1>2
<1> QED BY <1>2, <1>3, <1>4 DEF Asked, IsStorage

LEMMA record_basicStep ==
  ASSUME HInv, NEW a \in Addr, record_basic(a)
  PROVE  HInv'
<1> DEFINE call == [op |-> "basic", a |-> a, at |-> Len(witness_order)]
           access == Access("account", a)
<1>1. calls \in Seq(Call) /\ witness_order \in Seq(WitnessAccess) /\ Len(witness_order) \in Nat
  BY LenProperties DEF HInv, HTypeOK
<1>2. call \in Call /\ call.op = "basic" /\ call.a = a /\ call.at = Len(witness_order)
      /\ IsAccessOf(access, call)
  BY <1>1 DEF Call, IsAccessOf
<1>3. a \notin account_order
  BY DEF record_basic, HInv, OrderInv
<1>4. /\ hpc = "record" /\ hpc' = "record" /\ ~Asked(a)
      /\ Extended(calls, call, calls') /\ Extended(witness_order, access, witness_order')
      /\ account_order' = account_order \cup {a}
      /\ UNCHANGED <<vars, storage_order, outcome, unrecorded, reader_vars>>
  BY <1>3 DEF record_basic, Extended
<1> HIDE DEF call, access
<1>5. \A j \in DOMAIN calls : ~IsBasic(j, call.a)
  BY <1>2, <1>4 DEF Asked, IsBasic
<1>6. CallsInv' /\ OutcomeInv' /\ calls' \in Seq(Call) /\ witness_order' \in Seq(WitnessAccess)
  BY <1>2, <1>4, <1>5, RecordCall
<1>7. OrderInv'
  BY <1>1, <1>2, <1>4, AskedAfter DEF HInv, OrderInv
<1>8. HTypeOK'
  <2>1. Len(calls') = Len(calls) + 1 /\ Len(calls) \in Nat
    BY <1>1, <1>2, <1>4, ExtendedFacts
  <2> QED BY <1>4, <1>6, <2>1 DEF HInv, HTypeOK, reader_vars
<1> QED BY <1>4, <1>6, <1>7, <1>8, HostStep

LEMMA record_codeStep ==
  ASSUME HInv, NEW c \in Code, record_code(c)
  PROVE  HInv'
<1> DEFINE call == [op |-> "code", code |-> c, at |-> Len(witness_order)]
           access == Access("bytecode", c)
<1>1. calls \in Seq(Call) /\ witness_order \in Seq(WitnessAccess) /\ Len(witness_order) \in Nat
  BY LenProperties DEF HInv, HTypeOK
<1>2. call \in Call /\ call.op = "code" /\ call.at = Len(witness_order)
      /\ IsAccessOf(access, call)
  BY <1>1 DEF Call, IsAccessOf
<1>3. /\ hpc = "record" /\ hpc' = "record"
      /\ Extended(calls, call, calls') /\ Extended(witness_order, access, witness_order')
      /\ UNCHANGED <<vars, account_order, storage_order, outcome, unrecorded, reader_vars>>
  BY DEF record_code, Extended
<1> HIDE DEF call, access
<1>4. CallsInv' /\ OutcomeInv' /\ calls' \in Seq(Call) /\ witness_order' \in Seq(WitnessAccess)
  BY <1>2, <1>3, RecordCall
<1>5. OrderInv'
  BY <1>1, <1>2, <1>3, AskedAfter DEF HInv, OrderInv
<1>6. HTypeOK'
  <2>1. Len(calls') = Len(calls) + 1 /\ Len(calls) \in Nat
    BY <1>1, <1>2, <1>3, ExtendedFacts
  <2> QED BY <1>3, <1>4, <2>1 DEF HInv, HTypeOK, reader_vars
<1> QED BY <1>3, <1>4, <1>5, <1>6, HostStep

LEMMA record_storageStep ==
  ASSUME HInv, NEW a \in Addr, NEW s \in Slot, record_storage(a, s)
  PROVE  HInv'
<1> DEFINE call == [op |-> "storage", a |-> a, slot |-> s, at |-> Len(witness_order)]
           access == Access("storage", a)
<1>1. calls \in Seq(Call) /\ witness_order \in Seq(WitnessAccess) /\ Len(witness_order) \in Nat
  BY LenProperties DEF HInv, HTypeOK
<1>2. call \in Call /\ call.op = "storage" /\ call.a = a /\ call.at = Len(witness_order)
      /\ IsAccessOf(access, call) /\ access \in WitnessAccess
  BY <1>1 DEF Call, IsAccessOf, WitnessAccess, Access
<1>3. a \in account_order /\ (a \in storage_order <=> \E j \in DOMAIN calls : IsStorage(j, a))
  BY DEF record_storage, HInv, OrderInv
<1>4. /\ hpc = "record" /\ hpc' = "record" /\ Asked(a)
      /\ Extended(calls, call, calls')
      /\ account_order' = account_order \cup {a}
      /\ storage_order' = storage_order \cup {a}
      /\ UNCHANGED <<vars, outcome, unrecorded, reader_vars>>
  BY DEF record_storage, Extended
<1>5. IF a \in storage_order THEN witness_order' = witness_order
      ELSE Extended(witness_order, access, witness_order')
  <2>1. First(account_order, "account", a) = <<>>
    BY <1>3 DEF First
  <2>2. witness_order \o <<>> = witness_order
    BY <1>1, ConcatEmptySeq
  <2>3. witness_order' = witness_order \o First(storage_order, "storage", a)
    BY <2>1, <2>2 DEF record_storage
  <2>4. CASE a \in storage_order
    BY <2>2, <2>3, <2>4 DEF First
  <2>5. CASE a \notin storage_order
    BY <1>1, <1>2, <2>3, <2>5, ConcatFirst DEF First, Extended
  <2> QED BY <2>4, <2>5
<1> HIDE DEF call, access
<1>6. \E j \in DOMAIN calls : IsBasic(j, call.a)
  BY <1>2, <1>4 DEF Asked, IsBasic
<1>7. CallsInv' /\ OutcomeInv' /\ calls' \in Seq(Call) /\ witness_order' \in Seq(WitnessAccess)
  BY <1>2, <1>3, <1>4, <1>5, <1>6, RecordCall
<1>8. OrderInv'
  BY <1>1, <1>2, <1>3, <1>4, AskedAfter DEF HInv, OrderInv
<1>9. HTypeOK'
  <2>1. Len(calls') = Len(calls) + 1 /\ Len(calls) \in Nat
    BY <1>1, <1>2, <1>4, ExtendedFacts
  <2> QED BY <1>4, <1>7, <2>1 DEF HInv, HTypeOK, reader_vars
<1> QED BY <1>4, <1>7, <1>8, <1>9, HostStep

(* Where the marker is once execution has ended.                           *)
LEMMA MarkerFacts ==
  ASSUME HInv, hpc # "record"
  PROVE  /\ witness_order \in Seq(WitnessAccess)
         /\ IsMarker(state_marker)
         /\ Len(witness_order) \in Nat /\ state_marker \in 1 .. Len(witness_order)
         /\ state_marker \in Nat /\ Recorded = state_marker - 1
BY LenProperties DEF HInv, HTypeOK, OutcomeInv, IsMarker, Recorded

(* CallsInv depends only on the accesses before the marker.                *)
LEMMA CallsKept ==
  ASSUME CallsInv, calls \in Seq(Call), calls' = calls, Recorded \in Nat, Recorded' = Recorded,
         \A i \in 1 .. Recorded : witness_order'[i] = witness_order[i]
  PROVE  CallsInv'
<1>1. DOMAIN calls = 1 .. Len(calls) /\ \A i \in DOMAIN calls : calls[i].at \in Nat
  BY LenProperties, ElementOfSeq DEF Call
<1>2. /\ \A i \in Int : At(i)' = At(i)
      /\ \A i \in DOMAIN calls : Writes(i)' <=> Writes(i)
  BY DEF At, Writes, IsStorage
<1>3. At(1)' = 0
  BY <1>2 DEF CallsInv
<1>4. ASSUME NEW i \in DOMAIN calls
      PROVE  /\ At(i + 1)' = IF Writes(i)' THEN calls[i].at + 1 ELSE calls[i].at
             /\ Writes(i)' => /\ calls[i].at < Recorded'
                              /\ IsAccessOf(witness_order'[calls[i].at + 1], calls[i])
             /\ calls[i].op = "storage" => \E j \in 1 .. i - 1 : IsBasic(j, calls[i].a)
             /\ calls[i].op = "basic" => \A j \in 1 .. i - 1 : ~IsBasic(j, calls[i].a)
  <2>1. i + 1 \in Int
    BY <1>1
  <2>2. calls[i].at < Recorded => witness_order'[calls[i].at + 1] = witness_order[calls[i].at + 1]
    BY <1>1
  <2> QED BY <1>2, <2>1, <2>2 DEF CallsInv
<1> QED BY <1>3, <1>4 DEF CallsInv, IsBasic

LEMMA record_outcomeStep ==
  ASSUME HInv, NEW b \in Bundle, record_outcome(b)
  PROVE  HInv'
<1>1. calls \in Seq(Call) /\ witness_order \in Seq(WitnessAccess)
  BY DEF HInv, HTypeOK
<1>2. PICK w \in Nat : w = Len(witness_order)
  BY <1>1, LenProperties
<1>3. Marker \in WitnessAccess
  BY DEF WitnessAccess
<1>4. /\ hpc = "record" /\ hpc' = "bundle" /\ Extended(witness_order, Marker, witness_order')
      /\ outcome' = b /\ unrecorded' = {a \in Addr : b[a] # None}
      /\ UNCHANGED <<vars, calls, account_order, storage_order, reader_vars>>
      /\ \A a \in Addr : b[a] # None =>
           Asked(a) /\ (b[a].destroyed \/ \A s \in Changed(b[a]) : AskedSlot(a, s))
  BY DEF record_outcome, Extended
<1>5. /\ witness_order' \in Seq(WitnessAccess) /\ Len(witness_order') = w + 1
      /\ DOMAIN witness_order = 1 .. w /\ DOMAIN witness_order' = 1 .. w + 1
      /\ \A i \in 1 .. w : witness_order'[i] = witness_order[i]
      /\ witness_order'[w + 1] = Marker
  BY <1>1, <1>2, <1>3, <1>4, ExtendedFacts
<1>6. IsMarker(w + 1)'
  <2>1. \A i \in 1 .. w : witness_order[i] # Marker
    BY <1>4, <1>5 DEF HInv, OutcomeInv
  <2>2. (w + 1) - 1 = w
    OBVIOUS
  <2> QED BY <1>5, <2>1, <2>2 DEF IsMarker
<1>7. state_marker' = w + 1
  <2>1. ASSUME NEW i, IsMarker(i)', witness_order' \in Seq(WitnessAccess)
        PROVE  state_marker' = i
    <3>1. IsMarker(state_marker)'
      BY <2>1 DEF IsMarker, state_marker
    <3>2. state_marker' \in 1 .. w + 1 /\ i \in 1 .. w + 1
      BY <1>5, <2>1, <3>1 DEF IsMarker
    <3> QED BY <1>5, <2>1, <3>1, <3>2 DEF IsMarker
  <2> QED BY <1>5, <1>6, <2>1
<1>8. Recorded = w /\ Recorded' = w
  BY <1>2, <1>4, <1>7 DEF Recorded
<1>9. CallsInv'
  BY <1>1, <1>4, <1>5, <1>8, CallsKept DEF HInv
<1>10. OrderInv'
  BY <1>4 DEF HInv, OrderInv, Asked
<1>11. OutcomeInv'
  <2>1. \A i \in state_marker' + 1 .. Len(witness_order') :
          witness_order'[i].access \in {"modified", "storage"}
    BY <1>5, <1>7
  <2>2. \A a \in Addr : outcome'[a] # None =>
          /\ Asked(a)'
          /\ outcome'[a].destroyed \/ \A s \in Changed(outcome'[a]) : AskedSlot(a, s)'
    BY <1>4 DEF Asked, AskedSlot
  <2> QED BY <1>4, <1>6, <1>7, <2>1, <2>2 DEF OutcomeInv
<1>12. HTypeOK'
  BY <1>4, <1>5 DEF HInv, HTypeOK, reader_vars
<1> QED BY <1>4, <1>9, <1>10, <1>11, <1>12, HostStep

(* More accesses after the marker.                                         *)
LEMMA MoreAccesses ==
  ASSUME HInv, hpc = "bundle", hpc' \in {"bundle", "write"}, UNCHANGED <<calls, outcome>>,
         witness_order' \in Seq(WitnessAccess),
         NEW w \in Nat, NEW x \in Nat,
         DOMAIN witness_order = 1 .. w, DOMAIN witness_order' = 1 .. x, w <= x,
         \A i \in 1 .. w : witness_order'[i] = witness_order[i],
         \A i \in w + 1 .. x : witness_order'[i].access \in {"modified", "storage"}
  PROVE  CallsInv' /\ OutcomeInv'
<1>1. PICK m : m = state_marker
  OBVIOUS
<1>2. Len(witness_order) = w /\ Len(witness_order') = x
  BY LenProperties DEF HInv, HTypeOK
<1>3. IsMarker(m) /\ m \in 1 .. w /\ Recorded = m - 1
  BY <1>1, <1>2, MarkerFacts
<1>4. IsMarker(m)'
  BY <1>3 DEF IsMarker
<1>5. state_marker' = m
  <2>1. IsMarker(state_marker)'
    BY <1>4 DEF IsMarker, state_marker
  <2>2. state_marker' \in 1 .. x /\ m \in 1 .. x
    BY <1>3, <2>1 DEF IsMarker
  <2> QED BY <1>4, <2>1, <2>2 DEF IsMarker
<1>6. Recorded' = m - 1
  BY <1>5 DEF Recorded
<1>7. CallsInv'
  BY <1>3, <1>6, CallsKept DEF HInv, HTypeOK
<1>8. \A i \in m + 1 .. x : witness_order'[i].access \in {"modified", "storage"}
  <2>1. \A i \in m + 1 .. w : witness_order[i].access \in {"modified", "storage"}
    BY <1>1, <1>2 DEF HInv, OutcomeInv
  <2>2. ASSUME NEW i \in m + 1 .. x
        PROVE  i \in m + 1 .. w \/ i \in w + 1 .. x
    BY <1>3
  <2>3. ASSUME NEW i \in m + 1 .. w
        PROVE  i \in 1 .. w
    BY <1>3
  <2> QED BY <2>1, <2>2, <2>3
<1>9. \A a \in Addr : outcome'[a] # None =>
        /\ Asked(a)'
        /\ outcome'[a].destroyed \/ \A s \in Changed(outcome'[a]) : AskedSlot(a, s)'
  <2>1. \A a \in Addr : Asked(a)' <=> Asked(a)
    BY DEF Asked
  <2>2. \A a \in Addr, s \in Slot : AskedSlot(a, s)' <=> AskedSlot(a, s)
    BY DEF AskedSlot
  <2>3. \A a \in Addr : outcome[a] # None =>
          Asked(a) /\ (outcome[a].destroyed \/ \A s \in Changed(outcome[a]) : AskedSlot(a, s))
    BY DEF HInv, OutcomeInv
  <2> QED BY <2>1, <2>2, <2>3 DEF Changed
<1>10. OutcomeInv'
  BY <1>2, <1>4, <1>5, <1>8, <1>9 DEF OutcomeInv
<1> QED BY <1>7, <1>10

LEMMA record_bundle_accountStep ==
  ASSUME HInv, NEW a \in Addr, record_bundle_account(a)
  PROVE  HInv'
<1> DEFINE modified == Append(witness_order, Access("modified", a))
           post == /\ outcome[a].info # None
                   /\ Changed(outcome[a]) # {}
                   /\ a \notin storage_order
                   /\ storage_root(Parent[a]) # EMPTY_ROOT_HASH
<1>1. witness_order \in Seq(WitnessAccess)
  BY DEF HInv, HTypeOK
<1>2. Access("modified", a) \in WitnessAccess /\ Access("storage", a) \in WitnessAccess
  BY DEF Access, WitnessAccess
<1>3. /\ hpc = "bundle" /\ hpc' \in {"bundle", "write"} /\ a \in unrecorded
      /\ unrecorded' = unrecorded \ {a}
      /\ UNCHANGED <<vars, calls, outcome, reader_vars>>
  BY DEF record_bundle_account
<1>4. a \in account_order
  BY <1>3 DEF HInv, HTypeOK, OutcomeInv, OrderInv
<1>5. account_order' = account_order
  BY <1>4 DEF record_bundle_account
<1>6. PICK w \in Nat : w = Len(witness_order) /\ DOMAIN witness_order = 1 .. w
  BY <1>1, LenProperties
<1>7. /\ modified \in Seq(WitnessAccess) /\ Len(modified) = w + 1
      /\ DOMAIN modified = 1 .. w + 1
      /\ \A i \in 1 .. w : modified[i] = witness_order[i]
      /\ modified[w + 1] = Access("modified", a)
  BY <1>1, <1>2, <1>6, ExtendedFacts DEF Extended
<1>8. \/ witness_order' = modified
      \/ witness_order' = Append(modified, Access("storage", a))
  <2>1. First(account_order, "account", a) = <<>>
    BY <1>4 DEF First
  <2>2. modified \o <<>> = modified
    BY <1>7, ConcatEmptySeq
  <2> HIDE DEF modified
  <2>3. IF post THEN witness_order' = Append(modified \o First(account_order, "account", a),
                                             Access("storage", a))
        ELSE witness_order' = modified
    BY DEF record_bundle_account, modified
  <2> QED BY <2>1, <2>2, <2>3
<1> HIDE DEF modified
<1>9. PICK x \in Nat :
        /\ witness_order' \in Seq(WitnessAccess)
        /\ DOMAIN witness_order' = 1 .. x /\ w <= x
        /\ \A i \in 1 .. w : witness_order'[i] = witness_order[i]
        /\ \A i \in w + 1 .. x : witness_order'[i].access \in {"modified", "storage"}
  <2>1. CASE witness_order' = modified
    <3>1. \A i \in w + 1 .. w + 1 : witness_order'[i].access \in {"modified", "storage"}
      BY <1>7, <2>1 DEF Access
    <3> QED BY <1>7, <2>1, <3>1
  <2>2. CASE witness_order' = Append(modified, Access("storage", a))
    <3>1. Extended(modified, Access("storage", a), witness_order')
      BY <2>2 DEF Extended
    <3>2. /\ witness_order' \in Seq(WitnessAccess)
          /\ DOMAIN witness_order' = 1 .. (w + 1) + 1
          /\ \A i \in 1 .. w + 1 : witness_order'[i] = modified[i]
          /\ witness_order'[(w + 1) + 1] = Access("storage", a)
      BY <1>2, <1>7, <3>1, ExtendedFacts
    <3>3. \A i \in 1 .. w : witness_order'[i] = witness_order[i]
      BY <1>7, <3>2
    <3>4. \A i \in w + 1 .. w + 2 : i = w + 1 \/ i = w + 2
      OBVIOUS
    <3>5. (w + 1) + 1 = w + 2 /\ w + 1 \in 1 .. w + 1
      OBVIOUS
    <3>6. \A i \in w + 1 .. w + 2 : witness_order'[i].access \in {"modified", "storage"}
      BY <1>7, <3>2, <3>4, <3>5 DEF Access
    <3> QED BY <3>2, <3>3, <3>5, <3>6
  <2> QED BY <1>8, <2>1, <2>2
<1>10. CallsInv' /\ OutcomeInv'
  BY <1>3, <1>6, <1>9, MoreAccesses
<1>11. OrderInv'
  BY <1>3, <1>5 DEF HInv, OrderInv, Asked
<1>12. HTypeOK'
  BY <1>3, <1>9 DEF HInv, HTypeOK, reader_vars
<1> QED BY <1>3, <1>10, <1>11, <1>12, HostStep

LEMMA nothing_to_recordStep ==
  ASSUME HInv, nothing_to_record
  PROVE  HInv'
<1>1. /\ hpc = "bundle" /\ hpc' = "write"
      /\ UNCHANGED <<vars, calls, witness_order, account_order, storage_order, outcome,
                     unrecorded, reader_vars>>
  BY DEF nothing_to_record, record_vars
<1>2. PICK w \in Nat : DOMAIN witness_order = 1 .. w
  BY LenProperties DEF HInv, HTypeOK
<1>3. CallsInv' /\ OutcomeInv'
  <2>1. \A i \in w + 1 .. w : witness_order'[i].access \in {"modified", "storage"}
    OBVIOUS
  <2>2. witness_order \in Seq(WitnessAccess) /\ w <= w
    BY DEF HInv, HTypeOK
  <2>3. hpc' \in {"bundle", "write"} /\ UNCHANGED <<calls, outcome, witness_order>>
    BY <1>1
  <2> QED BY <1>1, <1>2, <2>1, <2>2, <2>3, MoreAccesses
<1>4. OrderInv' /\ HTypeOK'
  BY <1>1 DEF HInv, OrderInv, Asked, HTypeOK, reader_vars
<1> QED BY <1>1, <1>3, <1>4, HostStep

-----------------------------------------------------------------------------
(* Writing the stream. *)

(* What the recorded accesses determine.                                   *)
LEMMA RecordKept ==
  ASSUME UNCHANGED <<calls, witness_order>>
  PROVE  /\ state_marker' = state_marker
         /\ \A r : PostAccesses(r)' = PostAccesses(r)
         /\ \A r : Witnesses(r)' = Witnesses(r)
         /\ \A r : WriteChunk(r)' = WriteChunk(r)
         /\ \A i : Writes(i)' <=> Writes(i)
         /\ \A i, a : IsBasic(i, a)' <=> IsBasic(i, a)
         /\ \A i, a : IsStorage(i, a)' <=> IsStorage(i, a)
<1>1. state_marker' = state_marker
  BY DEF state_marker
<1>2. \A r : PostAccesses(r)' = PostAccesses(r)
  BY <1>1 DEF PostAccesses
<1>3. \A r : Witnesses(r)' = Witnesses(r)
  BY <1>2 DEF Witnesses
<1>4. \A r : WriteChunk(r)' = WriteChunk(r)
  BY <1>2, <1>3 DEF WriteChunk
<1>5. /\ \A i : Writes(i)' <=> Writes(i)
      /\ \A i, a : IsBasic(i, a)' <=> IsBasic(i, a)
      /\ \A i, a : IsStorage(i, a)' <=> IsStorage(i, a)
  BY DEF Writes, IsBasic, IsStorage
<1> QED BY <1>1, <1>2, <1>3, <1>4, <1>5

(* A chunk names its region.                                               *)
LEMMA RegionOfChunk == \A r : WriteChunk(r).item.region = r
BY DEF WriteChunk, Hint

LEMMA write_streamStep ==
  ASSUME HInv, NEW n \in Nat, NEW chunks \in [1 .. n -> Regions], write_ceno_client_input(chunks)
  PROVE  HInv'
<1>1. PICK m \in Nat : m = state_marker /\ m > 0
  BY MarkerFacts DEF write_ceno_client_input
<1>2. Len(chunks) = n /\ DOMAIN chunks = 1 .. n
  BY LenOfFunction
<1>3. /\ hpc = "write" /\ hpc' = "done" /\ pc' = "exec"
      /\ IsCut(chunks, {a \in Addr : outcome[a] # None})
      /\ header' = [version |-> 2, chunk_count |-> n]
      /\ UNCHANGED <<exec_vars, state_trie, chunk, bundle, todo, run>>
      /\ UNCHANGED <<calls, witness_order, account_order, storage_order, outcome, unrecorded>>
      /\ UNCHANGED <<replayed, cursor, rest>>
      /\ stream' = [i \in 1 .. m + n |->
                      IF i < m THEN WriteAccess(witness_order[i])
                      ELSE IF i = m THEN Bytes(StateFrontier(chunks), <<>>)
                      ELSE WriteChunk(chunks[i - m])]
  BY <1>1, <1>2 DEF write_ceno_client_input, record_vars, reader_vars
<1>4. /\ Len(stream') = m + n
      /\ \A i \in 1 .. m - 1 : stream'[i] = WriteAccess(witness_order[i])
      /\ stream'[m] = Bytes(StateFrontier(chunks), <<>>)
      /\ \A i \in m + 1 .. m + n : stream'[i] = WriteChunk(chunks[i - m])
  <2>1. m + n \in Nat /\ m \in 1 .. m + n
    BY <1>1
  <2>2. Len(stream') = m + n
    BY <1>3, <2>1, LenOfFunction
  <2>3. ASSUME NEW i \in 1 .. m - 1
        PROVE  i \in 1 .. m + n /\ i < m
    BY <1>1
  <2>4. ASSUME NEW i \in m + 1 .. m + n
        PROVE  i \in 1 .. m + n /\ ~(i < m) /\ i # m
    BY <1>1
  <2> QED BY <1>3, <2>1, <2>2, <2>3, <2>4
<1>5. pc = "start" /\ replayed = 0 /\ cursor = 0 /\ rest = <<>> /\ Init
  BY <1>3 DEF HInv, IdleInv, Init
<1>6. IndInv'
  <2>1. [version |-> 2, chunk_count |-> n] \in Header
    BY DEF Header
  <2>2. build_streaming_state([version |-> 2, chunk_count |-> n])
    BY <1>3, <1>5 DEF build_streaming_state
  <2> QED BY <2>1, <2>2, HeaderStep DEF HInv
<1>7. /\ state_marker' = m
      /\ \A r : WriteChunk(r)' = WriteChunk(r)
      /\ \A i : Writes(i)' <=> Writes(i)
  BY <1>1, <1>3, RecordKept
<1>8. Recorded = m - 1 /\ Recorded' = m - 1
  BY <1>1, <1>3, <1>7 DEF Recorded
<1>9. CallsInv'
  BY <1>1, <1>3, <1>8, CallsKept DEF HInv, HTypeOK
<1>10. OrderInv' /\ HTypeOK'
  BY <1>3 DEF HInv, OrderInv, Asked, HTypeOK
<1>11. OutcomeInv'
  <2>1. IsMarker(m) /\ IsMarker(m)'
    BY <1>1, <1>3, MarkerFacts DEF IsMarker
  <2>2. \A a \in Addr : Asked(a)' <=> Asked(a)
    BY <1>3 DEF Asked
  <2>3. \A a \in Addr, s \in Slot : AskedSlot(a, s)' <=> AskedSlot(a, s)
    BY <1>3 DEF AskedSlot
  <2>4. \A a \in Addr : outcome[a] # None =>
          Asked(a) /\ (outcome[a].destroyed \/ \A s \in Changed(outcome[a]) : AskedSlot(a, s))
    BY <1>3 DEF HInv, OutcomeInv
  <2>5. \A i \in m + 1 .. Len(witness_order) : witness_order[i].access \in {"modified", "storage"}
    BY <1>1, <1>3 DEF HInv, OutcomeInv
  <2> QED BY <1>3, <1>7, <2>1, <2>2, <2>3, <2>4, <2>5 DEF OutcomeInv, Changed
<1>12. StreamInv'
  <2>1. \A i \in m + 1 .. m + n : i - m \in 1 .. n /\ Region(i)' = chunks[i - m]
    <3>1. \A i \in m + 1 .. m + n : i - m \in 1 .. n
      OBVIOUS
    <3>2. \A i \in m + 1 .. m + n : Region(i)' = WriteChunk(chunks[i - m]).item.region
      BY <1>4 DEF Region
    <3> QED BY <3>1, <3>2, RegionOfChunk
  <2>2. Chunks' = m + 1 .. m + n
    BY <1>4, <1>7 DEF Chunks
  <2>3. \A j \in 1 .. n : m + j \in m + 1 .. m + n /\ Region(m + j)' = chunks[j]
    <3>1. \A j \in 1 .. n : m + j \in m + 1 .. m + n /\ (m + j) - m = j
      OBVIOUS
    <3> QED BY <2>1, <3>1
  <2>4. {a \in Addr : \A i \in Chunks' : a \notin Region(i)'}
          = {a \in Addr : \A j \in 1 .. n : a \notin chunks[j]}
    BY <2>1, <2>2, <2>3
  <2>5. \A i \in Chunks' : \E r \in Regions : /\ stream'[i] = WriteChunk(r)'
                                             /\ \E a \in r : outcome'[a] # None
    <3>1. ASSUME NEW i \in m + 1 .. m + n
          PROVE  \E r \in Regions : stream'[i] = WriteChunk(r)' /\ \E a \in r : outcome'[a] # None
      <4>1. i - m \in 1 .. n /\ chunks[i - m] \in Regions
        BY <2>1
      <4>2. stream'[i] = WriteChunk(chunks[i - m])'
        BY <1>4, <1>7
      <4>3. \E a \in chunks[i - m] : outcome[a] # None
        BY <1>2, <1>3, <4>1 DEF IsCut
      <4> QED BY <1>3, <4>1, <4>2, <4>3
    <3> QED BY <2>2, <3>1
  <2>6. \A i, j \in Chunks' : i < j => \A a \in Region(i)', b \in Region(j)' : a < b
    <3>1. \A i, j \in m + 1 .. m + n : i < j => i - m < j - m
      OBVIOUS
    <3> QED BY <1>2, <1>3, <2>1, <2>2, <3>1 DEF IsCut
  <2>7. \A a \in Addr : outcome'[a] # None => \E i \in Chunks' : a \in Region(i)'
    BY <1>2, <1>3, <2>2, <2>3 DEF IsCut
  <2>8. stream'[m] = Bytes([map |-> Parent,
                            open |-> {a \in Addr : \A i \in Chunks' : a \notin Region(i)'},
                            bad |-> {}], <<>>)
    BY <1>2, <1>4, <2>4 DEF StateFrontier
  <2>9. Len(stream') \in Nat /\ m <= Len(stream')
    BY <1>1, <1>4
  <2> QED BY <1>3, <1>4, <1>7, <2>5, <2>6, <2>7, <2>8, <2>9 DEF StreamInv
<1>13. IdleInv' /\ VerdictInv' /\ UpdateInv' /\ FrontierAlignInv' /\ ChunkAlignInv'
  BY <1>3 DEF IdleInv, VerdictInv, UpdateInv, FrontierAlignInv, ChunkAlignInv, Updating, InChunk
<1>14. CacheInv'
  <2>1. account_cache' = [a \in Addr |-> Unknown] /\ storage_tries' = [a \in Addr |-> Unknown]
    BY <1>3, <1>5 DEF Init, exec_vars
  <2>2. Answered' = 0
    BY <1>3, <1>5 DEF Answered, Waiting
  <2>3. 1 .. Answered' = {}
    BY <2>2
  <2> QED BY <2>1, <2>3 DEF CacheInv
<1>15. ReplayInv'
  <2>1. At(1)' = 0
    BY <1>9 DEF CallsInv
  <2>2. Len(stream') - state_marker' = n
    BY <1>4, <1>7
  <2> QED BY <1>3, <1>5, <2>1, <2>2 DEF ReplayInv, Executing, Waiting
<1> QED BY <1>6, <1>9, <1>10, <1>11, <1>12, <1>13, <1>14, <1>15 DEF HInv

-----------------------------------------------------------------------------
(* The guest.  What the host recorded and wrote stands still. *)

LEMMA HostKept ==
  ASSUME HInv, hpc = "done", UNCHANGED host_vars
  PROVE  /\ hpc' = "done" /\ calls' = calls /\ outcome' = outcome /\ stream' = stream
         /\ CallsInv' /\ OrderInv' /\ OutcomeInv' /\ IdleInv'
         /\ state_marker' = state_marker /\ Recorded' = Recorded
         /\ \A i \in Int : At(i)' = At(i)
         /\ \A i : Region(i)' = Region(i)
         /\ Chunks' = Chunks
         /\ PostStorageWitness' <=> PostStorageWitness
         /\ Deleted' = Deleted
<1>1. /\ hpc' = "done" /\ UNCHANGED <<calls, witness_order, account_order, storage_order, outcome,
                                      unrecorded, stream>>
  BY DEF host_vars, record_vars
<1>2. state_marker' = state_marker
  BY <1>1, RecordKept
<1>3. Recorded' = Recorded
  BY <1>1, <1>2 DEF Recorded
<1>4. \A i \in Int : At(i)' = At(i)
  BY <1>1, <1>3 DEF At
<1>5. Recorded \in Nat
  BY MarkerFacts
<1>6. CallsInv'
  BY <1>1, <1>3, <1>5, CallsKept DEF HInv, HTypeOK
<1>7. OrderInv' /\ IdleInv'
  BY <1>1 DEF HInv, OrderInv, IdleInv, Asked
<1>8. OutcomeInv'
  <2>1. IsMarker(state_marker)'
    BY <1>1, <1>2, MarkerFacts DEF IsMarker
  <2>2. \A a \in Addr : Asked(a)' <=> Asked(a)
    BY <1>1 DEF Asked
  <2>3. \A a \in Addr, s \in Slot : AskedSlot(a, s)' <=> AskedSlot(a, s)
    BY <1>1 DEF AskedSlot
  <2> QED BY <1>1, <1>2, <2>1, <2>2, <2>3 DEF HInv, OutcomeInv, Changed
<1>9. (\A i : Region(i)' = Region(i)) /\ Chunks' = Chunks
  BY <1>1, <1>2 DEF Region, Chunks
<1>10. PostStorageWitness' <=> PostStorageWitness
  BY <1>1 DEF PostStorageWitness
<1>11. Deleted' = Deleted
  BY <1>1 DEF Deleted
<1> QED BY <1>1, <1>2, <1>3, <1>4, <1>6, <1>7, <1>8, <1>9, <1>10, <1>11

LEMMA StreamKept ==
  ASSUME HInv, hpc = "done", UNCHANGED host_vars
  PROVE  StreamInv'
<1>1. UNCHANGED <<calls, witness_order, outcome, stream>>
  BY DEF host_vars, record_vars
<1>2. (\A i : Region(i)' = Region(i)) /\ Chunks' = Chunks /\ state_marker' = state_marker
  BY HostKept
<1>3. \A r : WriteChunk(r)' = WriteChunk(r)
  BY <1>1, RecordKept
<1>4. {a \in Addr : \A i \in Chunks' : a \notin Region(i)'}
        = {a \in Addr : \A i \in Chunks : a \notin Region(i)}
  BY <1>2
<1>5. StreamInv /\ hpc = "done"
  BY DEF HInv
<1>6. stream'[state_marker'] =
        Bytes([map |-> Parent,
               open |-> {a \in Addr : \A i \in Chunks' : a \notin Region(i)'}, bad |-> {}], <<>>)
  <2>1. stream[state_marker] =
          Bytes([map |-> Parent,
                 open |-> {a \in Addr : \A i \in Chunks : a \notin Region(i)}, bad |-> {}], <<>>)
    BY <1>5 DEF StreamInv
  <2> QED BY <1>1, <1>2, <1>4, <2>1
<1>7. \A i \in Chunks' : \E r \in Regions : /\ stream'[i] = WriteChunk(r)'
                                           /\ \E a \in r : outcome'[a] # None
  BY <1>1, <1>2, <1>3, <1>5 DEF StreamInv
<1>8. /\ \A i, j \in Chunks' : i < j => \A a \in Region(i)', b \in Region(j)' : a < b
      /\ \A a \in Addr : outcome'[a] # None => \E i \in Chunks' : a \in Region(i)'
  BY <1>1, <1>2, <1>5 DEF StreamInv
<1>9. /\ Len(stream') \in Nat /\ state_marker' <= Len(stream')
      /\ \A i \in 1 .. state_marker' - 1 : stream'[i] = WriteAccess(witness_order'[i])
  BY <1>1, <1>2, <1>5 DEF StreamInv
<1> QED BY <1>6, <1>7, <1>8, <1>9 DEF StreamInv

(* It is enough to show the parts of the invariant that speak of the guest.*)
LEMMA GuestStep ==
  ASSUME HInv, hpc = "done", UNCHANGED host_vars, IndInv',
         replayed' \in 0 .. Len(calls), cursor' \in Nat,
         CacheInv', ReplayInv', UpdateInv', FrontierAlignInv', ChunkAlignInv', VerdictInv'
  PROVE  HInv'
<1>1. HTypeOK'
  BY DEF HInv, HTypeOK, host_vars, record_vars
<1> QED BY <1>1, HostKept, StreamKept DEF HInv

(* What the guest finds in the stream.                                     *)
LEMMA GuestFacts ==
  ASSUME HInv, hpc = "done"
  PROVE  /\ state_marker \in Nat /\ state_marker > 0 /\ Recorded = state_marker - 1
         /\ Len(stream) \in Nat /\ state_marker <= Len(stream)
         /\ Len(calls) \in Nat /\ DOMAIN calls = 1 .. Len(calls)
         /\ \A i \in 1 .. Len(calls) : calls[i] \in Call
         /\ replayed \in 0 .. Len(calls) /\ cursor \in Nat
         /\ \A i \in Chunks : /\ Region(i) \in Regions
                              /\ stream[i] = WriteChunk(Region(i))
                              /\ \E a \in Region(i) : outcome[a] # None
<1>1. state_marker \in Nat /\ state_marker > 0 /\ Recorded = state_marker - 1
  BY MarkerFacts
<1>2. /\ Len(calls) \in Nat /\ DOMAIN calls = 1 .. Len(calls)
      /\ \A i \in 1 .. Len(calls) : calls[i] \in Call
  BY LenProperties, ElementOfSeq DEF HInv, HTypeOK
<1>3. replayed \in 0 .. Len(calls) /\ cursor \in Nat
  BY DEF HInv, HTypeOK
<1>4. ASSUME NEW i \in Chunks
      PROVE  /\ Region(i) \in Regions
             /\ stream[i] = WriteChunk(Region(i))
             /\ \E a \in Region(i) : outcome[a] # None
  <2>1. PICK r \in Regions : stream[i] = WriteChunk(r) /\ \E a \in r : outcome[a] # None
    BY DEF HInv, StreamInv
  <2>2. Region(i) = r
    BY <2>1, RegionOfChunk DEF Region
  <2> QED BY <2>1, <2>2
<1> QED BY <1>1, <1>2, <1>3, <1>4 DEF HInv, StreamInv

(* The hint written for a call is the one the guest reads for it.          *)
LEMMA HintOfCall ==
  ASSUME HInv, hpc = "done", rest = <<>>, NEW k \in 1 .. Len(calls), Writes(k),
         cursor = calls[k].at
  PROVE  /\ Readable
         /\ calls[k].op = "basic" =>
              NextHint = Hint([kind |-> "account", a |-> calls[k].a,
                               account |-> Parent[calls[k].a]], <<>>)
         /\ calls[k].op = "storage" =>
              NextHint = Hint([kind |-> "storage", a |-> calls[k].a],
                              <<Bytes(FullStorage(calls[k].a), <<>>)>>)
         /\ calls[k].op = "code" =>
              NextHint = Hint([kind |-> "bytecode", code |-> calls[k].code], <<>>)
         /\ ReadHint => cursor' = cursor + 1 /\ rest' = NextHint.after
         /\ cursor + 1 = At(k + 1)
<1>1. k \in DOMAIN calls /\ calls[k] \in Call /\ cursor \in Nat
  BY GuestFacts
<1>2. cursor < Recorded /\ IsAccessOf(witness_order[cursor + 1], calls[k]) /\ At(k + 1) = cursor + 1
  BY <1>1 DEF HInv, CallsInv
<1>3. cursor + 1 \in 1 .. state_marker - 1 /\ cursor < Len(stream)
  BY <1>1, <1>2, GuestFacts
<1>4. NextHint = WriteAccess(witness_order[cursor + 1])
  BY <1>3 DEF NextHint, HInv, StreamInv
<1>5. Readable
  BY <1>3 DEF Readable
<1>6. ReadHint => cursor' = cursor + 1 /\ rest' = NextHint.after
  BY DEF ReadHint
<1>7. CASE calls[k].op = "basic"
  <2>1. witness_order[cursor + 1] = Access("account", calls[k].a)
    BY <1>2, <1>7 DEF IsAccessOf
  <2>2. NextHint = Hint([kind |-> "account", a |-> calls[k].a,
                         account |-> Parent[calls[k].a]], <<>>)
    BY <1>4, <2>1 DEF WriteAccess, Access
  <2> QED BY <1>2, <1>5, <1>6, <1>7, <2>2
<1>8. CASE calls[k].op = "storage"
  <2>1. witness_order[cursor + 1] = Access("storage", calls[k].a)
    BY <1>2, <1>8 DEF IsAccessOf
  <2>2. NextHint = Hint([kind |-> "storage", a |-> calls[k].a],
                        <<Bytes(FullStorage(calls[k].a), <<>>)>>)
    BY <1>4, <2>1 DEF WriteAccess, Access
  <2> QED BY <1>2, <1>5, <1>6, <1>8, <2>2
<1>9. CASE calls[k].op = "code"
  <2>1. witness_order[cursor + 1] = Access("bytecode", calls[k].code)
    BY <1>2, <1>9 DEF IsAccessOf
  <2>2. NextHint = Hint([kind |-> "bytecode", code |-> calls[k].code], <<>>)
    BY <1>4, <2>1 DEF WriteAccess, Access
  <2> QED BY <1>2, <1>5, <1>6, <1>9, <2>2
<1> QED BY <1>1, <1>7, <1>8, <1>9 DEF Call

-----------------------------------------------------------------------------
(* The guest alone, on any stream of well-formed hints. *)

Guest == INSTANCE StreamingState
           WITH Headers <- Header, Items <- Item, StorageTries <- StorageTrie,
                StateTries <- StateTrie, Bundles <- Bundle

LEMMA GuestHeader ==
  ASSUME NEW h \in Header, build_streaming_state(h)
  PROVE  Guest!Next
BY DEF Guest!Next, build_streaming_state, Guest!build_streaming_state, exec_vars, Guest!exec_vars

LEMMA GuestItem ==
  ASSUME NEW item \in Item, ReadItem(item)
  PROVE  Guest!Next
<1>1. /\ vars = Guest!vars /\ vars' = (Guest!vars)'
      /\ UNCHANGED exec_vars <=> UNCHANGED Guest!exec_vars
      /\ UNCHANGED update_vars <=> UNCHANGED Guest!update_vars
      /\ Reject <=> Guest!Reject
      /\ Panic <=> Guest!Panic
  BY DEF vars, Guest!vars, exec_vars, Guest!exec_vars, update_vars, Guest!update_vars,
         Reject, Guest!Reject, Panic, Guest!Panic
<1>2. Guest!ReadItem(item)
  BY <1>1
     DEF ReadItem, Guest!ReadItem, read_account, Guest!read_account,
         load_storage_header, Guest!load_storage_header, read_bytecode, Guest!read_bytecode,
         read_chunk_header, Guest!read_chunk_header, read_chunk_witness, Guest!read_chunk_witness
<1> QED BY <1>2 DEF Guest!Next, Item, Guest!Item

LEMMA GuestBytes ==
  ASSUME AnyBytes
  PROVE  Guest!Next
<1>1. Guest!ReadBytes
  BY DEF AnyBytes, Guest!ReadBytes, load_storage_trie, Guest!load_storage_trie,
         load_frontier, Guest!load_frontier, read_chunk, Guest!read_chunk, RootOf, Guest!RootOf,
         storage_root, Guest!storage_root, EMPTY_ROOT_HASH, Guest!EMPTY_ROOT_HASH,
         Reject, Guest!Reject, exec_vars, Guest!exec_vars, update_vars, Guest!update_vars
<1> QED BY <1>1 DEF Guest!Next

LEMMA GuestLookup ==
  ASSUME NEW a \in Addr, basic_ref(a) \/ \E s \in Slot : storage_ref(a, s)
  PROVE  Guest!Next
<1>1. Guest!Compute
  BY DEF basic_ref, Guest!basic_ref, storage_ref, Guest!storage_ref, Panic, Guest!Panic,
         exec_vars, Guest!exec_vars, update_vars, Guest!update_vars, Guest!Compute
<1> QED BY <1>1 DEF Guest!Next

LEMMA GuestUpdate ==
  ASSUME \/ \E b \in Bundle : execute(b)
         \/ take_bundle_accounts
         \/ \E a \in Addr : apply_bundle_account(a)
         \/ replace_frontier_slot
         \/ finish_update
         \/ check_state_root
  PROVE  Guest!Next
<1>1. ASSUME NEW a \in Addr, apply_bundle_account(a)
      PROVE  Guest!apply_bundle_account(a)
  BY <1>1, Zenon
     DEF apply_bundle_account, Guest!apply_bundle_account, NewStorageRoots, Guest!NewStorageRoots,
         UpdatedRoots, Guest!UpdatedRoots, Changed, Guest!Changed, Written, Guest!Written,
         FreshTrie, Guest!FreshTrie, RootOf, Guest!RootOf, storage_root, Guest!storage_root,
         EMPTY_ROOT_HASH, Guest!EMPTY_ROOT_HASH, StorageRoot, Guest!StorageRoot,
         Storage, Guest!Storage, Reject, Guest!Reject, exec_vars, Guest!exec_vars,
         update_vars, Guest!update_vars
<1>2. ASSUME NEW b \in Bundle, execute(b)
      PROVE  Guest!execute(b)
  BY <1>2 DEF execute, Guest!execute, exec_vars, Guest!exec_vars
<1>3. take_bundle_accounts => Guest!take_bundle_accounts
  BY DEF take_bundle_accounts, Guest!take_bundle_accounts, Reject, Guest!Reject,
         exec_vars, Guest!exec_vars, update_vars, Guest!update_vars
<1>4. replace_frontier_slot => Guest!replace_frontier_slot
  BY DEF replace_frontier_slot, Guest!replace_frontier_slot, SubtreeRoot, Guest!SubtreeRoot,
         Below, Guest!Below, Reject, Guest!Reject, exec_vars, Guest!exec_vars,
         update_vars, Guest!update_vars
<1>5. finish_update => Guest!finish_update
  BY DEF finish_update, Guest!finish_update, Reject, Guest!Reject, exec_vars, Guest!exec_vars,
         update_vars, Guest!update_vars
<1>6. check_state_root => Guest!check_state_root
  BY DEF check_state_root, Guest!check_state_root, exec_vars, Guest!exec_vars,
         update_vars, Guest!update_vars
<1>7. Guest!Compute
  BY <1>1, <1>2, <1>3, <1>4, <1>5, <1>6 DEF Guest!Compute
<1> QED BY <1>7 DEF Guest!Next

-----------------------------------------------------------------------------
(* Replaying the calls. *)

(* A step of the execution that stays in it.                               *)
LEMMA ReplayStep ==
  ASSUME HInv, hpc = "done", UNCHANGED host_vars, IndInv', pc' \in Executing,
         replayed' \in 0 .. Len(calls), cursor' \in Nat, CacheInv', ReplayInv'
  PROVE  HInv'
<1>1. UpdateInv' /\ FrontierAlignInv' /\ ChunkAlignInv' /\ VerdictInv'
  BY DEF UpdateInv, FrontierAlignInv, ChunkAlignInv, VerdictInv, Executing, Updating, InChunk
<1> QED BY <1>1, GuestStep

(* The cache holds the answers of calls 1 .. n.                            *)
LEMMA CacheStep ==
  ASSUME HInv, hpc = "done", UNCHANGED host_vars, NEW n, n = Answered',
         \A a \in Addr :
           /\ account_cache'[a] \in {Unknown, Parent[a]}
           /\ storage_tries'[a] \in {Unknown, FullStorage(a)}
           /\ account_cache'[a] # Unknown <=> \E i \in 1 .. n : IsBasic(i, a)
           /\ storage_tries'[a] # Unknown <=> \E i \in 1 .. n : IsStorage(i, a)
  PROVE  CacheInv'
<1>1. calls' = calls
  BY HostKept
<1>2. \A i, a : (IsBasic(i, a)' <=> IsBasic(i, a)) /\ (IsStorage(i, a)' <=> IsStorage(i, a))
  BY <1>1 DEF IsBasic, IsStorage
<1> QED BY <1>2 DEF CacheInv, FullStorage

(* The calls answered so far, while nothing is under way.                  *)
LEMMA ExecFacts ==
  ASSUME HInv, hpc = "done", pc = "exec"
  PROVE  /\ rest = <<>> /\ cursor = At(replayed + 1) /\ Answered = replayed
         /\ header = [version |-> 2, chunk_count |-> Len(stream) - state_marker]
         /\ \A a \in Addr :
              /\ account_cache[a] \in {Unknown, Parent[a]}
              /\ storage_tries[a] \in {Unknown, FullStorage(a)}
              /\ account_cache[a] # Unknown <=> \E i \in 1 .. replayed : IsBasic(i, a)
              /\ storage_tries[a] # Unknown <=> \E i \in 1 .. replayed : IsStorage(i, a)
<1>1. Answered = replayed
  BY DEF Answered, Waiting
<1> QED BY <1>1 DEF HInv, ReplayInv, CacheInv, Executing

(* The call that the guest makes next.                                     *)
LEMMA CallFacts ==
  ASSUME HInv, hpc = "done", pc = "exec", replayed < Len(calls), NEW k, k = replayed + 1
  PROVE  /\ k \in 1 .. Len(calls) /\ k - 1 = replayed /\ calls[k] \in Call
         /\ cursor = calls[k].at
         /\ ~Writes(k) => At(k + 1) = cursor
         /\ calls[k].op \in {"basic", "storage"} => calls[k].a \in Addr
         /\ calls[k].op = "basic" => \A j \in 1 .. replayed : ~IsBasic(j, calls[k].a)
         /\ calls[k].op = "storage" => \E j \in 1 .. replayed : IsBasic(j, calls[k].a)
<1>1. k \in 1 .. Len(calls) /\ k - 1 = replayed /\ calls[k] \in Call /\ k \in DOMAIN calls
  BY GuestFacts
<1>2. cursor = calls[k].at
  BY <1>1, ExecFacts DEF At
<1> QED BY <1>1, <1>2 DEF HInv, CallsInv, Call

LEMMA GuestBasicStep ==
  ASSUME HInv, GuestCall, calls[replayed + 1].op = "basic"
  PROVE  HInv'
<1>1. PICK k : k = replayed + 1
  OBVIOUS
<1>2. PICK a : a = calls[k].a
  OBVIOUS
<1>3. /\ hpc = "done" /\ pc = "exec" /\ replayed < Len(calls) /\ replayed' = k
      /\ UNCHANGED host_vars /\ UNCHANGED <<cursor, rest>>
      /\ IF account_cache[a] = Unknown THEN basic_ref(a) ELSE UNCHANGED vars
  BY <1>1, <1>2 DEF GuestCall
<1>4. /\ k \in 1 .. Len(calls) /\ k - 1 = replayed /\ cursor = calls[k].at /\ calls[k].op = "basic"
      /\ a \in Addr /\ \A j \in 1 .. replayed : ~IsBasic(j, a)
  BY <1>1, <1>2, <1>3, CallFacts
<1>5. account_cache[a] = Unknown
  BY <1>3, <1>4, ExecFacts
<1>6. basic_ref(a) /\ IndInv'
  BY <1>3, <1>4, <1>5, LookupStep DEF HInv
<1>7. /\ pc' = "account" /\ want' = [a |-> a, slot |-> None]
      /\ UNCHANGED <<account_cache, storage_tries, header>>
  BY <1>6 DEF basic_ref, update_vars
<1>8. CacheInv'
  <2>1. Answered' = replayed
    BY <1>3, <1>4, <1>7 DEF Answered, Waiting
  <2> QED BY <1>3, <1>7, <2>1, CacheStep, ExecFacts
<1>9. Writes(k)'
  <2>1. Writes(k)
    BY <1>4 DEF Writes
  <2> QED BY <1>3, <2>1, HostKept DEF Writes, IsStorage
<1>10. ReplayInv'
  <2>1. calls' = calls /\ stream' = stream /\ state_marker' = state_marker
    BY <1>3, HostKept
  <2>2. k > 0
    BY <1>4
  <2> QED BY <1>2, <1>3, <1>4, <1>7, <1>9, <2>1, <2>2, ExecFacts DEF ReplayInv, Waiting
<1> QED BY <1>3, <1>4, <1>6, <1>7, <1>8, <1>10, ReplayStep, GuestFacts DEF Executing

LEMMA GuestStorageStep ==
  ASSUME HInv, GuestCall, calls[replayed + 1].op = "storage"
  PROVE  HInv'
<1>1. PICK k : k = replayed + 1
  OBVIOUS
<1>2. PICK a : a = calls[k].a
  OBVIOUS
<1>3. /\ hpc = "done" /\ pc = "exec" /\ replayed < Len(calls) /\ replayed' = k
      /\ UNCHANGED host_vars /\ UNCHANGED <<cursor, rest>>
      /\ IF storage_tries[a] # Unknown /\ calls[k].slot \in storage_tries[a].open
         THEN UNCHANGED vars ELSE storage_ref(a, calls[k].slot)
  BY <1>1, <1>2 DEF GuestCall
<1>4. /\ k \in 1 .. Len(calls) /\ k - 1 = replayed /\ cursor = calls[k].at
      /\ calls[k].op = "storage" /\ a \in Addr /\ calls[k] \in Call
      /\ (~Writes(k) => At(k + 1) = cursor)
  BY <1>1, <1>2, <1>3, CallFacts
<1>5. calls[k].slot \in Slot
  BY <1>4 DEF Call
<1>6. Writes(k) <=> \A j \in 1 .. replayed : ~IsStorage(j, a)
  BY <1>2, <1>4 DEF Writes
<1>7. calls' = calls /\ stream' = stream /\ state_marker' = state_marker
  BY <1>3, HostKept
<1>8. CASE Writes(k)
  <2>1. storage_tries[a] = Unknown
    BY <1>3, <1>4, <1>6, <1>8, ExecFacts
  <2>2. storage_ref(a, calls[k].slot) /\ IndInv'
    BY <1>3, <1>4, <1>5, <2>1, LookupStep DEF HInv
  <2>3. /\ pc' = "storage_header" /\ want' = [a |-> a, slot |-> calls[k].slot]
        /\ UNCHANGED <<account_cache, storage_tries, header>>
    BY <2>1, <2>2 DEF storage_ref, update_vars
  <2>4. CacheInv'
    <3>1. Answered' = replayed
      BY <1>3, <1>4, <2>3 DEF Answered, Waiting
    <3> QED BY <1>3, <2>3, <3>1, CacheStep, ExecFacts
  <2>5. Writes(k)'
    BY <1>7, <1>8 DEF Writes, IsStorage
  <2>6. ReplayInv'
    <3>1. k > 0
      BY <1>4
    <3> QED BY <1>2, <1>3, <1>4, <1>7, <2>3, <2>5, <3>1, ExecFacts DEF ReplayInv, Waiting
  <2> QED BY <1>3, <1>4, <2>2, <2>3, <2>4, <2>6, ReplayStep, GuestFacts DEF Executing
<1>9. CASE ~Writes(k)
  <2>1. storage_tries[a] = FullStorage(a) /\ storage_tries[a] # Unknown
    BY <1>3, <1>4, <1>6, <1>9, ExecFacts
  <2>2. UNCHANGED vars
    BY <1>3, <1>5, <2>1 DEF FullStorage
  <2>3. IndInv' /\ pc' = "exec" /\ UNCHANGED <<account_cache, storage_tries, header>>
    BY <1>3, <2>2, FailStep DEF HInv, vars
  <2>4. CacheInv'
    <3>1. Answered' = k
      BY <1>3, <2>3 DEF Answered, Waiting
    <3>2. \A i \in 1 .. k : i \in 1 .. replayed \/ i = k
      BY <1>4
    <3>3. \A i \in 1 .. replayed : i \in 1 .. k
      BY <1>4
    <3>4. \A c \in Addr : (\E i \in 1 .. k : IsBasic(i, c)) <=> \E i \in 1 .. replayed : IsBasic(i, c)
      BY <1>4, <3>2, <3>3 DEF IsBasic
    <3>5. \A c \in Addr : (\E i \in 1 .. k : IsStorage(i, c))
                            <=> \E i \in 1 .. replayed : IsStorage(i, c)
      BY <1>2, <1>4, <1>6, <1>9, <3>2, <3>3 DEF IsStorage
    <3> QED BY <1>3, <2>3, <3>1, <3>4, <3>5, CacheStep, ExecFacts
  <2>5. ReplayInv'
    <3>1. k + 1 \in Int
      BY <1>4
    <3>2. At(k + 1)' = cursor
      BY <1>3, <1>4, <1>9, <3>1, HostKept
    <3>3. cursor' = At(replayed + 1)'
      BY <1>3, <3>2 DEF At
    <3> QED BY <1>3, <1>7, <2>3, <3>3, ExecFacts DEF ReplayInv, Waiting
  <2> QED BY <1>3, <1>4, <2>3, <2>4, <2>5, ReplayStep, GuestFacts DEF Executing
<1> QED BY <1>8, <1>9

LEMMA GuestCodeStep ==
  ASSUME HInv, GuestCall, calls[replayed + 1].op = "code"
  PROVE  HInv'
<1>1. PICK k : k = replayed + 1
  OBVIOUS
<1>2. /\ hpc = "done" /\ pc = "exec" /\ replayed < Len(calls) /\ replayed' = k
      /\ UNCHANGED host_vars
      /\ read_bytecode(calls[k].code, NextHint.item) /\ ReadHint
  BY <1>1 DEF GuestCall
<1>3. /\ k \in 1 .. Len(calls) /\ k - 1 = replayed /\ cursor = calls[k].at /\ calls[k].op = "code"
  BY <1>1, <1>2, CallFacts
<1>4. Writes(k)
  BY <1>3 DEF Writes
<1>5. /\ NextHint = Hint([kind |-> "bytecode", code |-> calls[k].code], <<>>)
      /\ cursor' = cursor + 1 /\ rest' = NextHint.after /\ cursor + 1 = At(k + 1)
  BY <1>2, <1>3, <1>4, HintOfCall, ExecFacts
<1>6. rest' = <<>> /\ UNCHANGED vars
  BY <1>2, <1>5 DEF Hint, read_bytecode
<1>7. IndInv' /\ pc' = "exec" /\ UNCHANGED <<account_cache, storage_tries, header>>
  BY <1>2, <1>6, FailStep DEF HInv, vars
<1>8. CacheInv'
  <2>1. Answered' = k
    BY <1>2, <1>7 DEF Answered, Waiting
  <2>2. \A i \in 1 .. k : i \in 1 .. replayed \/ i = k
    BY <1>3
  <2>3. \A i \in 1 .. replayed : i \in 1 .. k
    BY <1>3
  <2>4. \A c \in Addr :
          /\ (\E i \in 1 .. k : IsBasic(i, c)) <=> \E i \in 1 .. replayed : IsBasic(i, c)
          /\ (\E i \in 1 .. k : IsStorage(i, c)) <=> \E i \in 1 .. replayed : IsStorage(i, c)
    BY <1>3, <2>2, <2>3 DEF IsBasic, IsStorage
  <2> QED BY <1>2, <1>7, <2>1, <2>4, CacheStep, ExecFacts
<1>9. ReplayInv'
  <2>1. k + 1 \in Int
    BY <1>3
  <2>2. At(k + 1)' = At(k + 1) /\ stream' = stream /\ state_marker' = state_marker
    BY <1>2, <2>1, HostKept
  <2>3. cursor' = At(replayed + 1)'
    BY <1>2, <1>5, <2>2 DEF At
  <2> QED BY <1>2, <1>6, <1>7, <2>2, <2>3, ExecFacts DEF ReplayInv, Waiting
<1>10. cursor' \in Nat
  BY <1>2, <1>5, GuestFacts
<1> QED BY <1>2, <1>3, <1>7, <1>8, <1>9, <1>10, ReplayStep, GuestFacts DEF Executing

-----------------------------------------------------------------------------
(* Reading what a lookup asked for. *)

(* The values that the host writes are of the types that the guest reads.  *)
LEMMA ParentFacts ==
  ASSUME NEW a \in Addr
  PROVE  /\ Parent[a] \in MaybeAccount /\ Parent[a] # Unknown
         /\ FullStorage(a) \in StorageTrie /\ FullStorage(a) # Unknown
         /\ RootOf(FullStorage(a)) = storage_root(Parent[a])
<1>1. Parent[a] \in MaybeAccount /\ Parent[a] # Unknown
  BY ParentAssumption, MarkerAssumption DEF StateMap
<1>2. storage_root(Parent[a]) \in StorageRoot /\ storage_root(Parent[a]).canonical = TRUE
  BY <1>1, RootTypes, CanonicalParent DEF StorageRoot
<1>3. FullStorage(a) \in StorageTrie
  BY <1>2 DEF FullStorage, StorageRoot, StorageTrie
<1>4. FullStorage(a) # Unknown
  BY <1>3, MarkerAssumption
<1>5. RootOf(FullStorage(a)) = storage_root(Parent[a])
  BY <1>2 DEF RootOf, FullStorage, StorageRoot
<1> QED BY <1>1, <1>3, <1>4, <1>5

(* The call that is being answered.                                        *)
LEMMA WaitingFacts ==
  ASSUME HInv, hpc = "done", pc \in Waiting, NEW k, k = replayed
  PROVE  /\ k \in 1 .. Len(calls) /\ calls[k] \in Call /\ Writes(k) /\ calls[k].a \in Addr
         /\ calls[k].op = IF pc = "account" THEN "basic" ELSE "storage"
         /\ want = [a |-> calls[k].a, slot |-> IF pc = "account" THEN None ELSE calls[k].slot]
         /\ cursor = IF pc = "storage_bytes" THEN calls[k].at + 1 ELSE calls[k].at
         /\ rest = IF pc = "storage_bytes" THEN <<Bytes(FullStorage(calls[k].a), <<>>)>> ELSE <<>>
         /\ header = [version |-> 2, chunk_count |-> Len(stream) - state_marker]
         /\ calls[k].op = "basic" => \A j \in 1 .. k - 1 : ~IsBasic(j, calls[k].a)
         /\ calls[k].op = "storage" => \E j \in 1 .. k - 1 : IsBasic(j, calls[k].a)
         /\ calls[k].op = "storage" => \A j \in 1 .. k - 1 : ~IsStorage(j, calls[k].a)
         /\ \A a \in Addr :
              /\ account_cache[a] \in {Unknown, Parent[a]}
              /\ storage_tries[a] \in {Unknown, FullStorage(a)}
              /\ account_cache[a] # Unknown <=> \E i \in 1 .. k - 1 : IsBasic(i, a)
              /\ storage_tries[a] # Unknown <=> \E i \in 1 .. k - 1 : IsStorage(i, a)
<1>1. /\ replayed > 0 /\ Writes(k)
      /\ calls[k].op = IF pc = "account" THEN "basic" ELSE "storage"
      /\ want = [a |-> calls[k].a, slot |-> IF pc = "account" THEN None ELSE calls[k].slot]
      /\ cursor = IF pc = "storage_bytes" THEN calls[k].at + 1 ELSE calls[k].at
      /\ rest = IF pc = "storage_bytes" THEN <<Bytes(FullStorage(calls[k].a), <<>>)>> ELSE <<>>
      /\ header = [version |-> 2, chunk_count |-> Len(stream) - state_marker]
  BY DEF HInv, ReplayInv, Executing, Waiting
<1>2. k \in 1 .. Len(calls) /\ calls[k] \in Call /\ k \in DOMAIN calls
  BY <1>1, GuestFacts
<1>3. calls[k].a \in Addr
  BY <1>1, <1>2 DEF Call
<1>4. /\ calls[k].op = "basic" => \A j \in 1 .. k - 1 : ~IsBasic(j, calls[k].a)
      /\ calls[k].op = "storage" => \E j \in 1 .. k - 1 : IsBasic(j, calls[k].a)
  BY <1>2 DEF HInv, CallsInv
<1>5. calls[k].op = "storage" => \A j \in 1 .. k - 1 : ~IsStorage(j, calls[k].a)
  BY <1>1 DEF Writes
<1>6. \A a \in Addr :
        /\ account_cache[a] \in {Unknown, Parent[a]}
        /\ storage_tries[a] \in {Unknown, FullStorage(a)}
        /\ account_cache[a] # Unknown <=> \E i \in 1 .. k - 1 : IsBasic(i, a)
        /\ storage_tries[a] # Unknown <=> \E i \in 1 .. k - 1 : IsStorage(i, a)
  <2>1. Answered = k - 1 /\ pc \in Executing
    BY DEF Answered, Waiting, Executing
  <2> QED BY <2>1 DEF HInv, CacheInv
<1> QED BY <1>1, <1>2, <1>3, <1>4, <1>5, <1>6

(* The answer joins the cache, and execution goes on.                      *)
LEMMA AnswerStep ==
  ASSUME HInv, hpc = "done", pc \in Waiting, UNCHANGED <<host_vars, replayed>>,
         IndInv', pc' = "exec", UNCHANGED header, rest' = <<>>, cursor' = At(replayed + 1),
         \A c \in Addr : account_cache'[c] = IF calls[replayed].op = "basic" /\ c = want.a
                                             THEN Parent[c] ELSE account_cache[c],
         \A c \in Addr : storage_tries'[c] = IF calls[replayed].op = "storage" /\ c = want.a
                                             THEN FullStorage(c) ELSE storage_tries[c]
  PROVE  HInv'
<1>1. PICK k : k = replayed
  OBVIOUS
<1>2. /\ k \in 1 .. Len(calls) /\ want.a = calls[k].a /\ calls[k].a \in Addr
      /\ calls[k].op \in {"basic", "storage"}
      /\ header = [version |-> 2, chunk_count |-> Len(stream) - state_marker]
      /\ \A a \in Addr :
           /\ account_cache[a] \in {Unknown, Parent[a]}
           /\ storage_tries[a] \in {Unknown, FullStorage(a)}
           /\ account_cache[a] # Unknown <=> \E i \in 1 .. k - 1 : IsBasic(i, a)
           /\ storage_tries[a] # Unknown <=> \E i \in 1 .. k - 1 : IsStorage(i, a)
  BY <1>1, WaitingFacts
<1>3. k \in Nat /\ k + 1 \in Int /\ Len(calls) \in Nat
  BY <1>2, GuestFacts
<1>4. \A i : i \in 1 .. k <=> i \in 1 .. k - 1 \/ i = k
  BY <1>2, <1>3
<1>5. \A c \in Addr :
        /\ (\E i \in 1 .. k : IsBasic(i, c))
             <=> (\E i \in 1 .. k - 1 : IsBasic(i, c)) \/ (calls[k].op = "basic" /\ c = want.a)
        /\ (\E i \in 1 .. k : IsStorage(i, c))
             <=> (\E i \in 1 .. k - 1 : IsStorage(i, c)) \/ (calls[k].op = "storage" /\ c = want.a)
  BY <1>2, <1>4 DEF IsBasic, IsStorage
<1>6. CacheInv'
  <2>1. Answered' = k
    BY <1>1 DEF Answered, Waiting
  <2>2. ASSUME NEW c \in Addr
        PROVE  /\ account_cache'[c] \in {Unknown, Parent[c]}
               /\ storage_tries'[c] \in {Unknown, FullStorage(c)}
               /\ account_cache'[c] # Unknown <=> \E i \in 1 .. k : IsBasic(i, c)
               /\ storage_tries'[c] # Unknown <=> \E i \in 1 .. k : IsStorage(i, c)
    BY <1>1, <1>2, <1>5, ParentFacts
  <2> QED BY <2>1, <2>2, CacheStep DEF host_vars
<1>7. ReplayInv'
  <2>1. At(k + 1)' = At(k + 1) /\ stream' = stream /\ state_marker' = state_marker
    BY <1>3, HostKept
  <2>2. cursor' = At(replayed + 1)'
    BY <1>1, <2>1 DEF At
  <2> QED BY <1>2, <2>1, <2>2 DEF ReplayInv, Waiting
<1>8. cursor' \in Nat
  <2>1. cursor' = IF k + 1 <= Len(calls) THEN calls[k + 1].at ELSE Recorded
    BY <1>1 DEF At
  <2>2. k + 1 <= Len(calls) => k + 1 \in 1 .. Len(calls)
    BY <1>3
  <2>3. k + 1 <= Len(calls) => calls[k + 1].at \in Nat
    BY <2>2, GuestFacts DEF Call
  <2> QED BY <2>1, <2>3, GuestFacts
<1> QED BY <1>6, <1>7, <1>8, ReplayStep, GuestFacts DEF Executing

LEMMA GuestAccountStep ==
  ASSUME HInv, hpc = "done", ReadHint, UNCHANGED <<host_vars, replayed>>,
         read_account(NextHint.item)
  PROVE  HInv' /\ Guest!Next
<1>1. PICK k : k = replayed
  OBVIOUS
<1>2. PICK a : a = calls[k].a
  OBVIOUS
<1>3. pc = "account"
  BY DEF read_account
<1>4. /\ k \in 1 .. Len(calls) /\ a \in Addr /\ calls[k].op = "basic" /\ Writes(k)
      /\ want = [a |-> a, slot |-> None] /\ cursor = calls[k].at /\ rest = <<>>
      /\ account_cache[a] = Unknown
  BY <1>1, <1>2, <1>3, WaitingFacts DEF Waiting
<1>5. PICK item : item = [kind |-> "account", a |-> a, account |-> Parent[a]]
  OBVIOUS
<1>6. /\ NextHint = Hint(item, <<>>) /\ cursor' = cursor + 1 /\ rest' = NextHint.after
      /\ cursor + 1 = At(k + 1)
  BY <1>2, <1>4, <1>5, HintOfCall
<1>7. rest' = <<>> /\ read_account(item)
  BY <1>6 DEF Hint
<1>8. item \in Item /\ item.kind = "account" /\ item.a = a /\ item.account = Parent[a]
  BY <1>4, <1>5, ParentFacts DEF Item, AccountItem
<1>9. /\ account_cache' = [account_cache EXCEPT ![a] = Parent[a]]
      /\ pc' = "exec" /\ UNCHANGED <<storage_tries, header>>
  BY <1>4, <1>7, <1>8 DEF read_account, update_vars
<1>10. IndInv' /\ Guest!Next
  BY <1>7, <1>8, ReadItemStep, GuestItem DEF HInv, ReadItem
<1>11. account_cache \in [Addr -> MaybeAccount \cup {Unknown}]
  BY DEF HInv, IndInv, TypeOK
<1>12. \A c \in Addr : account_cache'[c] = IF calls[k].op = "basic" /\ c = want.a
                                           THEN Parent[c] ELSE account_cache[c]
  BY <1>4, <1>9, <1>11
<1>13. \A c \in Addr : storage_tries'[c] = IF calls[k].op = "storage" /\ c = want.a
                                           THEN FullStorage(c) ELSE storage_tries[c]
  BY <1>4, <1>9
<1> QED BY <1>1, <1>3, <1>6, <1>7, <1>9, <1>10, <1>12, <1>13, AnswerStep DEF Waiting

LEMMA GuestStorageHeaderStep ==
  ASSUME HInv, hpc = "done", ReadHint, UNCHANGED <<host_vars, replayed>>,
         load_storage_header(NextHint.item)
  PROVE  HInv' /\ Guest!Next
<1>1. PICK k : k = replayed
  OBVIOUS
<1>2. PICK a : a = calls[k].a
  OBVIOUS
<1>3. pc = "storage_header"
  BY DEF load_storage_header
<1>4. /\ k \in 1 .. Len(calls) /\ a \in Addr /\ calls[k].op = "storage" /\ Writes(k)
      /\ want = [a |-> a, slot |-> calls[k].slot] /\ cursor = calls[k].at /\ rest = <<>>
      /\ account_cache[a] # Unknown
      /\ header = [version |-> 2, chunk_count |-> Len(stream) - state_marker]
  BY <1>1, <1>2, <1>3, WaitingFacts DEF Waiting
<1>5. PICK item : item = [kind |-> "storage", a |-> a]
  OBVIOUS
<1>6. /\ NextHint = Hint(item, <<Bytes(FullStorage(a), <<>>)>>)
      /\ cursor' = cursor + 1 /\ rest' = NextHint.after
  BY <1>2, <1>4, <1>5, HintOfCall
<1>7. rest' = <<Bytes(FullStorage(a), <<>>)>> /\ load_storage_header(item)
  BY <1>6 DEF Hint
<1>8. item \in Item /\ item.kind = "storage" /\ item.a = a
  BY <1>4, <1>5 DEF Item, StorageItem
<1>9. pc' = "storage_bytes" /\ UNCHANGED <<want, account_cache, storage_tries, header>>
  BY <1>4, <1>7, <1>8 DEF load_storage_header, exec_vars, update_vars
<1>10. IndInv' /\ Guest!Next
  BY <1>7, <1>8, ReadItemStep, GuestItem DEF HInv, ReadItem
<1>11. CacheInv'
  <2>1. Answered' = k - 1
    BY <1>1, <1>9 DEF Answered, Waiting
  <2> QED BY <1>1, <1>3, <1>9, <2>1, CacheStep, WaitingFacts DEF Waiting
<1>12. ReplayInv'
  <2>1. calls' = calls /\ stream' = stream /\ state_marker' = state_marker
    BY HostKept
  <2>2. Writes(k)' /\ FullStorage(a)' = FullStorage(a)
    BY <1>4, <2>1 DEF Writes, IsStorage, FullStorage
  <2>3. replayed' > 0
    BY <1>1, <1>4
  <2> QED BY <1>1, <1>2, <1>4, <1>6, <1>7, <1>9, <2>1, <2>2, <2>3 DEF ReplayInv, Waiting
<1>13. cursor' \in Nat
  BY <1>6, GuestFacts
<1> QED BY <1>9, <1>10, <1>11, <1>12, <1>13, ReplayStep, GuestFacts DEF Executing

LEMMA GuestStorageTrieStep ==
  ASSUME HInv, hpc = "done", ReadHint, UNCHANGED <<host_vars, replayed>>,
         load_storage_trie(NextHint.trie)
  PROVE  HInv' /\ Guest!Next
<1>1. PICK k : k = replayed
  OBVIOUS
<1>2. PICK a : a = calls[k].a
  OBVIOUS
<1>3. pc = "storage_bytes"
  BY DEF load_storage_trie
<1>4. /\ k \in 1 .. Len(calls) /\ calls[k] \in Call /\ a \in Addr
      /\ calls[k].op = "storage" /\ Writes(k)
      /\ want = [a |-> a, slot |-> calls[k].slot] /\ cursor = calls[k].at + 1
      /\ rest = <<Bytes(FullStorage(a), <<>>)>> /\ account_cache[a] = Parent[a]
  BY <1>1, <1>2, <1>3, WaitingFacts DEF Waiting
<1>5. NextHint = Bytes(FullStorage(a), <<>>)
  BY <1>4, SingletonFacts DEF NextHint
<1>6. rest' = <<>> /\ cursor' = cursor
  <2>1. rest # <<>> /\ Tail(rest) = <<>>
    BY <1>4, SingletonFacts
  <2>2. NextHint.after = <<>>
    BY <1>5 DEF Bytes
  <2>3. <<>> \o <<>> = <<>>
    BY EmptySeq, ConcatEmptySeq
  <2> QED BY <2>1, <2>2, <2>3 DEF ReadHint
<1>7. load_storage_trie(FullStorage(a))
  BY <1>5 DEF Bytes
<1>8. FullStorage(a) \in StorageTrie /\ RootOf(FullStorage(a)) = storage_root(account_cache[a])
  BY <1>4, ParentFacts
<1>9. calls[k].slot \in FullStorage(a).open
  BY <1>4 DEF Call, FullStorage
<1>10. /\ storage_tries' = [storage_tries EXCEPT ![a] = FullStorage(a)]
       /\ pc' = "exec" /\ UNCHANGED <<account_cache, header>>
  BY <1>4, <1>7, <1>8, <1>9 DEF load_storage_trie, update_vars
<1>11. IndInv' /\ Guest!Next
  BY <1>7, <1>8, AnyBytesStep, GuestBytes DEF HInv, AnyBytes
<1>12. storage_tries \in [Addr -> StorageTrie \cup {Unknown}]
  BY DEF HInv, IndInv, TypeOK
<1>13. \A c \in Addr : account_cache'[c] = IF calls[k].op = "basic" /\ c = want.a
                                           THEN Parent[c] ELSE account_cache[c]
  BY <1>4, <1>10
<1>14. \A c \in Addr : storage_tries'[c] = IF calls[k].op = "storage" /\ c = want.a
                                           THEN FullStorage(c) ELSE storage_tries[c]
  BY <1>4, <1>10, <1>12
<1>15. cursor = At(k + 1)
  <2>1. k \in DOMAIN calls
    BY <1>4, GuestFacts
  <2> QED BY <1>4, <2>1 DEF HInv, CallsInv
<1> QED BY <1>1, <1>3, <1>6, <1>10, <1>11, <1>13, <1>14, <1>15, AnswerStep DEF Waiting

-----------------------------------------------------------------------------
(* The end of the execution and the frontier. *)

LEMMA GuestExecuteStep ==
  ASSUME HInv, hpc = "done", UNCHANGED <<host_vars, reader_vars>>,
         replayed = Len(calls), execute(outcome)
  PROVE  HInv'
<1>1. PICK k : k = replayed
  OBVIOUS
<1>2. /\ pc = "exec" /\ pc' = "frontier" /\ bundle' = outcome
      /\ UNCHANGED <<account_cache, storage_tries, header>>
      /\ UNCHANGED <<replayed, cursor, rest>>
  BY DEF execute, exec_vars, reader_vars
<1>3. outcome \in Bundle
  BY DEF HInv, HTypeOK
<1>4. IndInv'
  BY <1>3, ExecuteStep DEF HInv
<1>5. CacheInv'
  <2>1. Answered' = k
    BY <1>1, <1>2 DEF Answered, Waiting
  <2> QED BY <1>1, <1>2, <2>1, CacheStep, ExecFacts
<1>6. cursor = state_marker - 1
  <2>1. k \in Nat /\ ~(k + 1 <= Len(calls))
    BY <1>1, GuestFacts
  <2>2. At(k + 1) = Recorded
    BY <2>1 DEF At
  <2> QED BY <1>1, <1>2, <2>2, ExecFacts, GuestFacts
<1>7. ReplayInv'
  <2>1. calls' = calls /\ stream' = stream /\ state_marker' = state_marker /\ outcome' = outcome
    BY HostKept
  <2> QED BY <1>2, <1>6, <2>1, ExecFacts DEF ReplayInv, Waiting
<1> QED BY <1>2, <1>4, <1>5, <1>7, ReplayStep, GuestFacts DEF Executing

(* A step of the update that does not end it.                              *)
LEMMA UpdatingStep ==
  ASSUME HInv, hpc = "done", UNCHANGED <<host_vars, replayed>>, IndInv', pc' \in Updating,
         \A a \in Addr : account_cache'[a] \in {account_cache[a], Unknown},
         \A a \in Addr : storage_tries'[a] \in {storage_tries[a], Unknown},
         UpdateInv', FrontierAlignInv', ChunkAlignInv'
  PROVE  HInv'
<1>1. pc' \notin Executing /\ pc' \notin {"rejected", "panic"}
  BY DEF Executing, Updating, InChunk
<1>2. ReplayInv' /\ VerdictInv'
  BY <1>1 DEF ReplayInv, VerdictInv
<1>3. CacheInv'
  BY <1>1 DEF HInv, CacheInv, FullStorage
<1>4. cursor' \in Nat
  <2>1. cursor' \in state_marker' .. Len(stream') /\ state_marker' = state_marker
        /\ stream' = stream
    BY HostKept DEF UpdateInv
  <2> QED BY <2>1, GuestFacts
<1> QED BY <1>2, <1>3, <1>4, GuestStep, GuestFacts DEF host_vars

(* UpdateInv and FrontierAlignInv after a step, in terms of what the host  *)
(* wrote, which no step of the guest changes.                              *)
LEMMA MakeUpdateInv ==
  ASSUME HInv, hpc = "done", UNCHANGED <<host_vars, replayed>>,
         NEW t, t = Taken', NEW v, v = Validated',
         replayed = Len(calls), bundle' = outcome,
         cursor' \in state_marker .. Len(stream),
         header' = [version |-> 2, chunk_count |-> Len(stream) - cursor'],
         pc' \notin {"chunk_bytes", "chunk_witness"} => rest' = <<>>,
         pc' \in {"root", "accepted"} => cursor' = Len(stream),
         todo' = {a \in Addr : outcome[a] # None /\ \E i \in t + 1 .. Len(stream) : a \in Region(i)},
         \A a \in todo' \cup run' : NeedsTrie(outcome[a]) => storage_tries'[a] # Unknown,
         \A i \in state_marker + 1 .. v : \A a \in Region(i) : account_cache'[a] = Unknown
  PROVE  UpdateInv'
<1>1. /\ calls' = calls /\ stream' = stream /\ outcome' = outcome /\ state_marker' = state_marker
      /\ \A i : Region(i)' = Region(i)
  BY HostKept
<1>2. todo' = {a \in Addr : outcome'[a] # None
                            /\ \E i \in Taken' + 1 .. Len(stream') : a \in Region(i)'}
  BY <1>1
<1>3. \A a \in todo' \cup run' : NeedsTrie(outcome'[a]) => storage_tries'[a] # Unknown
  BY <1>1
<1>4. \A i \in state_marker' + 1 .. Validated' : \A a \in Region(i)' : account_cache'[a] = Unknown
  BY <1>1
<1>5. /\ replayed' = Len(calls') /\ bundle' = outcome'
      /\ cursor' \in state_marker' .. Len(stream')
      /\ header' = [version |-> 2, chunk_count |-> Len(stream') - cursor']
      /\ pc' \in {"root", "accepted"} => cursor' = Len(stream')
  BY <1>1
<1> QED BY <1>2, <1>3, <1>4, <1>5 DEF UpdateInv, NeedsTrie, Changed

LEMMA MakeFrontierAlignInv ==
  ASSUME HInv, hpc = "done", UNCHANGED host_vars,
         NEW p, p = Placed',
         state_trie'.bad \subseteq Deleted,
         \A a \in Addr : storage_root(state_trie'.map[a]).canonical,
         \A i \in p + 1 .. Len(stream) : \A a \in Region(i) :
           state_trie'.map[a] = Parent[a] /\ a \notin state_trie'.bad,
         \A a \in Addr : (\A i \in Chunks : a \notin Region(i)) => a \in state_trie'.open
  PROVE  FrontierAlignInv'
<1>1. stream' = stream /\ Chunks' = Chunks /\ Deleted' = Deleted /\ \A i : Region(i)' = Region(i)
  BY HostKept
<1>2. \A i \in Placed' + 1 .. Len(stream') : \A a \in Region(i)' :
           state_trie'.map[a] = Parent[a] /\ a \notin state_trie'.bad
  BY <1>1
<1>3. \A a \in Addr : (\A i \in Chunks' : a \notin Region(i)') => a \in state_trie'.open
  BY <1>1
<1>4. state_trie'.bad \subseteq Deleted'
  BY <1>1
<1> QED BY <1>2, <1>3, <1>4 DEF FrontierAlignInv, storage_root, EMPTY_ROOT_HASH

(* A slot is changed without having been read only in a destroyed account. *)
LEMMA TriesAreLoaded ==
  ASSUME HInv, hpc = "done", pc = "frontier", NEW a \in Addr, outcome[a] # None,
         NeedsTrie(outcome[a])
  PROVE  storage_tries[a] # Unknown
<1>1. ~outcome[a].destroyed /\ Changed(outcome[a]) # {}
  BY DEF NeedsTrie
<1>2. \A s \in Changed(outcome[a]) : AskedSlot(a, s)
  BY <1>1 DEF HInv, OutcomeInv
<1>3. PICK i \in DOMAIN calls : IsStorage(i, a)
  BY <1>1, <1>2 DEF AskedSlot, IsStorage
<1>4. replayed = Len(calls) /\ Answered = replayed /\ pc \in Executing
  BY DEF HInv, ReplayInv, Executing, Answered, Waiting
<1>5. i \in 1 .. Answered
  BY <1>4, GuestFacts
<1> QED BY <1>3, <1>4, <1>5 DEF HInv, CacheInv

LEMMA GuestFrontierStep ==
  ASSUME HInv, hpc = "done", ReadHint, UNCHANGED <<host_vars, replayed>>,
         load_frontier(NextHint.trie)
  PROVE  HInv' /\ Guest!Next
<1>1. PICK m \in Nat : m = state_marker /\ m > 0 /\ m <= Len(stream)
  BY GuestFacts
<1>2. pc = "frontier"
  BY DEF load_frontier
<1>3. /\ rest = <<>> /\ cursor = m - 1 /\ replayed = Len(calls) /\ bundle = outcome
      /\ header = [version |-> 2, chunk_count |-> Len(stream) - m]
  BY <1>1, <1>2 DEF HInv, ReplayInv, Executing
<1>4. cursor + 1 = m
  BY <1>1, <1>3
<1>5. PICK trie : trie = [map |-> Parent, open |-> {a \in Addr : \A i \in Chunks : a \notin Region(i)},
                          bad |-> {}]
  OBVIOUS
<1>6. NextHint = Bytes(trie, <<>>)
  <2>1. stream[m] = Bytes(trie, <<>>)
    BY <1>1, <1>5 DEF HInv, StreamInv
  <2> QED BY <1>3, <1>4, <2>1 DEF NextHint
<1>7. cursor' = m /\ rest' = <<>> /\ load_frontier(trie)
  BY <1>3, <1>4, <1>6 DEF ReadHint, Bytes
<1>8. trie \in StateTrie /\ trie.map = Parent /\ trie.bad = {}
  BY <1>5, ParentAssumption DEF StateTrie
<1>9. /\ state_trie' = trie /\ pc' = "chunk_header"
      /\ UNCHANGED <<account_cache, storage_tries, header, bundle, todo, run>>
  BY <1>3, <1>7, <1>8 DEF load_frontier, exec_vars
<1>10. IndInv' /\ Guest!Next
  BY <1>7, <1>8, AnyBytesStep, GuestBytes DEF HInv, AnyBytes
<1>11. Taken' = m /\ Validated' = m /\ Placed' = m
  BY <1>7, <1>9 DEF Taken, Validated, Placed
<1>12. todo = {a \in Addr : outcome[a] # None} /\ run = {}
  BY <1>2, <1>3 DEF HInv, IndInv, FrontierInv, TypeOK, Executing
<1>13. UpdateInv'
  <2>1. \A a \in Addr : outcome[a] # None => \E i \in m + 1 .. Len(stream) : a \in Region(i)
    BY <1>1 DEF HInv, StreamInv, Chunks
  <2>2. todo' = {a \in Addr : outcome[a] # None /\ \E i \in m + 1 .. Len(stream) : a \in Region(i)}
    BY <1>9, <1>12, <2>1
  <2>3. \A a \in todo' \cup run' : NeedsTrie(outcome[a]) => storage_tries'[a] # Unknown
    BY <1>2, <1>9, <1>12, TriesAreLoaded
  <2>4. m + 1 .. m = {} /\ m \in m .. Len(stream)
    BY <1>1, GuestFacts
  <2> QED BY <1>1, <1>3, <1>7, <1>9, <1>11, <2>2, <2>3, <2>4, MakeUpdateInv
<1>14. FrontierAlignInv'
  <2>1. \A i \in m + 1 .. Len(stream) : \A a \in Region(i) :
           state_trie'.map[a] = Parent[a] /\ a \notin state_trie'.bad
    BY <1>8, <1>9
  <2>2. \A a \in Addr : (\A i \in Chunks : a \notin Region(i)) => a \in state_trie'.open
    BY <1>5, <1>9
  <2> QED BY <1>8, <1>9, <1>11, <2>1, <2>2, CanonicalParent, MakeFrontierAlignInv
<1>15. ChunkAlignInv'
  BY <1>9 DEF ChunkAlignInv, InChunk
<1> QED BY <1>9, <1>10, <1>13, <1>14, <1>15, UpdatingStep DEF Updating

-----------------------------------------------------------------------------
(* Chunks. *)

(* The chunk whose header was read last.                                   *)
LEMMA ChunkFacts ==
  ASSUME HInv, hpc = "done", NEW c \in Chunks
  PROVE  /\ Region(c) \subseteq Addr /\ Region(c) \in Regions
         /\ IsFiniteSet(PostAccesses(Region(c)))
         /\ Cardinality(PostAccesses(Region(c))) \in Nat
         /\ Below(Parent, Region(c)) \in StateMap
         /\ Whole(Region(c)) \in StateTrie
<1>1. Region(c) \in Regions /\ Region(c) \subseteq Addr
  BY GuestFacts, AddrAssumption
<1>2. IsFiniteSet(PostAccesses(Region(c)))
  <2>1. IsFiniteSet(state_marker + 1 .. Len(witness_order))
    BY MarkerFacts, FS_Interval
  <2>2. PostAccesses(Region(c)) \in SUBSET (state_marker + 1 .. Len(witness_order))
    BY DEF PostAccesses
  <2> QED BY <2>1, <2>2, FS_Subset
<1>3. Cardinality(PostAccesses(Region(c))) \in Nat
  BY <1>2, FS_CardinalityType
<1>4. Below(Parent, Region(c)) \in StateMap
  BY ParentAssumption DEF Below, StateMap, MaybeAccount
<1>5. Whole(Region(c)) \in StateTrie
  BY <1>1, <1>4 DEF Whole, StateTrie
<1> QED BY <1>1, <1>2, <1>3, <1>4, <1>5

(* What holds between two chunks and within one.                           *)
LEMMA UpdateFacts ==
  ASSUME HInv, hpc = "done", pc \in Updating, NEW m, m = state_marker, NEW n, n = Len(stream)
  PROVE  /\ m \in Nat /\ n \in Nat /\ m > 0 /\ cursor \in m .. n /\ Chunks = m + 1 .. n
         /\ replayed = Len(calls) /\ bundle = outcome
         /\ header = [version |-> 2, chunk_count |-> n - cursor]
         /\ pc \notin {"chunk_bytes", "chunk_witness"} => rest = <<>>
         /\ todo = {a \in Addr : outcome[a] # None /\ \E i \in Taken + 1 .. n : a \in Region(i)}
         /\ \A a \in todo \cup run : NeedsTrie(outcome[a]) => storage_tries[a] # Unknown
         /\ \A i \in m + 1 .. Validated : \A a \in Region(i) : account_cache[a] = Unknown
         /\ state_trie.bad \subseteq Deleted
         /\ \A a \in Addr : storage_root(state_trie.map[a]).canonical
         /\ \A i \in Placed + 1 .. n : \A a \in Region(i) :
           state_trie.map[a] = Parent[a] /\ a \notin state_trie.bad
         /\ \A a \in Addr : (\A i \in m + 1 .. n : a \notin Region(i)) => a \in state_trie.open
<1>1. UpdateInv /\ FrontierAlignInv
  BY DEF HInv
<1>2. m \in Nat /\ n \in Nat /\ m > 0 /\ Chunks = m + 1 .. n
  BY GuestFacts DEF Chunks
<1> QED BY <1>1, <1>2 DEF UpdateInv, FrontierAlignInv

LEMMA InChunkFacts ==
  ASSUME HInv, hpc = "done", pc \in {"chunk_bytes"} \cup InChunk, NEW r, r = chunk.region
  PROVE  /\ cursor \in Chunks /\ r = Region(cursor) /\ r \subseteq Addr
         /\ chunk.expected = [map |-> Below(Parent, r), bad |-> {}]
         /\ chunk.count = Cardinality(PostAccesses(r))
         /\ pc = "chunk_bytes" => rest = <<Bytes(Whole(r), Witnesses(r))>>
         /\ pc = "chunk_witness" => rest = Witnesses(r)
         /\ pc \in InChunk => /\ chunk.open = r /\ chunk.bad \subseteq r \cap Deleted
                              /\ \A a \in r : storage_root(chunk.map[a]).canonical
<1>1. ChunkAlignInv /\ UpdateInv /\ pc \in Updating
  BY DEF HInv, Updating
<1>2. cursor \in Chunks
  <2>1. cursor > state_marker
    BY <1>1 DEF ChunkAlignInv
  <2>2. cursor \in state_marker .. Len(stream) /\ Chunks = state_marker + 1 .. Len(stream)
    BY <1>1 DEF UpdateInv, Chunks
  <2> QED BY <2>1, <2>2, GuestFacts
<1> QED BY <1>1, <1>2, ChunkFacts DEF ChunkAlignInv

(* ChunkAlignInv after a step within chunk r.                              *)
LEMMA MakeChunkAlignInv ==
  ASSUME HInv, hpc = "done", UNCHANGED host_vars, cursor' \in Chunks,
         NEW r, r = chunk'.region, r = Region(cursor'),
         chunk'.expected = [map |-> Below(Parent, r), bad |-> {}],
         chunk'.count = Cardinality(PostAccesses(r)),
         pc' = "chunk_bytes" => rest' = <<Bytes(Whole(r), Witnesses(r))>>,
         pc' = "chunk_witness" => rest' = Witnesses(r),
         pc' \in InChunk => chunk'.open = r,
         pc' \in InChunk => chunk'.bad \subseteq r \cap Deleted,
         pc' \in InChunk => \A a \in r : storage_root(chunk'.map[a]).canonical
  PROVE  ChunkAlignInv'
<1>1. state_marker' = state_marker /\ Region(cursor)' = r /\ Deleted' = Deleted
  BY HostKept DEF Region
<1>2. cursor' > state_marker
  BY GuestFacts DEF Chunks
<1>3. PostAccesses(r)' = PostAccesses(r) /\ Witnesses(r)' = Witnesses(r)
  BY RecordKept DEF host_vars, record_vars
<1>4. PostAccesses(chunk.region)' = PostAccesses(r) /\ Witnesses(chunk.region)' = Witnesses(r)
  BY <1>3 DEF PostAccesses, Witnesses
<1> QED BY <1>1, <1>2, <1>4 DEF ChunkAlignInv, Whole, Below, storage_root, EMPTY_ROOT_HASH

LEMMA GuestChunkHeaderStep ==
  ASSUME HInv, hpc = "done", ReadHint, UNCHANGED <<host_vars, replayed>>,
         read_chunk_header(NextHint.item)
  PROVE  HInv' /\ Guest!Next
<1>1. PICK m, n, c : m = state_marker /\ n = Len(stream) /\ c = cursor + 1
  OBVIOUS
<1>2. pc = "chunk_header" /\ header.chunk_count > 0 /\ pc \in Updating
  BY DEF read_chunk_header, Updating
<1>3. /\ m \in Nat /\ n \in Nat /\ m > 0 /\ cursor \in m .. n /\ Chunks = m + 1 .. n
      /\ replayed = Len(calls) /\ bundle = outcome /\ rest = <<>>
      /\ header = [version |-> 2, chunk_count |-> n - cursor]
  BY <1>1, <1>2, UpdateFacts
<1>4. c \in Chunks /\ c - 1 = cursor /\ c \in m .. n
  BY <1>1, <1>2, <1>3
<1>5. PICK r : r = Region(c)
  OBVIOUS
<1>6. PICK item : item = [kind |-> "chunk", region |-> r, count |-> Cardinality(PostAccesses(r)),
                          expected |-> [map |-> Below(Parent, r), bad |-> {}]]
  OBVIOUS
<1>7. NextHint = Hint(item, <<Bytes(Whole(r), Witnesses(r))>>)
  <2>1. stream[c] = WriteChunk(r)
    BY <1>4, <1>5, GuestFacts
  <2> QED BY <1>1, <1>3, <1>6, <2>1 DEF NextHint, WriteChunk, Whole
<1>8. /\ cursor' = c /\ rest' = <<Bytes(Whole(r), Witnesses(r))>> /\ read_chunk_header(item)
  BY <1>1, <1>3, <1>7 DEF ReadHint, Hint
<1>9. /\ item.kind = "chunk" /\ item.region = r /\ item.count = Cardinality(PostAccesses(r))
      /\ item.expected = [map |-> Below(Parent, r), bad |-> {}]
  BY <1>6
<1>10. item \in Item
  <2>1. /\ r \in Regions /\ Cardinality(PostAccesses(r)) \in Nat /\ Below(Parent, r) \in StateMap
    BY <1>4, <1>5, ChunkFacts
  <2> QED BY <1>6, <2>1 DEF Item, ChunkItem, StateRoot
<1>11. /\ pc' = "chunk_bytes"
       /\ chunk'.region = r /\ chunk'.expected = item.expected /\ chunk'.count = item.count
       /\ header' = [header EXCEPT !.chunk_count = @ - 1]
       /\ UNCHANGED <<account_cache, storage_tries, state_trie, bundle, todo, run>>
  BY <1>8, <1>9 DEF read_chunk_header, exec_vars
<1>12. header' = [version |-> 2, chunk_count |-> n - c]
  <2>1. (n - cursor) - 1 = n - c
    BY <1>1, <1>3
  <2> QED BY <1>3, <1>11, <2>1
<1>13. IndInv' /\ Guest!Next
  BY <1>8, <1>10, ReadItemStep, GuestItem DEF HInv, ReadItem
<1>14. Taken = cursor /\ Validated = cursor /\ Placed = cursor
  BY <1>2 DEF Taken, Validated, Placed
<1>15. Taken' = cursor /\ Validated' = cursor /\ Placed' = cursor
  BY <1>4, <1>8, <1>11 DEF Taken, Validated, Placed
<1>16. UpdateInv'
  <2>1. /\ todo = {a \in Addr : outcome[a] # None /\ \E i \in cursor + 1 .. n : a \in Region(i)}
        /\ \A a \in todo \cup run : NeedsTrie(outcome[a]) => storage_tries[a] # Unknown
        /\ \A i \in m + 1 .. cursor : \A a \in Region(i) : account_cache[a] = Unknown
    BY <1>1, <1>2, <1>14, UpdateFacts
  <2> QED BY <1>1, <1>3, <1>4, <1>8, <1>11, <1>12, <1>15, <2>1, MakeUpdateInv
<1>17. FrontierAlignInv'
  BY <1>1, <1>2, <1>3, <1>11, <1>14, <1>15, UpdateFacts, MakeFrontierAlignInv
<1>18. ChunkAlignInv'
  BY <1>4, <1>5, <1>8, <1>9, <1>11, MakeChunkAlignInv DEF InChunk
<1> QED BY <1>11, <1>13, <1>16, <1>17, <1>18, UpdatingStep DEF Updating

(* The witnesses of a chunk are all that is left of it.                    *)
LEMMA WitnessesAreASequence ==
  ASSUME HInv, hpc = "done", NEW c \in Chunks, NEW r, r = Region(c)
  PROVE  Witnesses(r) \o <<>> = Witnesses(r)
<1>1. PICK n \in Nat : n = Cardinality(PostAccesses(r))
  BY ChunkFacts
<1>2. PICK f : f = Witnesses(r)
  OBVIOUS
<1> DEFINE R == {f[i] : i \in 1 .. n}
<1>3. f \in [1 .. n -> R]
  BY <1>1, <1>2 DEF Witnesses
<1> HIDE DEF R
<1>4. f \in Seq(R)
  BY <1>3, SeqDef
<1> QED BY <1>2, <1>4, ConcatEmptySeq

LEMMA GuestChunkStep ==
  ASSUME HInv, hpc = "done", ReadHint, UNCHANGED <<host_vars, replayed>>,
         read_chunk(NextHint.trie)
  PROVE  HInv' /\ Guest!Next
<1>1. PICK m, n, r : m = state_marker /\ n = Len(stream) /\ r = chunk.region
  OBVIOUS
<1>2. pc = "chunk_bytes" /\ pc \in Updating
  BY DEF read_chunk, Updating
<1>3. /\ m \in Nat /\ n \in Nat /\ cursor \in m .. n /\ Chunks = m + 1 .. n
      /\ replayed = Len(calls) /\ bundle = outcome
      /\ header = [version |-> 2, chunk_count |-> n - cursor]
  BY <1>1, <1>2, UpdateFacts
<1>4. /\ cursor \in Chunks /\ r = Region(cursor) /\ r \subseteq Addr
      /\ chunk.expected = [map |-> Below(Parent, r), bad |-> {}]
      /\ chunk.count = Cardinality(PostAccesses(r))
      /\ rest = <<Bytes(Whole(r), Witnesses(r))>>
  BY <1>1, <1>2, InChunkFacts
<1>5. NextHint = Bytes(Whole(r), Witnesses(r)) /\ rest # <<>> /\ Tail(rest) = <<>>
  BY <1>4, SingletonFacts DEF NextHint
<1>6. rest' = Witnesses(r) /\ cursor' = cursor /\ read_chunk(Whole(r))
  <2>1. Witnesses(r) \o <<>> = Witnesses(r)
    BY <1>4, WitnessesAreASequence
  <2> QED BY <1>5, <2>1 DEF ReadHint, Bytes
<1>7. /\ Whole(r) \in StateTrie
      /\ [map |-> Whole(r).map, bad |-> Whole(r).bad] = chunk.expected
      /\ Whole(r).open = r /\ Whole(r).bad = {}
      /\ \A a \in r : Whole(r).map[a] = Parent[a]
  BY <1>4, ChunkFacts DEF Whole, Below
<1>8. \A a \in Addr : account_cache[a] \in {Unknown, Parent[a]}
  BY DEF HInv, CacheInv
<1>9. /\ pc' = "chunk_witness"
      /\ account_cache' = [a \in Addr |-> IF a \in r THEN Unknown ELSE account_cache[a]]
      /\ chunk' = [chunk EXCEPT !.map = Whole(r).map, !.open = Whole(r).open, !.bad = Whole(r).bad]
      /\ UNCHANGED <<storage_tries, header, state_trie, bundle, todo, run>>
  BY <1>1, <1>4, <1>6, <1>7, <1>8 DEF read_chunk
<1>10. /\ chunk'.region = r /\ chunk'.expected = chunk.expected /\ chunk'.count = chunk.count
       /\ chunk'.map = Whole(r).map /\ chunk'.open = r /\ chunk'.bad = {}
  BY <1>1, <1>7, <1>9 DEF HInv, IndInv, TypeOK, Chunk
<1>11. IndInv' /\ Guest!Next
  BY <1>6, <1>7, AnyBytesStep, GuestBytes DEF HInv, AnyBytes
<1>12. /\ Taken = cursor - 1 /\ Validated = cursor - 1 /\ Placed = cursor - 1
       /\ Taken' = cursor - 1 /\ Validated' = cursor /\ Placed' = cursor - 1
  BY <1>2, <1>6, <1>9 DEF Taken, Validated, Placed
<1>13. UpdateInv'
  <2>1. /\ todo = {a \in Addr : outcome[a] # None /\ \E i \in (cursor - 1) + 1 .. n : a \in Region(i)}
        /\ \A a \in todo \cup run : NeedsTrie(outcome[a]) => storage_tries[a] # Unknown
        /\ \A i \in m + 1 .. cursor - 1 : \A a \in Region(i) : account_cache[a] = Unknown
    BY <1>1, <1>2, <1>12, UpdateFacts
  <2>2. \A i \in m + 1 .. cursor : i \in Chunks /\ (i \in m + 1 .. cursor - 1 \/ i = cursor)
    BY <1>3
  <2>3. \A i \in m + 1 .. cursor : Region(i) \subseteq Addr
    BY <2>2, ChunkFacts
  <2>4. \A i \in m + 1 .. cursor : \A a \in Region(i) : account_cache'[a] = Unknown
    BY <1>4, <1>9, <2>1, <2>2, <2>3
  <2> QED BY <1>1, <1>3, <1>6, <1>9, <1>12, <2>1, <2>4, MakeUpdateInv
<1>14. FrontierAlignInv'
  BY <1>1, <1>2, <1>3, <1>9, <1>12, UpdateFacts, MakeFrontierAlignInv
<1>15. ChunkAlignInv'
  <2>1. \A a \in r : storage_root(chunk'.map[a]).canonical
    BY <1>4, <1>7, <1>10, CanonicalParent
  <2> QED BY <1>4, <1>6, <1>9, <1>10, <2>1, MakeChunkAlignInv DEF InChunk
<1>16. \A a \in Addr : account_cache'[a] \in {account_cache[a], Unknown}
  BY <1>9
<1> QED BY <1>9, <1>11, <1>13, <1>14, <1>15, <1>16, UpdatingStep DEF Updating, InChunk


(* A set of positions that is not empty has a first one.                   *)
LEMMA FirstPosition ==
  ASSUME NEW D \in SUBSET Nat, D # {}
  PROVE  Nth(D, 1) \in D
<1> DEFINE Less == {ss \in Nat \X Nat : ss[1] < ss[2]}
<1>1. IsWellFoundedOn(Less, Nat)
  BY NatLessThanWellFounded DEF OpToRel
<1>2. \A x, y \in Nat : y < x => <<y, x>> \in Less
  OBVIOUS
<1> HIDE DEF Less
<1>3. PICK x \in D : \A y \in D : ~(<<y, x>> \in Less)
  BY <1>1, WFMin
<1>4. {j \in D : j < x} = {}
  BY <1>2, <1>3
<1>5. Cardinality({j \in D : j < x}) = 1 - 1
  BY <1>4, FS_EmptySet
<1> QED BY <1>5 DEF Nth

(* The first witness of a chunk is a storage trie: the recorder adds no    *)
(* account after the marker.                                               *)
LEMMA FirstWitness ==
  ASSUME HInv, hpc = "done", NEW c \in Chunks, NEW r, r = Region(c),
         Cardinality(PostAccesses(r)) > 0
  PROVE  /\ PostStorageWitness
         /\ Witnesses(r) # <<>>
         /\ \E a \in r : Head(Witnesses(r)).item = [kind |-> "storage", a |-> a]
<1>1. PICK n \in Nat : n = Cardinality(PostAccesses(r)) /\ n > 0
  BY ChunkFacts
<1>2. PICK m \in Nat : m = state_marker /\ m \in 1 .. Len(witness_order)
  BY MarkerFacts
<1>3. PICK D : D = PostAccesses(r)
  OBVIOUS
<1>4. D \in SUBSET Nat
  BY <1>2, <1>3, MarkerFacts DEF PostAccesses
<1>5. D # {}
  BY <1>1, <1>3, FS_EmptySet
<1>6. PICK i : i = Nth(D, 1) /\ i \in D
  BY <1>4, <1>5, FirstPosition
<1>7. PICK x : x = witness_order[i]
  OBVIOUS
<1>8. /\ i \in m + 1 .. Len(witness_order) /\ x.access \in {"account", "storage"} /\ x.of \in r
  BY <1>2, <1>3, <1>6, <1>7 DEF PostAccesses
<1>9. x.access = "storage"
  <2>1. x.access \in {"modified", "storage"}
    BY <1>2, <1>7, <1>8 DEF HInv, OutcomeInv
  <2> QED BY <1>8, <2>1
<1>10. PostStorageWitness
  <2>1. m < i /\ i \in DOMAIN witness_order /\ m \in DOMAIN witness_order
    BY <1>2, <1>8, MarkerFacts, LenProperties
  <2>2. witness_order[m] = Marker
    BY <1>2, MarkerFacts DEF IsMarker
  <2> QED BY <1>7, <1>9, <2>1, <2>2 DEF PostStorageWitness
<1>11. PICK f : f = Witnesses(r)
  OBVIOUS
<1>12. 1 \in 1 .. n
  BY <1>1
<1>13. f = [k \in 1 .. n |-> WriteAccess(witness_order[Nth(D, k)])]
  BY <1>1, <1>3, <1>11 DEF Witnesses
<1>14. f[1] = WriteAccess(x) /\ f # <<>>
  BY <1>6, <1>7, <1>12, <1>13
<1>15. Head(f) = f[1]
  <2> DEFINE R == {f[k] : k \in 1 .. n}
  <2>1. f \in [1 .. n -> R]
    BY <1>13
  <2> HIDE DEF R
  <2>2. f \in Seq(R)
    BY <2>1, SeqDef
  <2> QED BY <1>14, <2>2, HeadTailProperties
<1>16. WriteAccess(x).item = [kind |-> "storage", a |-> x.of]
  BY <1>9 DEF WriteAccess, Hint
<1> QED BY <1>8, <1>10, <1>11, <1>14, <1>15, <1>16

(* It makes the guest panic.                                               *)
LEMMA GuestWitnessStep ==
  ASSUME HInv, hpc = "done", ReadHint, UNCHANGED <<host_vars, replayed>>,
         read_chunk_witness(NextHint.item)
  PROVE  HInv' /\ Guest!Next
<1>1. PICK r : r = chunk.region
  OBVIOUS
<1>2. pc = "chunk_witness" /\ chunk.count > 0
  BY DEF read_chunk_witness
<1>3. /\ cursor \in Chunks /\ r = Region(cursor) /\ chunk.count = Cardinality(PostAccesses(r))
      /\ rest = Witnesses(r) /\ chunk.open = r /\ r \subseteq Addr
  BY <1>1, <1>2, InChunkFacts DEF InChunk
<1>4. /\ PostStorageWitness /\ rest # <<>>
      /\ \E a \in r : NextHint.item = [kind |-> "storage", a |-> a]
  BY <1>2, <1>3, FirstWitness DEF NextHint
<1>5. PICK a \in r : NextHint.item = [kind |-> "storage", a |-> a]
  BY <1>4
<1>6. Panic
  <2>1. read_chunk_witness([kind |-> "storage", a |-> a])
    BY <1>5
  <2> QED BY <1>1, <1>3, <2>1 DEF read_chunk_witness
<1>7. IndInv'
  BY <1>6, FailStep DEF HInv
<1>8. pc' = "panic" /\ UNCHANGED <<account_cache, storage_tries>>
  BY <1>6 DEF Panic, exec_vars
<1>9. VerdictInv'
  BY <1>4, <1>8, HostKept DEF VerdictInv
<1>10. CacheInv'
  BY <1>8 DEF HInv, CacheInv, Executing, FullStorage
<1>11. ReplayInv' /\ UpdateInv' /\ FrontierAlignInv' /\ ChunkAlignInv'
  BY <1>8 DEF ReplayInv, UpdateInv, FrontierAlignInv, ChunkAlignInv, Executing, Updating, InChunk
<1>12. cursor' \in Nat
  BY <1>4, GuestFacts DEF ReadHint
<1>13. Guest!Next
  <2>1. NextHint.item \in Item
    BY <1>3, <1>5 DEF Item, StorageItem
  <2> QED BY <2>1, GuestItem DEF ReadItem
<1> QED BY <1>7, <1>9, <1>10, <1>11, <1>12, <1>13, GuestStep, GuestFacts

(* An account lies in one chunk only.                                      *)
LEMMA RegionsAreDisjoint ==
  ASSUME HInv, hpc = "done", NEW i \in Chunks, NEW j \in Chunks, i < j, NEW a \in Region(i)
  PROVE  a \notin Region(j)
<1>1. a \in Nat
  BY ChunkFacts, AddrAssumption
<1>2. \A x \in Region(i), y \in Region(j) : x < y
  BY DEF HInv, StreamInv
<1>3. ~(a < a)
  BY <1>1
<1> QED BY <1>2, <1>3

LEMMA GuestTakeStep ==
  ASSUME HInv, hpc = "done", UNCHANGED <<host_vars, reader_vars>>, take_bundle_accounts
  PROVE  HInv'
<1>1. PICK m, n, r : m = state_marker /\ n = Len(stream) /\ r = chunk.region
  OBVIOUS
<1>2. pc = "chunk_witness" /\ chunk.count = 0 /\ pc \in Updating
  BY DEF take_bundle_accounts, Updating, InChunk
<1>3. /\ m \in Nat /\ n \in Nat /\ cursor \in m .. n /\ Chunks = m + 1 .. n
      /\ replayed = Len(calls) /\ bundle = outcome
      /\ header = [version |-> 2, chunk_count |-> n - cursor]
  BY <1>1, <1>2, UpdateFacts
<1>4. /\ cursor \in Chunks /\ r = Region(cursor) /\ r \subseteq Addr
      /\ chunk.expected = [map |-> Below(Parent, r), bad |-> {}]
      /\ chunk.count = Cardinality(PostAccesses(r))
      /\ rest = Witnesses(r) /\ chunk.open = r /\ chunk.bad \subseteq r \cap Deleted
      /\ \A a \in r : storage_root(chunk.map[a]).canonical
  BY <1>1, <1>2, InChunkFacts DEF InChunk
<1>5. rest = <<>>
  <2>1. 1 .. Cardinality(PostAccesses(r)) = {}
    BY <1>2, <1>4
  <2> QED BY <1>4, <2>1 DEF Witnesses
<1>6. UNCHANGED <<replayed, cursor, rest>>
  BY DEF reader_vars
<1>7. /\ Taken = cursor - 1 /\ Validated = cursor /\ Placed = cursor - 1 /\ (cursor - 1) + 1 = cursor
  BY <1>2, <1>3 DEF Taken, Validated, Placed
<1>8. /\ todo = {a \in Addr : outcome[a] # None /\ \E i \in cursor .. n : a \in Region(i)}
      /\ \A a \in todo \cup run : NeedsTrie(outcome[a]) => storage_tries[a] # Unknown
      /\ \A i \in m + 1 .. cursor : \A a \in Region(i) : account_cache[a] = Unknown
  BY <1>1, <1>2, <1>7, UpdateFacts
<1>9. \A i \in cursor .. n : i \in Chunks /\ (i = cursor \/ cursor < i)
  BY <1>3, <1>4
<1>10. \A i \in cursor + 1 .. n : i \in cursor .. n /\ cursor < i
  BY <1>3
<1>11. cursor \in cursor .. n
  BY <1>3
<1>12. \A i \in cursor .. n : cursor < i => i \in cursor + 1 .. n
  BY <1>3
<1>13. ASSUME NEW a \in todo \cap r, NEW b \in todo, b < a
       PROVE  b \in r
  <2>1. PICK i \in cursor .. n : b \in Region(i)
    BY <1>8
  <2>2. CASE cursor < i
    <3>1. a < b
      BY <1>4, <1>9, <2>1, <2>2 DEF HInv, StreamInv
    <3>2. a \in Nat /\ b \in Nat
      BY <1>8, AddrAssumption
    <3> QED BY <1>13, <3>1, <3>2
  <2> QED BY <1>4, <1>9, <2>1, <2>2
<1>14. todo \cap r # {}
  <2>1. \E a \in r : outcome[a] # None
    BY <1>4, GuestFacts
  <2> QED BY <1>4, <1>8, <1>11, <2>1
<1>15. {a \in todo \cap r : \A b \in todo : b < a => b \in r} = todo \cap r
  BY <1>13
<1>16. /\ pc' = "apply" /\ run' = todo \cap r /\ todo' = todo \ (todo \cap r)
       /\ UNCHANGED <<account_cache, storage_tries, header, state_trie, chunk, bundle>>
  BY <1>1, <1>14, <1>15 DEF take_bundle_accounts, exec_vars
<1>17. IndInv'
  BY <1>16, take_bundle_accountsStep DEF HInv, Reject
<1>18. Taken' = cursor /\ Validated' = cursor /\ Placed' = cursor - 1
  BY <1>6, <1>16 DEF Taken, Validated, Placed
<1>19. todo' = {a \in Addr : outcome[a] # None /\ \E i \in cursor + 1 .. n : a \in Region(i)}
  <2>1. ASSUME NEW a \in todo, a \notin r
        PROVE  \E i \in cursor + 1 .. n : a \in Region(i)
    BY <1>4, <1>8, <1>9, <1>12, <2>1
  <2>2. ASSUME NEW a \in Addr, NEW i \in cursor + 1 .. n, a \in Region(i)
        PROVE  a \notin r
    BY <1>4, <1>9, <1>10, <2>2, RegionsAreDisjoint
  <2> QED BY <1>8, <1>10, <1>16, <2>1, <2>2
<1>20. UpdateInv'
  <2>1. \A a \in todo' \cup run' : NeedsTrie(outcome[a]) => storage_tries'[a] # Unknown
    BY <1>8, <1>16
  <2> QED BY <1>1, <1>3, <1>5, <1>6, <1>8, <1>16, <1>18, <1>19, <2>1, MakeUpdateInv
<1>21. FrontierAlignInv'
  <2>1. Placed' = Placed
    BY <1>7, <1>18
  <2>2. /\ state_trie.bad \subseteq Deleted
        /\ \A a \in Addr : storage_root(state_trie.map[a]).canonical
        /\ \A i \in Placed + 1 .. n : \A a \in Region(i) :
           state_trie.map[a] = Parent[a] /\ a \notin state_trie.bad
        /\ \A a \in Addr : (\A i \in Chunks : a \notin Region(i)) => a \in state_trie.open
    BY <1>1, <1>2, <1>3, UpdateFacts
  <2> QED BY <1>1, <1>16, <2>1, <2>2, MakeFrontierAlignInv
<1>22. ChunkAlignInv'
  BY <1>1, <1>4, <1>6, <1>16, MakeChunkAlignInv DEF InChunk
<1> QED BY <1>6, <1>16, <1>17, <1>20, <1>21, <1>22, UpdatingStep DEF Updating, InChunk

-----------------------------------------------------------------------------
(* The bundle accounts of a chunk. *)

(* Writing slots into a trie that reveals them all keeps its shape.        *)
LEMMA UpdatedRootsCanonical ==
  ASSUME NEW b \in BundleAccount, NEW trie \in StorageTrie, trie.open = Slot, trie.canonical
  PROVE  /\ UpdatedRoots(b, trie) # {}
         /\ \A root \in UpdatedRoots(b, trie) : root.canonical
<1>1. Written(b, trie.map) \in Storage
  BY WrittenType DEF StorageTrie
<1>2. [map |-> Written(b, trie.map), canonical |-> TRUE] \in UpdatedRoots(b, trie)
  BY <1>1 DEF UpdatedRoots, StorageRoot, StorageTrie
<1>3. \A root \in UpdatedRoots(b, trie) : root.canonical
  BY DEF UpdatedRoots
<1> QED BY <1>2, <1>3

(* The accounts of the bundle are applied to what the parent state holds.  *)
LEMMA ChunkMatches ==
  ASSUME HInv, hpc = "done", pc \in InChunk
  PROVE  Matches /\ \A a \in run : chunk.map[a] = Parent[a]
<1>1. PICK r, n : r = chunk.region /\ n = Len(stream)
  OBVIOUS
<1>2. pc \in Updating /\ Placed = IF pc = "apply" \/ pc = "chunk_witness" THEN cursor - 1 ELSE cursor
  BY DEF Updating, InChunk, Placed
<1>3. /\ cursor \in Chunks /\ r = Region(cursor) /\ r \subseteq Addr
      /\ chunk.expected = [map |-> Below(Parent, r), bad |-> {}]
  BY <1>1, InChunkFacts
<1>4. cursor \in Placed + 1 .. n
  BY <1>1, <1>2, <1>3, GuestFacts DEF InChunk, Chunks
<1>5. \A a \in r : state_trie.map[a] = Parent[a] /\ a \notin state_trie.bad
  BY <1>1, <1>2, <1>3, <1>4, UpdateFacts
<1>6. Below(state_trie.map, r) = Below(Parent, r)
  BY <1>5 DEF Below
<1>7. Matches
  BY <1>1, <1>3, <1>5, <1>6 DEF Matches, SubtreeRoot
<1>8. ASSUME NEW a \in run
      PROVE  chunk.map[a] = Parent[a]
  <2>1. pc = "apply" /\ a \in r
    BY <1>1, <1>2 DEF HInv, IndInv, ChunkInv, InChunk
  <2>2. chunk.map[a] = state_trie.map[a]
    BY <1>1, <1>7, <2>1 DEF HInv, IndInv, ChunkInv, InChunk
  <2> QED BY <1>5, <2>1, <2>2
<1> QED BY <1>7, <1>8

(* No error stops the update, and the storage roots it gives are canonical. *)
LEMMA RootsOfChunk ==
  ASSUME HInv, hpc = "done", pc = "apply", NEW a \in run, NEW b, b = outcome[a], b.info # None
  PROVE  /\ b \in BundleAccount
         /\ NewStorageRoots(a, b, chunk.map[a]) # {}
         /\ \A root \in NewStorageRoots(a, b, chunk.map[a]) : root.canonical
<1>1. pc \in InChunk /\ pc \in Updating
  BY DEF InChunk, Updating
<1>2. bundle = outcome
  BY <1>1, UpdateFacts
<1>3. a \in Addr /\ b \in BundleAccount
  BY <1>2 DEF HInv, IndInv, TypeOK, Bundle
<1>4. chunk.map[a] = Parent[a]
  BY <1>1, ChunkMatches
<1>5. storage_tries[a] \in {Unknown, FullStorage(a)} /\ FullStorage(a) \in StorageTrie
      /\ FullStorage(a) # Unknown /\ RootOf(FullStorage(a)) = storage_root(Parent[a])
  BY <1>3, ParentFacts DEF HInv, CacheInv
<1>6. FreshTrie \in StorageTrie /\ FreshTrie.open = Slot /\ FreshTrie.canonical
  BY RootTypes DEF FreshTrie
<1>7. FullStorage(a).open = Slot /\ FullStorage(a).canonical
  BY DEF FullStorage
<1>8. CASE b.destroyed
  BY <1>3, <1>6, <1>8, UpdatedRootsCanonical DEF NewStorageRoots
<1>9. CASE ~b.destroyed /\ Changed(b) = {}
  BY <1>3, <1>4, <1>5, <1>9, CanonicalParent DEF NewStorageRoots
<1>10. CASE ~b.destroyed /\ Changed(b) # {}
  <2>1. storage_tries[a] # Unknown
    BY <1>1, <1>10, UpdateFacts DEF NeedsTrie
  <2>2. storage_tries[a] = FullStorage(a)
    BY <1>5, <2>1
  <2>3. Changed(b) \subseteq FullStorage(a).open
    BY <1>7 DEF Changed
  <2>4. NewStorageRoots(a, b, chunk.map[a]) = UpdatedRoots(b, FullStorage(a))
    BY <1>10, <2>1, <2>2, <2>3 DEF NewStorageRoots
  <2> QED BY <1>3, <1>5, <1>7, <2>4, UpdatedRootsCanonical
<1> QED BY <1>3, <1>8, <1>9, <1>10

(* An account is written into its chunk.                                   *)
LEMMA ApplyFacts ==
  ASSUME HInv, hpc = "done", NEW a \in Addr, apply_bundle_account(a)
  PROVE  /\ a \in run /\ run' = run \ {a}
         /\ UNCHANGED <<pc, account_cache, header, state_trie, bundle, todo>>
         /\ \A c \in Addr \ {a} : storage_tries'[c] = storage_tries[c]
         /\ storage_tries'[a] \in {storage_tries[a], Unknown}
         /\ \E new, bad :
              /\ storage_root(new).canonical /\ bad \subseteq chunk.region \cap Deleted
              /\ chunk' = [chunk EXCEPT !.map = [chunk.map EXCEPT ![a] = new], !.bad = bad]
<1>1. pc = "apply" /\ a \in run /\ pc \in InChunk /\ pc \in Updating
  BY DEF apply_bundle_account, InChunk, Updating
<1>2. a \in chunk.open /\ a \in chunk.region /\ chunk.bad \subseteq chunk.region \cap Deleted
  <2>1. a \in chunk.region
    BY <1>1 DEF HInv, IndInv, ChunkInv
  <2> QED BY <1>1, <2>1, InChunkFacts
<1>3. bundle[a] = outcome[a]
  BY <1>1, UpdateFacts
<1>4. storage_tries \in [Addr -> StorageTrie \cup {Unknown}]
      /\ chunk \in Chunk
  BY DEF HInv, IndInv, TypeOK
<1>5. CASE outcome[a].info = None
  <2>1. PICK bad \in {chunk.bad} \cup (IF chunk.map[a] = None THEN {} ELSE {chunk.bad \cup {a}}) :
          /\ chunk' = [chunk EXCEPT !.map = [chunk.map EXCEPT ![a] = None], !.bad = bad]
          /\ run' = run \ {a} /\ storage_tries' = [storage_tries EXCEPT ![a] = Unknown]
          /\ UNCHANGED <<pc, account_cache, header, state_trie, bundle, todo>>
    BY <1>2, <1>3, <1>5 DEF apply_bundle_account
  <2>2. bad \subseteq chunk.region \cap Deleted
    <3>1. chunk.map[a] = Parent[a] /\ outcome[a] # None
      BY <1>1, <1>3, ChunkMatches DEF HInv, IndInv, TypeOK
    <3>2. Parent[a] # None => a \in Deleted
      BY <1>5, <3>1 DEF Deleted
    <3> QED BY <1>2, <2>1, <3>1, <3>2
  <2>3. storage_root(None).canonical
    BY DEF storage_root, EMPTY_ROOT_HASH
  <2> QED BY <1>1, <1>4, <2>1, <2>2, <2>3
<1>6. CASE outcome[a].info # None
  <2>1. PICK S : S = NewStorageRoots(a, outcome[a], chunk.map[a])
    OBVIOUS
  <2>2. S # {} /\ outcome[a] \in BundleAccount /\ \A root \in S : root.canonical
    BY <1>1, <1>6, <2>1, RootsOfChunk
  <2>3. /\ \E root \in S :
             chunk' = [chunk EXCEPT !.map = [chunk.map EXCEPT ![a] =
                                      [info |-> outcome[a].info, storage_root |-> root]],
                                    !.bad = chunk.bad]
        /\ run' = run \ {a}
        /\ storage_tries' \in {storage_tries, [storage_tries EXCEPT ![a] = Unknown]}
        /\ UNCHANGED <<pc, account_cache, header, state_trie, bundle, todo>>
    BY <1>2, <1>3, <1>6, <2>1, <2>2 DEF apply_bundle_account
  <2>4. PICK root \in S :
          chunk' = [chunk EXCEPT !.map = [chunk.map EXCEPT ![a] =
                                   [info |-> outcome[a].info, storage_root |-> root]],
                                 !.bad = chunk.bad]
    BY <2>3
  <2>5. PICK new : new = [info |-> outcome[a].info, storage_root |-> root]
    OBVIOUS
  <2>6. storage_root(new).canonical
    <3>1. CASE new = None
      BY <3>1 DEF storage_root, EMPTY_ROOT_HASH
    <3>2. CASE new # None
      BY <2>2, <2>4, <2>5, <3>2 DEF storage_root
    <3> QED BY <3>1, <3>2
  <2> QED BY <1>1, <1>2, <1>4, <2>3, <2>4, <2>5, <2>6
<1> QED BY <1>5, <1>6

LEMMA GuestApplyStep ==
  ASSUME HInv, hpc = "done", UNCHANGED <<host_vars, reader_vars>>,
         NEW a \in Addr, apply_bundle_account(a)
  PROVE  HInv'
<1>1. PICK m, n, r : m = state_marker /\ n = Len(stream) /\ r = chunk.region
  OBVIOUS
<1>2. pc = "apply" /\ pc \in Updating
  BY DEF apply_bundle_account, Updating, InChunk
<1>3. /\ m \in Nat /\ n \in Nat /\ cursor \in m .. n /\ Chunks = m + 1 .. n
      /\ replayed = Len(calls) /\ bundle = outcome /\ rest = <<>>
      /\ header = [version |-> 2, chunk_count |-> n - cursor]
      /\ todo = {x \in Addr : outcome[x] # None /\ \E i \in Taken + 1 .. n : x \in Region(i)}
      /\ \A x \in todo \cup run : NeedsTrie(outcome[x]) => storage_tries[x] # Unknown
      /\ \A i \in m + 1 .. Validated : \A x \in Region(i) : account_cache[x] = Unknown
  BY <1>1, <1>2, UpdateFacts
<1>4. /\ cursor \in Chunks /\ r = Region(cursor) /\ r \subseteq Addr
      /\ chunk.expected = [map |-> Below(Parent, r), bad |-> {}]
      /\ chunk.count = Cardinality(PostAccesses(r)) /\ chunk.open = r
      /\ \A x \in r : storage_root(chunk.map[x]).canonical
  BY <1>1, <1>2, InChunkFacts DEF InChunk
<1>5. UNCHANGED <<replayed, cursor, rest>>
  BY DEF reader_vars
<1>6. /\ a \in run /\ run' = run \ {a}
      /\ UNCHANGED <<pc, account_cache, header, state_trie, bundle, todo>>
      /\ \A c \in Addr \ {a} : storage_tries'[c] = storage_tries[c]
      /\ storage_tries'[a] \in {storage_tries[a], Unknown}
  BY ApplyFacts
<1>7. PICK new, bad :
        /\ storage_root(new).canonical /\ bad \subseteq chunk.region \cap Deleted
        /\ chunk' = [chunk EXCEPT !.map = [chunk.map EXCEPT ![a] = new], !.bad = bad]
  BY ApplyFacts
<1>8. chunk \in Chunk /\ run \subseteq Addr /\ todo \subseteq Addr /\ a \notin todo
  BY <1>2, <1>6 DEF HInv, IndInv, TypeOK, ChunkInv
<1>9. /\ chunk'.region = r /\ chunk'.expected = chunk.expected /\ chunk'.count = chunk.count
      /\ chunk'.open = chunk.open /\ chunk'.map = [chunk.map EXCEPT ![a] = new]
      /\ chunk'.bad \subseteq r \cap Deleted
  BY <1>1, <1>7, <1>8 DEF Chunk
<1>10. \A x \in r : storage_root(chunk'.map[x]).canonical
  BY <1>4, <1>7, <1>8, <1>9 DEF Chunk, StateMap
<1>11. IndInv'
  BY <1>2, <1>6, apply_bundle_accountStep DEF HInv, Reject
<1>12. Taken' = Taken /\ Validated' = Validated /\ Placed' = Placed
  BY <1>5, <1>6 DEF Taken, Validated, Placed
<1>13. UpdateInv'
  <2>1. \A x \in todo' \cup run' : NeedsTrie(outcome[x]) => storage_tries'[x] # Unknown
    BY <1>3, <1>6, <1>8
  <2> QED BY <1>1, <1>2, <1>3, <1>5, <1>6, <1>12, <2>1, MakeUpdateInv
<1>14. FrontierAlignInv'
  <2>1. /\ state_trie.bad \subseteq Deleted
        /\ \A x \in Addr : storage_root(state_trie.map[x]).canonical
        /\ \A i \in Placed + 1 .. n : \A x \in Region(i) :
           state_trie.map[x] = Parent[x] /\ x \notin state_trie.bad
        /\ \A x \in Addr : (\A i \in Chunks : x \notin Region(i)) => x \in state_trie.open
    BY <1>1, <1>2, <1>3, UpdateFacts
  <2> QED BY <1>1, <1>6, <1>12, <2>1, MakeFrontierAlignInv
<1>15. ChunkAlignInv'
  BY <1>2, <1>4, <1>5, <1>6, <1>9, <1>10, MakeChunkAlignInv
<1> QED BY <1>2, <1>5, <1>6, <1>11, <1>13, <1>14, <1>15, UpdatingStep


(* The chunk goes back into the slot of the frontier it came from.         *)
LEMMA GuestReplaceStep ==
  ASSUME HInv, hpc = "done", UNCHANGED <<host_vars, reader_vars>>, replace_frontier_slot,
         SubtreeRoot(state_trie, chunk.region) = chunk.expected => pc' = "chunk_header"
  PROVE  HInv'
<1>1. PICK m, n, r : m = state_marker /\ n = Len(stream) /\ r = chunk.region
  OBVIOUS
<1>2. pc = "apply" /\ run = {} /\ pc \in Updating /\ pc \in InChunk
  BY DEF replace_frontier_slot, Updating, InChunk
<1>3. pc' = "chunk_header"
  BY <1>2, ChunkMatches DEF Matches
<1>4. /\ state_trie' =
           [map |-> [a \in Addr |-> IF a \in r THEN chunk.map[a] ELSE state_trie.map[a]],
            open |-> IF chunk.bad = {} /\ \A a \in r : chunk.map[a] = None
                     THEN state_trie.open \cup r ELSE state_trie.open \ r,
            bad |-> (state_trie.bad \ r) \cup chunk.bad]
      /\ UNCHANGED <<account_cache, storage_tries, header, chunk, bundle, todo, run>>
  BY <1>1, <1>3 DEF replace_frontier_slot, Reject, exec_vars
<1>5. /\ m \in Nat /\ n \in Nat /\ cursor \in m .. n /\ Chunks = m + 1 .. n
      /\ replayed = Len(calls) /\ bundle = outcome /\ rest = <<>>
      /\ header = [version |-> 2, chunk_count |-> n - cursor]
      /\ todo = {x \in Addr : outcome[x] # None /\ \E i \in Taken + 1 .. n : x \in Region(i)}
      /\ \A x \in todo \cup run : NeedsTrie(outcome[x]) => storage_tries[x] # Unknown
      /\ \A i \in m + 1 .. Validated : \A x \in Region(i) : account_cache[x] = Unknown
      /\ state_trie.bad \subseteq Deleted
      /\ \A x \in Addr : storage_root(state_trie.map[x]).canonical
      /\ \A i \in Placed + 1 .. n : \A x \in Region(i) :
           state_trie.map[x] = Parent[x] /\ x \notin state_trie.bad
      /\ \A x \in Addr : (\A i \in m + 1 .. n : x \notin Region(i)) => x \in state_trie.open
  BY <1>1, <1>2, UpdateFacts
<1>6. /\ cursor \in Chunks /\ r = Region(cursor) /\ r \subseteq Addr
      /\ chunk.bad \subseteq r \cap Deleted
      /\ \A x \in r : storage_root(chunk.map[x]).canonical
  BY <1>1, <1>2, InChunkFacts
<1>7. UNCHANGED <<replayed, cursor, rest>>
  BY DEF reader_vars
<1>8. /\ Taken = cursor /\ Validated = cursor /\ Placed = cursor - 1
      /\ Taken' = cursor /\ Validated' = cursor /\ Placed' = cursor
  BY <1>2, <1>3, <1>7 DEF Taken, Validated, Placed
<1>9. IndInv'
  BY <1>3, replace_frontier_slotStep DEF HInv, Reject
<1>10. UpdateInv'
  BY <1>1, <1>3, <1>4, <1>5, <1>7, <1>8, MakeUpdateInv
<1>11. FrontierAlignInv'
  <2>1. state_trie'.bad \subseteq Deleted /\ \A x \in Addr : storage_root(state_trie'.map[x]).canonical
    BY <1>4, <1>5, <1>6
  <2>2. \A i \in cursor + 1 .. n : i \in Chunks /\ i \in (cursor - 1) + 1 .. n /\ cursor < i
    BY <1>5
  <2>3. ASSUME NEW i \in cursor + 1 .. n, NEW x \in Region(i)
        PROVE  state_trie'.map[x] = Parent[x] /\ x \notin state_trie'.bad
    <3>1. x \notin r
      BY <1>6, <2>2, RegionsAreDisjoint
    <3>2. x \in Addr
      BY <2>2, ChunkFacts
    <3>3. state_trie.map[x] = Parent[x] /\ x \notin state_trie.bad
      BY <1>5, <1>8, <2>2
    <3> QED BY <1>4, <1>6, <3>1, <3>2, <3>3
  <2>4. ASSUME NEW x \in Addr, \A i \in Chunks : x \notin Region(i)
        PROVE  x \in state_trie'.open
    <3>1. x \notin r /\ x \in state_trie.open
      BY <1>5, <1>6, <2>4
    <3> QED BY <1>4, <3>1
  <2> QED BY <1>1, <1>8, <2>1, <2>3, <2>4, MakeFrontierAlignInv
<1>12. ChunkAlignInv'
  BY <1>3 DEF ChunkAlignInv, InChunk
<1> QED BY <1>3, <1>4, <1>7, <1>9, <1>10, <1>11, <1>12, UpdatingStep DEF Updating

(* After the last chunk nothing is left of the bundle, and what is left of *)
(* the cache lies outside every chunk.                                     *)
LEMMA GuestFinishStep ==
  ASSUME HInv, hpc = "done", UNCHANGED <<host_vars, reader_vars>>, finish_update
  PROVE  HInv'
<1>1. PICK m, n : m = state_marker /\ n = Len(stream)
  OBVIOUS
<1>2. pc = "chunk_header" /\ header.chunk_count = 0 /\ pc \in Updating
  BY DEF finish_update, Updating
<1>3. Taken = cursor /\ Validated = cursor /\ Placed = cursor
  BY <1>2 DEF Taken, Validated, Placed
<1>4. /\ m \in Nat /\ n \in Nat /\ cursor \in m .. n /\ Chunks = m + 1 .. n
      /\ replayed = Len(calls) /\ bundle = outcome /\ rest = <<>>
      /\ header = [version |-> 2, chunk_count |-> n - cursor]
      /\ todo = {x \in Addr : outcome[x] # None /\ \E i \in cursor + 1 .. n : x \in Region(i)}
      /\ \A i \in m + 1 .. cursor : \A x \in Region(i) : account_cache[x] = Unknown
      /\ state_trie.bad \subseteq Deleted
      /\ \A x \in Addr : storage_root(state_trie.map[x]).canonical
      /\ \A i \in cursor + 1 .. n : \A x \in Region(i) :
           state_trie.map[x] = Parent[x] /\ x \notin state_trie.bad
      /\ \A x \in Addr : (\A i \in m + 1 .. n : x \notin Region(i)) => x \in state_trie.open
  BY <1>1, <1>2, <1>3, UpdateFacts
<1>5. cursor = n
  BY <1>2, <1>4
<1>6. cursor + 1 .. n = {}
  BY <1>4, <1>5
<1>7. todo = {} /\ run = {}
  BY <1>2, <1>4, <1>6 DEF HInv, IndInv, ChunkInv
<1>8. ASSUME NEW a \in Addr, account_cache[a] # Unknown
      PROVE  a \in state_trie.open /\ state_trie.map[a] = account_cache[a]
  <2>1. a \in state_trie.open
    BY <1>4, <1>5, <1>8
  <2>2. state_trie.map[a] = Parent[a]
    BY <1>2, <1>8 DEF HInv, IndInv, CachedAccountsAreNotUpdated
  <2>3. account_cache[a] = Parent[a]
    BY <1>8 DEF HInv, CacheInv
  <2> QED BY <2>1, <2>2, <2>3
<1>9. /\ pc' = "root" /\ storage_tries' = [a \in Addr |-> Unknown]
      /\ UNCHANGED <<account_cache, header, state_trie, chunk, bundle, todo, run>>
  BY <1>7, <1>8 DEF finish_update, update_vars
<1>10. UNCHANGED <<replayed, cursor, rest>>
  BY DEF reader_vars
<1>11. IndInv'
  BY <1>9, finish_updateStep DEF HInv, Reject
<1>12. Taken' = cursor /\ Validated' = cursor /\ Placed' = cursor
  BY <1>9, <1>10 DEF Taken, Validated, Placed
<1>13. UpdateInv'
  BY <1>1, <1>4, <1>5, <1>7, <1>9, <1>10, <1>12, MakeUpdateInv
<1>14. FrontierAlignInv'
  BY <1>1, <1>4, <1>9, <1>12, MakeFrontierAlignInv
<1>15. ChunkAlignInv'
  BY <1>9 DEF ChunkAlignInv, InChunk
<1> QED BY <1>9, <1>10, <1>11, <1>13, <1>14, <1>15, UpdatingStep DEF Updating

(* The frontier then holds the accounts of the block's post state.         *)
LEMMA FinalFrontier ==
  ASSUME HInv, hpc = "done", pc \in {"root", "accepted"}
  PROVE  /\ state_trie.map = PostState /\ state_trie.bad \subseteq Deleted
         /\ \A a \in Addr : storage_root(state_trie.map[a]).canonical
<1>1. pc \in Updating
  BY DEF Updating
<1>2. /\ state_trie.bad \subseteq Deleted
      /\ \A a \in Addr : storage_root(state_trie.map[a]).canonical
  BY <1>1, UpdateFacts
<1> QED BY <1>2, FinalRoot DEF HInv

(* Only its shape can differ from that of the header's root.               *)
LEMMA GuestRootStep ==
  ASSUME HInv, hpc = "done", UNCHANGED <<host_vars, reader_vars>>, check_state_root,
         pc' = IF CanonicalState(state_trie) /\ state_trie.map = PostState
               THEN "accepted" ELSE "rejected"
  PROVE  HInv'
<1>1. pc = "root" /\ pc \in Updating /\ UNCHANGED <<exec_vars, update_vars>>
  BY DEF check_state_root, Updating
<1>2. UNCHANGED <<account_cache, storage_tries, header, state_trie, chunk, bundle, todo, run>>
  BY <1>1 DEF exec_vars, update_vars
<1>3. UNCHANGED <<replayed, cursor, rest>>
  BY DEF reader_vars
<1>4. IndInv'
  BY check_state_rootStep DEF HInv
<1>5. UpdateInv /\ FrontierAlignInv /\ cursor = Len(stream) /\ replayed = Len(calls) /\ rest = <<>>
  BY <1>1 DEF HInv, UpdateInv
<1>6. /\ state_trie.map = PostState /\ state_trie.bad \subseteq Deleted
      /\ pc' = IF state_trie.bad = {} THEN "accepted" ELSE "rejected"
  BY <1>1, FinalFrontier DEF CanonicalState
<1>7. CASE state_trie.bad = {}
  <2>1. pc' = "accepted" /\ pc' \in Updating
    BY <1>6, <1>7 DEF Updating
  <2>2. /\ Taken = cursor /\ Validated = cursor /\ Placed = cursor
        /\ Taken' = cursor /\ Validated' = cursor /\ Placed' = cursor
    BY <1>1, <1>3, <2>1 DEF Taken, Validated, Placed
  <2>3. UpdateInv'
    BY <1>1, <1>2, <1>3, <1>5, <2>1, <2>2, MakeUpdateInv DEF UpdateInv
  <2>4. FrontierAlignInv'
    BY <1>1, <1>2, <1>5, <2>2, MakeFrontierAlignInv DEF FrontierAlignInv
  <2>5. ChunkAlignInv'
    BY <2>1 DEF ChunkAlignInv, InChunk
  <2> QED BY <1>2, <1>3, <1>4, <2>1, <2>3, <2>4, <2>5, UpdatingStep
<1>8. CASE state_trie.bad # {}
  <2>1. pc' = "rejected"
    BY <1>6, <1>8
  <2>2. PostState' = PostState /\ Deleted' = Deleted /\ calls' = calls /\ stream' = stream
    BY <1>2, HostKept DEF PostState, PostAccount, Written, storage_root, EMPTY_ROOT_HASH
  <2>3. VerdictInv'
    BY <1>2, <1>3, <1>5, <1>6, <1>8, <2>1, <2>2 DEF VerdictInv, DeletionSpoiledTheShape
  <2>4. CacheInv'
    BY <1>2, <2>1 DEF HInv, CacheInv, Executing, FullStorage
  <2>5. ReplayInv' /\ UpdateInv' /\ FrontierAlignInv' /\ ChunkAlignInv'
    BY <2>1 DEF ReplayInv, UpdateInv, FrontierAlignInv, ChunkAlignInv, Executing, Updating, InChunk
  <2> QED BY <1>3, <1>4, <2>3, <2>4, <2>5, GuestStep, GuestFacts
<1> QED BY <1>7, <1>8

-----------------------------------------------------------------------------
(* All steps. *)

LEMMA GuestCallStep == HInv /\ GuestCall => HInv'
<1> SUFFICES ASSUME HInv, GuestCall
             PROVE  HInv'
  OBVIOUS
<1>1. calls[replayed + 1].op \in {"basic", "storage", "code"}
  <2>1. PICK k : k = replayed + 1
    OBVIOUS
  <2>2. calls[k] \in Call
    BY <2>1, CallFacts DEF GuestCall
  <2> QED BY <2>1, <2>2 DEF Call
<1> QED BY <1>1, GuestBasicStep, GuestStorageStep, GuestCodeStep

LEMMA GuestReadStep == HInv /\ GuestRead => HInv' /\ Guest!Next
BY GuestAccountStep, GuestStorageHeaderStep, GuestStorageTrieStep, GuestFrontierStep,
   GuestChunkHeaderStep, GuestChunkStep, GuestWitnessStep DEF GuestRead

LEMMA GuestComputeStep == HInv /\ GuestCompute => HInv'
BY GuestExecuteStep, GuestTakeStep, GuestApplyStep, GuestReplaceStep, GuestFinishStep,
   GuestRootStep DEF GuestCompute

LEMMA IdleStep == HInv /\ UNCHANGED all_vars => HInv'
<1> SUFFICES ASSUME HInv, UNCHANGED all_vars
             PROVE  HInv'
  OBVIOUS
<1>1. UNCHANGED vars /\ UNCHANGED host_vars /\ UNCHANGED reader_vars
  BY DEF all_vars
<1>2. HTypeOK'
  BY <1>1 DEF HInv, HTypeOK, host_vars, record_vars, reader_vars
<1>3. CASE hpc # "done"
  <2>1. /\ hpc' = hpc /\ UNCHANGED <<calls, witness_order, account_order, storage_order, outcome>>
    BY <1>1 DEF host_vars, record_vars
  <2>2. state_marker' = state_marker
    BY <2>1, RecordKept
  <2>3. Recorded' = Recorded
    BY <2>1, <2>2 DEF Recorded
  <2>4. CallsInv' /\ OrderInv'
    <3>1. Recorded \in Nat
      BY MarkerFacts, LenProperties DEF HInv, HTypeOK, Recorded
    <3>2. CallsInv'
      BY <2>1, <2>3, <3>1, CallsKept DEF HInv, HTypeOK
    <3> QED BY <2>1, <3>2 DEF HInv, OrderInv, Asked, IsStorage
  <2>5. OutcomeInv'
    BY <2>1, <2>2 DEF HInv, OutcomeInv, IsMarker, Asked, AskedSlot, Changed
  <2> QED BY <1>1, <1>2, <1>3, <2>1, <2>4, <2>5, HostStep
<1>4. CASE hpc = "done"
  <2>1. /\ hpc' = hpc /\ UNCHANGED <<calls, witness_order, outcome, stream>>
        /\ UNCHANGED <<pc, want, header, account_cache, storage_tries, state_trie, chunk,
                       bundle, todo, run>>
        /\ UNCHANGED <<replayed, cursor, rest>>
    BY <1>1 DEF host_vars, record_vars, vars, reader_vars
  <2>2. IndInv'
    BY <1>1, FailStep DEF HInv
  <2>3. /\ state_marker' = state_marker /\ Recorded' = Recorded /\ Chunks' = Chunks
        /\ \A i : Region(i)' = Region(i)
        /\ PostStorageWitness' <=> PostStorageWitness
        /\ Deleted' = Deleted
    BY <1>1, <1>4, HostKept
  <2>4. CacheInv'
    BY <2>1 DEF HInv, CacheInv, Answered, FullStorage, IsBasic, IsStorage
  <2>5. ReplayInv'
    BY <2>1, <2>3 DEF HInv, ReplayInv, At, Writes, IsStorage, FullStorage, Bytes
  <2>6. UpdateInv'
    BY <2>1, <2>3 DEF HInv, UpdateInv, Taken, Validated, NeedsTrie, Changed
  <2>7. FrontierAlignInv'
    BY <2>1, <2>3 DEF HInv, FrontierAlignInv, Placed, storage_root, EMPTY_ROOT_HASH
  <2>8. ChunkAlignInv'
    <3>1. PostAccesses(chunk.region)' = PostAccesses(chunk.region)
      BY <2>1, <2>3 DEF PostAccesses
    <3>2. Witnesses(chunk.region)' = Witnesses(chunk.region)
      BY <2>1, <3>1 DEF Witnesses
    <3> QED BY <2>1, <2>3, <3>1, <3>2
            DEF HInv, ChunkAlignInv, Below, Whole, storage_root, EMPTY_ROOT_HASH, Bytes
  <2>9. VerdictInv'
    <3>1. PostState' = PostState
      BY <2>1 DEF PostState, PostAccount, Written, storage_root, EMPTY_ROOT_HASH
    <3> QED BY <2>1, <2>3, <3>1 DEF HInv, VerdictInv, DeletionSpoiledTheShape
  <2> QED BY <1>1, <1>2, <1>4, <2>1, <2>2, <2>4, <2>5, <2>6, <2>7, <2>8, <2>9, GuestStep, GuestFacts
<1> QED BY <1>3, <1>4

LEMMA HInvStep == HInv /\ [HNext]_all_vars => HInv'
<1> SUFFICES ASSUME HInv, [HNext]_all_vars
             PROVE  HInv'
  OBVIOUS
<1>1. ASSUME NEW b \in Bundles, record_outcome(b)
      PROVE  HInv'
  BY <1>1, ArrivalAssumption, record_outcomeStep
<1>2. ASSUME NEW n \in 0 .. MaxChunks, NEW chunks \in [1 .. n -> Regions],
             write_ceno_client_input(chunks)
      PROVE  HInv'
  <2>1. n \in Nat
    BY BoundAssumption
  <2> QED BY <1>2, <2>1, write_streamStep
<1> QED BY <1>1, <1>2, record_basicStep, record_bundle_accountStep, record_storageStep,
           record_codeStep, nothing_to_recordStep, GuestCallStep, GuestReadStep,
           GuestComputeStep, IdleStep DEF HNext

(* The inductive invariant holds in every run of host and guest.           *)
THEOREM HostInvariant == HSpec => []HInv
BY InitStep, HInvStep, PTL DEF HSpec

(* An accepted block leaves no hint unread and no call unmade, whatever    *)
(* the execution and however the state was cut.                            *)
THEOREM StreamUsedUp == HSpec => []StreamIsUsedUp
<1>1. HInv => StreamIsUsedUp
  <2> SUFFICES ASSUME HInv, pc = "accepted"
               PROVE  ~Readable /\ replayed = Len(calls)
    BY DEF StreamIsUsedUp
  <2>1. hpc = "done"
    BY DEF HInv, IdleInv, Init
  <2>2. replayed = Len(calls) /\ cursor = Len(stream) /\ rest = <<>>
    BY <2>1 DEF HInv, UpdateInv, Updating
  <2>3. ~(cursor < Len(stream))
    BY <2>1, <2>2, GuestFacts
  <2> QED BY <2>2, <2>3 DEF Readable
<1> QED BY <1>1, HostInvariant, PTL

(* A stream that the host wrote passes every check up to the header's      *)
(* root, and that one too unless a deletion spoiled the shape of the state *)
(* trie; the guest panics on none without a storage trie after the marker. *)
THEOREM StreamAccepted == HSpec => []HostStreamIsAccepted
<1>1. HInv => HostStreamIsAccepted
  <2> SUFFICES ASSUME HInv, ~PostStorageWitness
               PROVE  /\ pc # "panic"
                      /\ pc = "rejected" => /\ DeletionSpoiledTheShape
                                            /\ state_trie.map = PostState
                                            /\ ~Readable /\ replayed = Len(calls)
    BY DEF HostStreamIsAccepted
  <2>1. pc # "panic"
    BY DEF HInv, VerdictInv
  <2>2. ASSUME pc = "rejected"
        PROVE  /\ DeletionSpoiledTheShape /\ state_trie.map = PostState
               /\ ~Readable /\ replayed = Len(calls)
    <3>1. hpc = "done"
      BY <2>2 DEF HInv, IdleInv, Init
    <3>2. /\ DeletionSpoiledTheShape /\ state_trie.map = PostState
          /\ replayed = Len(calls) /\ cursor = Len(stream) /\ rest = <<>>
      BY <2>2 DEF HInv, VerdictInv
    <3>3. ~(cursor < Len(stream))
      BY <3>1, <3>2, GuestFacts
    <3> QED BY <3>2, <3>3 DEF Readable
  <2> QED BY <2>1, <2>2
<1> QED BY <1>1, HostInvariant, PTL

(* Before it compares roots, the guest holds the accounts of the block's   *)
(* post state, each with a canonical storage trie, whatever the execution, *)
(* the cut and the shape that deletions left: the comparison can fail only *)
(* on the shape of the state trie.                                         *)
THEOREM GuestReachesPostState ==
  HSpec => [](pc = "root" => /\ state_trie.map = PostState
                             /\ \A a \in Addr : storage_root(state_trie.map[a]).canonical)
<1>1. HInv => (pc = "root" => /\ state_trie.map = PostState
                              /\ \A a \in Addr : storage_root(state_trie.map[a]).canonical)
  <2> SUFFICES ASSUME HInv, pc = "root"
               PROVE  /\ state_trie.map = PostState
                      /\ \A a \in Addr : storage_root(state_trie.map[a]).canonical
    OBVIOUS
  <2>1. hpc = "done"
    BY DEF HInv, IdleInv, Init
  <2> QED BY <2>1, FinalFrontier
<1> QED BY <1>1, HostInvariant, PTL

(* What the host recorded and wrote is a stream of well-formed hints: the  *)
(* guest takes no step on it that it could not take on an arbitrary one,   *)
(* so every property of the guest alone is one of the guest of the host.   *)
THEOREM HostDrivesTheGuest == HSpec => Guest!Spec
<1>1. HInit => Guest!Init
  BY DEF HInit, Init, Guest!Init
<1>2. ASSUME HInv, [HNext]_all_vars
      PROVE  Guest!Next \/ UNCHANGED vars
  <2>1. CASE GuestCall
    <3>1. PICK k : k = replayed + 1
      OBVIOUS
    <3>2. /\ calls[k] \in Call
          /\ calls[k].op \in {"basic", "storage"} => calls[k].a \in Addr
      BY <1>2, <2>1, <3>1, CallFacts DEF GuestCall
    <3>3. CASE calls[k].op = "basic"
      BY <2>1, <3>1, <3>2, <3>3, GuestLookup DEF GuestCall
    <3>4. CASE calls[k].op = "storage"
      <4>1. calls[k].slot \in Slot
        BY <3>2, <3>4 DEF Call
      <4> QED BY <2>1, <3>1, <3>2, <3>4, <4>1, GuestLookup DEF GuestCall
    <3>5. CASE calls[k].op = "code"
      <4>1. /\ hpc = "done" /\ pc = "exec" /\ replayed < Len(calls)
            /\ read_bytecode(calls[k].code, NextHint.item)
        BY <2>1, <3>1, <3>5 DEF GuestCall
      <4>2. k \in 1 .. Len(calls) /\ Writes(k) /\ cursor = calls[k].at /\ rest = <<>>
        BY <1>2, <3>1, <3>5, <4>1, CallFacts, ExecFacts DEF Writes
      <4>3. NextHint = Hint([kind |-> "bytecode", code |-> calls[k].code], <<>>)
        BY <1>2, <3>5, <4>1, <4>2, HintOfCall
      <4> QED BY <4>1, <4>3 DEF Hint, read_bytecode
    <3> QED BY <3>2, <3>3, <3>4, <3>5 DEF Call
  <2>2. CASE GuestRead
    BY <1>2, <2>2, GuestReadStep
  <2>3. CASE GuestCompute
    BY <1>2, <2>3, GuestUpdate DEF GuestCompute, HInv, HTypeOK
  <2>4. ASSUME NEW n \in 0 .. MaxChunks, NEW chunks \in [1 .. n -> Regions],
               write_ceno_client_input(chunks)
        PROVE  Guest!Next
    <3>1. n \in Nat
      BY BoundAssumption
    <3>2. [version |-> 2, chunk_count |-> n] \in Header
      BY <3>1 DEF Header
    <3>3. Len(chunks) = n
      BY <3>1, LenOfFunction
    <3>4. pc = "start"
      BY <1>2, <2>4 DEF write_ceno_client_input, HInv, IdleInv, Init
    <3>5. build_streaming_state([version |-> 2, chunk_count |-> n])
      BY <2>4, <3>3, <3>4 DEF write_ceno_client_input, build_streaming_state
    <3> QED BY <3>2, <3>5, GuestHeader
  <2>5. CASE \/ \E a \in Addr : record_basic(a) \/ record_bundle_account(a)
             \/ \E a \in Addr, s \in Slot : record_storage(a, s)
             \/ \E c \in Code : record_code(c)
             \/ \E b \in Bundles : record_outcome(b)
             \/ nothing_to_record
             \/ UNCHANGED all_vars
    BY <2>5 DEF record_basic, record_bundle_account, record_storage, record_code, record_outcome,
                nothing_to_record, all_vars
  <2> QED BY <1>2, <2>1, <2>2, <2>3, <2>4, <2>5 DEF HNext
<1>3. HInv /\ [HNext]_all_vars => [Guest!Next]_(Guest!vars)
  <2>1. UNCHANGED vars => UNCHANGED Guest!vars
    BY DEF vars, Guest!vars
  <2> QED BY <1>2, <2>1
<1> QED BY <1>1, <1>3, HostInvariant, PTL DEF HSpec, Guest!Spec

=============================================================================
