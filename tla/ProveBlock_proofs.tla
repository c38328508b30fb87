-------------------------- MODULE ProveBlock_proofs --------------------------
(***************************************************************************)
(* Proofs about module ProveBlock, for any chain heads and any number of   *)
(* failing commands, stops and crashes: the types, and that what a run     *)
(* reports or stores as a success is of its own block.                     *)
(***************************************************************************)
EXTENDS ProveBlock, TLAPS

-----------------------------------------------------------------------------
(* Types *)

LEMMA NewRunTyped ==
  ASSUME NEW how \in {"none", "ok", "error", "gpu_unavailable"}
  PROVE  [NewRun EXCEPT !.code = how] \in Run
BY DEF NewRun, Run, NoMetrics, Metrics, File

LEMMA InitTyped == Init => TypeOK
<1> SUFFICES ASSUME Init PROVE TypeOK
  OBVIOUS
<1>1. run \in Run
  BY DEF Init, NewRun, Run, NoMetrics, Metrics, File
<1>2. disk \in Disk /\ store \in Store
  BY DEF Init, Disk, Store, NoMetrics, Metrics, File
<1>3. reported \in [Block -> Report]
  BY DEF Init, Report, NoReport, File
<1>4. faults \in 0 .. MaxFaults /\ kills \in 0 .. MaxKills
  BY ScriptAssumption DEF Init
<1> QED BY <1>1, <1>2, <1>3, <1>4 DEF Init, TypeOK, Script

(* The script's variables and where it is, after a step.                   *)
Placed(p, r) == p \in Script /\ r \in Run /\ (p \notin {"gpu", "choose", "exit"} => r.block \in Block)

LEMMA ExitPlaced ==
  ASSUME NEW how \in {"none", "ok", "error", "gpu_unavailable"}, exit(how)
  PROVE  Placed(pc', run')
BY NewRunTyped DEF exit, Placed, Script

(* A step that only moves the script keeps the types.                      *)
LEMMA MoveTyped ==
  ASSUME TypeOK, Placed(pc', run'), works \/ fails,
         UNCHANGED <<outside, disk, store, reported>>
  PROVE  TypeOK'
<1>1. faults' \in 0 .. MaxFaults
  BY ScriptAssumption DEF TypeOK, works, fails
<1>2. UNCHANGED <<pinned, api_on, orphans, disturbed, kills, disk, store, reported>>
  BY DEF outside, env
<1> QED BY <1>1, <1>2 DEF TypeOK, Placed

(* And so does one that also writes to the store or to the API.            *)
LEMMA UploadTyped ==
  ASSUME TypeOK, Placed(pc', run'), works \/ fails, store' \in Store, reported' \in [Block -> Report],
         UNCHANGED <<outside, disk>>
  PROVE  TypeOK'
<1>1. faults' \in 0 .. MaxFaults
  BY ScriptAssumption DEF TypeOK, works, fails
<1>2. UNCHANGED <<pinned, api_on, orphans, disturbed, kills, disk>>
  BY DEF outside, env
<1> QED BY <1>1, <1>2 DEF TypeOK, Placed

LEMMA BeforeProofTyped ==
  ASSUME TypeOK,
         \/ wait_for_gpu \/ choose_block \/ check_store \/ find_generated_input
         \/ post_queued \/ post_proving \/ read_proof \/ read_metrics \/ upload_markdown
  PROVE  TypeOK'
<1>0. Placed(pc, run) /\ disk \in Disk
  BY DEF TypeOK, Placed
<1>1. CASE wait_for_gpu
  <2>1. CASE goto("choose", [run EXCEPT !.attempts = 0])
    BY <1>0, <1>1, <2>1, MoveTyped DEF wait_for_gpu, goto, Placed, Script, Run
  <2>2. CASE goto("gpu", [run EXCEPT !.attempts = @ + 1])
    BY <1>0, <1>1, <2>2, MoveTyped DEF wait_for_gpu, goto, Placed, Script, Run
  <2>3. CASE exit("gpu_unavailable")
    BY <1>1, <2>3, MoveTyped, ExitPlaced DEF wait_for_gpu
  <2> QED BY <1>1, <2>1, <2>2, <2>3 DEF wait_for_gpu
<1>2. CASE choose_block
  <2>1. CASE exit("error")
    BY <1>2, <2>1, MoveTyped, ExitPlaced DEF choose_block
  <2>2. ASSUME NEW b \in Block, goto("check_store", [run EXCEPT !.block = b])
        PROVE  TypeOK'
    BY <1>0, <1>2, <2>2, MoveTyped DEF choose_block, goto, Placed, Script, Run
  <2>3. \A b \in (IF pinned THEN {CHOOSE x \in Block : TRUE} ELSE Block) : b \in Block
    BY ScriptAssumption DEF Block
  <2> QED BY <1>2, <2>1, <2>2, <2>3 DEF choose_block
<1>3. CASE check_store
  <2>1. CASE exit("ok")
    BY <1>3, <2>1, MoveTyped, ExitPlaced DEF check_store
  <2>2. CASE goto("find_input", run)
    BY <1>0, <1>3, <2>2, MoveTyped DEF check_store, goto, Placed, Script
  <2> QED BY <1>3, <2>1, <2>2 DEF check_store
<1>4. CASE find_generated_input
  BY <1>0, <1>4, MoveTyped DEF find_generated_input, goto, Placed, Script
<1>5. ASSUME NEW next \in Script, pc \in {"queue", "announce"}, post_status(next),
             UNCHANGED <<outside, disk, store, reported>>
      PROVE  TypeOK'
  <2>1. CASE exit("ok") \/ exit("error")
    BY <1>5, <2>1, MoveTyped, ExitPlaced DEF post_status
  <2>2. CASE goto(next, run)
    BY <1>0, <1>5, <2>2, MoveTyped DEF post_status, goto, Placed
  <2> QED BY <1>5, <2>1, <2>2 DEF post_status
<1>6. CASE post_queued
  BY <1>5, <1>6 DEF post_queued, Script, Child, MakeInput
<1>7. CASE post_proving
  BY <1>5, <1>7 DEF post_proving, Script, Child, Prove
<1>8. CASE read_proof
  BY <1>0, <1>8, MoveTyped DEF read_proof, goto, Placed, Script, Run, Disk
<1>9. CASE read_metrics
  BY <1>0, <1>9, MoveTyped DEF read_metrics, goto, Placed, Script, Run, Disk
<1>10. CASE upload_markdown
  <2>1. CASE exit("error")
    BY <1>10, <2>1, MoveTyped, ExitPlaced DEF upload_markdown
  <2>2. CASE goto("append", run)
    BY <1>0, <1>10, <2>2, MoveTyped DEF upload_markdown, goto, Placed, Script
  <2> QED BY <1>10, <2>1, <2>2 DEF upload_markdown
<1> QED BY <1>1, <1>2, <1>3, <1>4, <1>6, <1>7, <1>8, <1>9, <1>10

LEMMA UploadsTyped ==
  ASSUME TypeOK,
         upload_input \/ post_proved \/ upload_root \/ upload_metrics \/ append_processed
  PROVE  TypeOK'
<1>0. /\ Placed(pc, run) /\ disk \in Disk /\ store \in Store /\ reported \in [Block -> Report]
      /\ run \in Run /\ run.block \in Block
  BY DEF TypeOK, Placed, upload_input, post_proved, upload_root, upload_metrics, append_processed
<1>1. CASE upload_input
  <2>1. Placed(pc', run') /\ (works \/ fails)
    BY <1>0, <1>1 DEF upload_input, goto, Placed, Script
  <2>2. store' \in Store
    BY <1>0, <1>1 DEF upload_input, Store, Disk
  <2> QED BY <1>0, <1>1, <2>1, <2>2, UploadTyped DEF upload_input
<1>2. CASE post_proved
  <2> DEFINE rest == [run EXCEPT !.proof_b64 = "none", !.measured = NoMetrics]
             taken == [proof |-> run.proof_b64, of |-> run.measured.of]
             accepted == [reported EXCEPT ![run.block] = IF @ = NoReport THEN taken ELSE @]
  <2>1. rest \in Run /\ rest.block = run.block
    BY <1>0 DEF Run, NoMetrics, Metrics, File
  <2>2. taken \in Report
    BY <1>0 DEF Run, Report, Metrics
  <2>3. accepted \in [Block -> Report]
    BY <1>0, <2>2
  <2>4. /\ goto("upload_root", rest) \/ exit("error")
        /\ works \/ fails
        /\ reported' \in {reported, accepted}
        /\ UNCHANGED <<outside, disk, store>>
    BY <1>2 DEF post_proved
  <2>5. Placed(pc', run')
    BY <1>0, <2>1, <2>4, ExitPlaced DEF goto, Placed, Script
  <2> QED BY <1>0, <2>3, <2>4, <2>5, UploadTyped
<1>3. CASE upload_root
  <2>1. Placed(pc', run') /\ (works \/ fails)
    BY <1>0, <1>3 DEF upload_root, goto, Placed, Script
  <2>2. store' \in Store
    BY <1>0, <1>3 DEF upload_root, Store, Disk
  <2> QED BY <1>0, <1>3, <2>1, <2>2, UploadTyped DEF upload_root
<1>4. CASE upload_metrics
  <2>1. Placed(pc', run') /\ (works \/ fails)
    BY <1>0, <1>4, ExitPlaced DEF upload_metrics, goto, Placed, Script
  <2>2. store' \in Store
    BY <1>0, <1>4 DEF upload_metrics, Store, Disk, Metrics
  <2> QED BY <1>0, <1>4, <2>1, <2>2, UploadTyped DEF upload_metrics
<1>5. CASE append_processed
  <2>1. run.status \in {"none", "ok", "error", "gpu_unavailable"} /\ exit(run.status)
    BY <1>0, <1>5 DEF append_processed, Run
  <2>2. store' \in Store
    BY <1>0, <1>5 DEF append_processed, Store
  <2> QED BY <1>0, <1>5, <2>1, <2>2, ExitPlaced, UploadTyped DEF append_processed
<1> QED BY <1>1, <1>2, <1>3, <1>4, <1>5

(* The binary writes files of the right type, and its steps follow Child.  *)
LEMMA BinaryTyped ==
  ASSUME TypeOK, NEW c \in Child, NEW b \in Block, NEW next \in Child \cup {"done"},
         (binary_steps(c, b, next) /\ works) \/ binary_fails(c, b)
  PROVE  disk' \in Disk /\ faults' \in 0 .. MaxFaults
<1>1. disk \in Disk /\ faults \in 0 .. MaxFaults
  BY DEF TypeOK
<1>2. \A m \in metrics_of(b) : m \in Metrics
  BY DEF metrics_of, Metrics
<1>3. \A f \in written(b) : f \in File
  BY DEF written, File
<1>4. "partial" \in File
  BY DEF File
<1>5. disk' \in Disk
  <2>1. CASE binary_fails(c, b)
    BY <1>1, <1>2, <2>1 DEF binary_fails, Disk
  <2>2. CASE binary_steps(c, b, next)
    BY <1>1, <1>2, <1>3, <1>4, <2>2 DEF binary_steps, Disk
  <2> QED BY <2>1, <2>2
<1>6. faults' \in 0 .. MaxFaults
  BY <1>1, ScriptAssumption DEF binary_fails, works, fails
<1> QED BY <1>5, <1>6

LEMMA RunBinaryTyped ==
  ASSUME TypeOK, run_binary
  PROVE  TypeOK'
<1>0. pc \in Child /\ run \in Run /\ run.block \in Block
  BY DEF run_binary, TypeOK, Child, MakeInput, Prove
<1>1. UNCHANGED <<pinned, api_on, orphans, disturbed, kills, store, reported>>
  BY DEF run_binary, outside, env
<1>2. \E next \in Child \cup {"done"} :
        (binary_steps(pc, run.block, next) /\ works) \/ binary_fails(pc, run.block)
  BY DEF run_binary
<1>3. disk' \in Disk /\ faults' \in 0 .. MaxFaults
  BY <1>0, <1>2, BinaryTyped
<1>4. \/ \E next \in Child : goto(next, run)
      \/ goto("upload_input", run)
      \/ ended("ok") \/ ended("error") \/ exit("error")
  BY DEF run_binary
<1>5. Placed(pc', run')
  <2>1. CASE exit("error")
    BY <2>1, ExitPlaced
  <2>2. CASE \E next \in Child : goto(next, run)
    BY <1>0, <2>2 DEF goto, Placed, Script
  <2>3. CASE goto("upload_input", run)
    BY <1>0, <2>3 DEF goto, Placed, Script
  <2>4. CASE ended("ok") \/ ended("error")
    BY <1>0, <2>4 DEF ended, goto, Placed, Script, Run
  <2> QED BY <1>4, <2>1, <2>2, <2>3, <2>4
<1> QED BY <1>1, <1>3, <1>5 DEF TypeOK, Placed

LEMMA RunOrphanTyped ==
  ASSUME TypeOK, run_orphan
  PROVE  TypeOK'
<1>0. PICK o \in orphans :
        /\ \/ /\ works
              /\ \E next \in Child \cup {"done"} :
                   /\ binary_steps(o.at, o.block, next)
                   /\ orphans' = (orphans \ {o}) \cup
                        IF next = "done" THEN {} ELSE {[at |-> next, block |-> o.block]}
           \/ binary_fails(o.at, o.block) /\ orphans' = orphans \ {o}
        /\ UNCHANGED <<env, pc, run, store, reported, disturbed, kills>>
  BY DEF run_orphan
<1>1. o.at \in Child /\ o.block \in Block
  BY DEF TypeOK
<1>2. \E next \in Child \cup {"done"} :
        (binary_steps(o.at, o.block, next) /\ works) \/ binary_fails(o.at, o.block)
  BY <1>0
<1>3. disk' \in Disk /\ faults' \in 0 .. MaxFaults
  BY <1>1, <1>2, BinaryTyped
<1>4. orphans' \subseteq [at : Child, block : Block]
  BY <1>0, <1>1 DEF TypeOK
<1> QED BY <1>0, <1>3, <1>4 DEF TypeOK, env

LEMMA StepTyped == TypeOK /\ [Next]_vars => TypeOK'
<1> SUFFICES ASSUME TypeOK, [Next]_vars PROVE TypeOK'
  OBVIOUS
<1>1. CASE run_again
  <2>1. NewRun \in Run
    BY DEF NewRun, Run, NoMetrics, Metrics, File
  <2> QED BY <1>1, <2>1 DEF run_again, TypeOK, Script, env
<1>2. CASE terminate \/ crash
  <2>1. Placed(pc', run')
    BY <1>2, ExitPlaced DEF terminate, crash
  <2>2. kills' \in 0 .. MaxKills
    BY <1>2, ScriptAssumption DEF terminate, crash, TypeOK
  <2>3. orphans' \subseteq [at : Child, block : Block]
    BY <1>2 DEF terminate, crash, TypeOK, Child, MakeInput, Prove
  <2> QED BY <1>2, <2>1, <2>2, <2>3 DEF terminate, crash, TypeOK, Placed, env
<1>3. CASE UNCHANGED vars
  BY <1>3 DEF vars, env, TypeOK
<1> QED BY <1>1, <1>2, <1>3, BeforeProofTyped, UploadsTyped, RunBinaryTyped, RunOrphanTyped
       DEF Next, ScriptStep

(* Types hold in every reachable state of the script and its files.        *)
THEOREM ScriptType == Spec => []TypeOK
BY InitTyped, StepTyped, PTL DEF Spec

-----------------------------------------------------------------------------
(* What a success is of *)

(* A run that began alone stays alone until it ends: only a stopped script *)
(* leaves an orphan, and the next run then begins disturbed.               *)
AfterProof == {"read_proof", "read_metrics", "report", "upload_root", "upload_metrics",
               "upload_markdown", "append"}
Alone == pc # "exit" /\ ~disturbed => orphans = {}

(* The files of a success that nobody disturbed: the root proof is written *)
(* before the metrics, and the metrics are written last, so status "ok"    *)
(* finds both of its own block; they stay while the script reads and       *)
(* uploads them.                                                           *)
OwnFiles == disk.root[run.block] = "whole" /\ disk.metrics.of = run.block
Own ==
  /\ Alone
  /\ run.status # "none" => pc \in AfterProof
  /\ ~disturbed /\ pc = "write_metrics" => disk.root[run.block] = "whole"
  /\ ~disturbed /\ run.status = "ok" => OwnFiles
  /\ ~disturbed /\ run.status = "ok" /\ pc \in {"read_metrics", "report"} => run.proof_b64 = "whole"
  /\ ~disturbed /\ run.status = "ok" /\ pc = "report" => run.measured.of = run.block

LEMMA ExitOwn ==
  ASSUME NEW how, exit(how)
  PROVE  Own'
<1>1. [NewRun EXCEPT !.code = how].status = "none"
  BY DEF NewRun
<1> QED BY <1>1 DEF exit, Own, Alone

(* A step that only moves the script: within the same phase nothing is     *)
(* lost.                                                                   *)
LEMMA BeforeProofOwn ==
  ASSUME TypeOK, Own,
         \/ wait_for_gpu \/ choose_block \/ check_store \/ find_generated_input
         \/ post_queued \/ post_proving \/ upload_input
  PROVE  Own'
<1>0. run \in Run /\ run.status = "none"
  BY DEF TypeOK, Own, AfterProof, wait_for_gpu, choose_block, check_store, find_generated_input,
         post_queued, post_proving, upload_input
<1>1. CASE \E how : exit(how)
  BY <1>1, ExitOwn
<1>2. CASE ~\E how : exit(how)
  <2>1. /\ pc' # "write_metrics" /\ run'.status = "none" /\ pc # "exit"
        /\ UNCHANGED <<orphans, disturbed>>
    BY <1>0, <1>2 DEF Run, outside, goto, post_status, wait_for_gpu, choose_block, check_store,
         find_generated_input, post_queued, post_proving, upload_input
  <2> QED BY <2>1 DEF Own, Alone
<1> QED BY <1>1, <1>2

LEMMA RunBinaryOwn ==
  ASSUME TypeOK, Own, run_binary
  PROVE  Own'
<1>0. /\ run \in Run /\ run.status = "none" /\ pc \in Child /\ pc # "exit" /\ run.block \in Block
      /\ disk \in Disk /\ UNCHANGED <<orphans, disturbed>>
  BY DEF TypeOK, Own, AfterProof, run_binary, Child, MakeInput, Prove, outside
<1>1. CASE exit("error")
  BY <1>1, ExitOwn
<1>2. CASE ended("error")
  <2>1. pc' = "read_proof" /\ run'.status = "error"
    BY <1>0, <1>2 DEF ended, goto, Run
  <2> QED BY <1>0, <2>1 DEF Own, Alone, AfterProof
<1>3. ASSUME NEW next \in Child \cup {"done"}, binary_steps(pc, run.block, next),
             CASE next # "done" -> goto(next, run)
               [] next = "done" /\ pc \in MakeInput -> goto("upload_input", run)
               [] OTHER -> ended("ok")
      PROVE  Own'
  <2>1. CASE next = "write_metrics"
    <3>1. /\ \E f \in written(run.block) : disk' = [disk EXCEPT !.root[run.block] = f]
          /\ pc' = "write_metrics" /\ run' = run
      BY <1>3, <2>1 DEF binary_steps, goto
    <3>2. ~disturbed => disk'.root[run.block] = "whole"
      BY <1>0, <3>1 DEF written, Disk
    <3> QED BY <1>0, <3>1, <3>2 DEF Own, Alone
  <2>2. CASE next # "done" /\ next # "write_metrics"
    <3>1. pc' = next /\ run' = run
      BY <1>3, <2>2 DEF goto
    <3>2. pc' # "write_metrics"
      BY <3>1, <2>2
    <3> QED BY <1>0, <3>1, <3>2 DEF Own, Alone
  <2>3. CASE next = "done" /\ pc \in MakeInput
    <3>1. pc' = "upload_input" /\ run' = run
      BY <1>3, <2>3 DEF goto
    <3> QED BY <1>0, <3>1 DEF Own, Alone
  <2>4. CASE next = "done" /\ pc \notin MakeInput
    <3>1. /\ pc = "write_metrics"
          /\ \E m \in metrics_of(run.block) : disk' = [disk EXCEPT !.metrics = m]
      BY <1>3, <2>4 DEF binary_steps, MakeInput
    <3>2. disk'.root = disk.root /\ disk'.metrics.of = run.block
      BY <1>0, <3>1 DEF metrics_of, Disk
    <3>3. pc' = "read_proof" /\ run'.status = "ok" /\ run'.block = run.block
      BY <1>0, <1>3, <2>4 DEF ended, goto, Run
    <3>4. ~disturbed => disk.root[run.block] = "whole"
      BY <3>1 DEF Own
    <3> QED BY <1>0, <3>2, <3>3, <3>4 DEF Own, Alone, AfterProof, OwnFiles
  <2> QED BY <2>1, <2>2, <2>3, <2>4
<1> QED BY <1>1, <1>2, <1>3 DEF run_binary

LEMMA AfterProofOwn ==
  ASSUME TypeOK, Own,
         \/ read_proof \/ read_metrics \/ post_proved \/ upload_root \/ upload_metrics
         \/ upload_markdown \/ append_processed
  PROVE  Own'
<1>0. /\ run \in Run /\ pc # "exit" /\ disk' = disk /\ UNCHANGED <<orphans, disturbed>>
  BY DEF TypeOK, outside, read_proof, read_metrics, post_proved, upload_root, upload_metrics,
         upload_markdown, append_processed
<1>1. CASE \E how : exit(how)
  BY <1>1, ExitOwn
<1>2. CASE ~\E how : exit(how)
  <2>1. /\ pc' \in AfterProof \ {"read_proof"}
        /\ run'.block = run.block /\ run'.status = run.status
    BY <1>0, <1>2 DEF AfterProof, Run, goto, read_proof, read_metrics, post_proved, upload_root,
         upload_metrics, upload_markdown, append_processed
  <2>2. pc' = "read_metrics" => run'.proof_b64 = disk.root[run.block]
    BY <1>0, <1>2 DEF Run, goto, read_proof, read_metrics, post_proved, upload_root,
         upload_metrics, upload_markdown, append_processed
  <2>3. pc' = "report" => /\ pc = "read_metrics" /\ run'.proof_b64 = run.proof_b64
                          /\ run'.measured = disk.metrics
    BY <1>0, <1>2 DEF Run, goto, read_proof, read_metrics, post_proved, upload_root,
         upload_metrics, upload_markdown, append_processed
  <2> QED BY <1>0, <2>1, <2>2, <2>3 DEF Own, Alone, OwnFiles, AfterProof
<1> QED BY <1>1, <1>2

LEMMA StepOwn == TypeOK /\ Own /\ [Next]_vars => Own'
<1> SUFFICES ASSUME TypeOK, Own, [Next]_vars PROVE Own'
  OBVIOUS
<1>1. CASE run_again
  BY <1>1 DEF run_again, NewRun, Own, Alone
<1>2. CASE terminate \/ crash
  BY <1>2, ExitOwn DEF terminate, crash
<1>3. CASE run_orphan
  <2>1. orphans # {} /\ UNCHANGED <<pc, run, disturbed>>
    BY <1>3 DEF run_orphan
  <2>2. pc = "exit" \/ disturbed
    BY <2>1 DEF Own, Alone
  <2> QED BY <2>1, <2>2 DEF Own, Alone, AfterProof
<1>4. CASE UNCHANGED vars
  BY <1>4 DEF vars, Own, Alone, OwnFiles
<1> QED BY <1>1, <1>2, <1>3, <1>4, BeforeProofOwn, RunBinaryOwn, AfterProofOwn DEF Next, ScriptStep

LEMMA OwnHolds == Spec => [](TypeOK /\ Own)
<1>1. Init => Own
  BY DEF Init, NewRun, Own, Alone
<1> QED BY <1>1, InitTyped, StepTyped, StepOwn, PTL DEF Spec

(* However commands fail and scripts are stopped, a report that the status *)
(* API takes is a whole proof with the cycles of its own block, unless an  *)
(* orphan was alive when the run began.                                    *)
THEOREM ReportsAreOwn == Spec => ReportsAreOfTheBlock
<1>1. TypeOK /\ Own /\ [Next]_vars =>
        [\A b \in Block : reported'[b] # reported[b] =>
           disturbed \/ reported'[b] = [proof |-> "whole", of |-> b]]_vars
  <2> SUFFICES ASSUME TypeOK, Own, Next, NEW b \in Block, reported'[b] # reported[b], ~disturbed
               PROVE  reported'[b] = [proof |-> "whole", of |-> b]
    OBVIOUS
  <2>1. post_proved
    BY DEF Next, ScriptStep, wait_for_gpu, choose_block, check_store, find_generated_input,
         post_queued, upload_input, post_proving, run_binary, read_proof, read_metrics,
         upload_root, upload_metrics, upload_markdown, append_processed, run_again,
         run_orphan, terminate, crash
  <2> DEFINE taken == [proof |-> run.proof_b64, of |-> run.measured.of]
  <2>2. /\ pc = "report" /\ provable
        /\ reported' = [reported EXCEPT ![run.block] = IF @ = NoReport THEN taken ELSE @]
    BY <2>1 DEF post_proved
  <2>3. run.proof_b64 = "whole" /\ run.measured.of = run.block
    BY <2>2 DEF Own, provable
  <2>4. b = run.block /\ reported'[b] = taken
    BY <2>2 DEF TypeOK
  <2> QED BY <2>3, <2>4
<1> QED BY <1>1, OwnHolds, PTL DEF Spec, ReportsAreOfTheBlock

(* And what a successful run uploads is a whole proof and metrics of its   *)
(* own block, although a failed run uploads whatever file is there.        *)
THEOREM SuccessIsOwn == Spec => SuccessStoresItsOwn
<1>1. TypeOK /\ Own /\ [Next]_vars =>
        [\A b \in Block :
           run.status = "ok" /\ ~disturbed =>
             /\ store'.root[b] # store.root[b] => store'.root[b] = "whole"
             /\ store'.metrics[b] # store.metrics[b] => store'.metrics[b] = b]_vars
  <2> SUFFICES ASSUME TypeOK, Own, Next, NEW b \in Block, run.status = "ok", ~disturbed
               PROVE  /\ store'.root[b] # store.root[b] => store'.root[b] = "whole"
                      /\ store'.metrics[b] # store.metrics[b] => store'.metrics[b] = b
    OBVIOUS
  <2>1. store \in Store /\ OwnFiles
    BY DEF TypeOK, Own
  <2>2. CASE store' = store
    BY <2>2
  <2>3. CASE upload_root
    BY <2>1, <2>2, <2>3 DEF upload_root, OwnFiles, Store
  <2>4. CASE upload_metrics
    BY <2>1, <2>2, <2>4 DEF upload_metrics, OwnFiles, Store
  <2>5. CASE append_processed \/ upload_input
    <3>1. store'.root = store.root /\ store'.metrics = store.metrics
      BY <2>1, <2>5 DEF append_processed, upload_input, Store
    <3> QED BY <3>1
  <2>6. store' = store \/ upload_root \/ upload_metrics \/ append_processed \/ upload_input
    BY DEF Next, ScriptStep, wait_for_gpu, choose_block, check_store, find_generated_input,
         post_queued, post_proving, run_binary, read_proof, read_metrics, post_proved,
         upload_markdown, run_again, run_orphan, terminate, crash
  <2> QED BY <2>2, <2>3, <2>4, <2>5, <2>6
<1> QED BY <1>1, OwnHolds, PTL DEF Spec, SuccessStoresItsOwn

=============================================================================
