----------------------------- MODULE ProveBlock -----------------------------
(***************************************************************************)
(* server/prove_block.sh as a job runs it again and again: the choice of   *)
(* the block, the input and the proof that the benchmark binary writes     *)
(* into the job directory, the object store, processed_block.txt and the   *)
(* status API.  The script runs under "set -e"; where the code turns that  *)
(* off, a failing command is survived, elsewhere it ends the script.       *)
(*                                                                         *)
(* The binary writes its files in place (File::create, fs::write), so an   *)
(* interrupted write leaves a partial file under the final name.  SIGTERM  *)
(* from Job.stop reaches bash and not the binary: a stopped script leaves  *)
(* an orphan that goes on writing.  The binary of this repository writes   *)
(* the root proof only, so the branches for <block>_proof.json, which      *)
(* treat that file as those for the root proof do, are left out.           *)
(***************************************************************************)
EXTENDS Integers

CONSTANTS
  Head,          \* chain heads that eth_blockNumber answers
  GPU_READY_MAX_ATTEMPTS,
  MaxFaults,     \* bound on failing commands
  MaxKills       \* bound on SIGTERMs and on deaths of the container

ASSUME ScriptAssumption ==
  /\ Head # {}
  /\ Head \subseteq Nat
  /\ GPU_READY_MAX_ATTEMPTS \in Nat
  /\ MaxFaults \in Nat
  /\ MaxKills \in Nat

VARIABLES
  pinned,     \* BLOCK_NUMBER is set in the environment
  api_on,     \* CENO_STATUS_API_BASE_URL is set
  pc,         \* where the script is
  run,        \* the script's own variables
  disk,       \* the files of the job directory
  store,      \* the object store
  reported,   \* reported[b]: the proofs/proved post the API accepted
  orphans,    \* binaries whose script was stopped
  disturbed,  \* an orphan was alive when this run began
  faults, kills

env == <<pinned, api_on>>
vars == <<env, pc, run, disk, store, reported, orphans, disturbed, faults, kills>>

\* remainder=$(( BLOCK_NUMBER % 100 )), subtracted.
round_down(h) == h - (h % 100)

Block == {round_down(h) : h \in Head}
NoBlock == -1
File == {"none", "partial", "whole"}

\* cycles: the gauge is a positive integer.
Metrics == [of : Block \cup {NoBlock}, cycles : BOOLEAN]
NoMetrics == [of |-> NoBlock, cycles |-> FALSE]
Report == [proof : File, of : Block \cup {NoBlock}]
NoReport == [proof |-> "none", of |-> NoBlock]

MakeInput == {"make_input", "write_input"}
Prove == {"prove", "write_root", "write_metrics"}
Child == MakeInput \cup Prove
Script == {"gpu", "choose", "check_store", "find_input", "queue", "upload_input",
           "announce", "read_proof", "read_metrics", "report", "upload_root",
           "upload_metrics", "upload_markdown", "append", "exit"} \cup Child

Run == [attempts : Nat,                            \* gpu_check_attempt
        block : Block \cup {NoBlock},              \* BLOCK_NUMBER
        status : {"none", "ok", "error"},          \* of the proof command
        proof_b64 : File,                          \* what was read of the proof
        measured : Metrics,                        \* and of metrics.json
        code : {"none", "ok", "error", "gpu_unavailable"}]

Disk == [input : [Block -> File],                  \* block_data/input/<chain>/<b>.bin
         root : [Block -> File],                   \* <b>_root_proof.bin
         metrics : Metrics]                        \* metrics.json, for all blocks

Store == [input : [Block -> File],
          root : [Block -> File],
          metrics : [Block -> Block \cup {NoBlock}],
          processed : SUBSET Block]                \* lines of processed_block.txt

NewRun == [attempts |-> 0, block |-> NoBlock, status |-> "none", proof_b64 |-> "none",
           measured |-> NoMetrics, code |-> "none"]

Init ==
  /\ pinned \in BOOLEAN
  /\ api_on \in BOOLEAN
  /\ pc = "gpu"
  /\ run = NewRun
  /\ disk = [input |-> [b \in Block |-> "none"], root |-> [b \in Block |-> "none"],
             metrics |-> NoMetrics]
  /\ store = [input |-> [b \in Block |-> "none"], root |-> [b \in Block |-> "none"],
              metrics |-> [b \in Block |-> NoBlock], processed |-> {}]
  /\ reported = [b \in Block |-> NoReport]
  /\ orphans = {}
  /\ disturbed = FALSE
  /\ faults = 0
  /\ kills = 0

-----------------------------------------------------------------------------
(* A command of the script works or fails; the script goes on with r as    *)
(* its variables, or ends with an exit status.                             *)

works == faults' = faults
fails == faults < MaxFaults /\ faults' = faults + 1

goto(next, r) == pc' = next /\ run' = r
exit(how) == pc' = "exit" /\ run' = [NewRun EXCEPT !.code = how]

outside == <<env, orphans, disturbed, kills>>

-----------------------------------------------------------------------------
(* Before the proof.                                                       *)

\* One round of the loop: the device is there, is looked for again, or is
\* given up, and the exit status of the function ends the script.  The
\* counter is local to the function.
wait_for_gpu ==
  LET again == [run EXCEPT !.attempts = @ + 1]
  IN
  /\ pc = "gpu"
  /\ \/ works /\ goto("choose", [run EXCEPT !.attempts = 0])
     \/ works /\ again.attempts < GPU_READY_MAX_ATTEMPTS /\ goto("gpu", again)
     \/ works /\ again.attempts >= GPU_READY_MAX_ATTEMPTS /\ exit("gpu_unavailable")
  /\ UNCHANGED <<outside, disk, store, reported>>

\* A mutant: an empty answer of the node is not looked at.
choose_block_unchecked ==
  /\ pc = "choose"
  /\ works
  /\ \E b \in Block \cup {NoBlock} : goto("check_store", [run EXCEPT !.block = b])
  /\ UNCHANGED <<outside, disk, store, reported>>
\* With BLOCK_NUMBER set there is one block; otherwise the head decides, or
\* the node does not answer.
choose_block ==
  /\ pc = "choose"
  /\ works
  /\ \/ \E b \in IF pinned THEN {CHOOSE x \in Block : TRUE} ELSE Block :
          goto("check_store", [run EXCEPT !.block = b])
     \/ ~pinned /\ exit("error")
  /\ UNCHANGED <<outside, disk, store, reported>>

\* A mutant: the check looks for the generated input, which is uploaded first.
check_store_input ==
  /\ pc = "check_store"
  /\ works
  /\ IF ~pinned /\ store.input[run.block] # "none"
     THEN exit("ok")
     ELSE goto("find_input", run)
  /\ UNCHANGED <<outside, disk, store, reported>>
\* s5cmd ls: a listing that fails counts as no proof.
check_store ==
  /\ pc = "check_store"
  /\ IF ~pinned /\ store.root[run.block] # "none"
     THEN \/ works /\ exit("ok")
          \/ fails /\ goto("find_input", run)
     ELSE works /\ goto("find_input", run)
  /\ UNCHANGED <<outside, disk, store, reported>>

\* A file that is there is reused, and the queued post is then left out.
find_generated_input ==
  /\ pc = "find_input"
  /\ works
  /\ goto(IF disk.input[run.block] # "none" THEN "upload_input" ELSE "queue", run)
  /\ UNCHANGED <<outside, disk, store, reported>>

\* The answer is 409 once the block is proved.  An error status is printed
\* and survived; a curl that fails ends the script.
post_status(next) ==
  \/ ~api_on /\ works /\ goto(next, run)
  \/ /\ api_on
     /\ works
     /\ IF reported[run.block] # NoReport THEN exit("ok") ELSE goto(next, run)
  \/ api_on /\ fails /\ goto(next, run)
  \/ api_on /\ fails /\ exit("error")

post_queued ==
  /\ pc = "queue"
  /\ post_status("make_input")
  /\ UNCHANGED <<outside, disk, store, reported>>

\* Under set +e.
upload_input ==
  /\ pc = "upload_input"
  /\ \/ /\ works
        /\ goto("announce", run)
        /\ store' = [store EXCEPT !.input[run.block] = disk.input[run.block]]
     \/ fails /\ goto("announce", run) /\ store' = store
  /\ UNCHANGED <<outside, disk, reported>>

post_proving ==
  /\ pc = "announce"
  /\ post_status("prove")
  /\ UNCHANGED <<outside, disk, store, reported>>

-----------------------------------------------------------------------------
(* The benchmark binary, run by the script or as an orphan, at c for block *)
(* b.  While an orphan may be alive, two binaries may write one file.      *)

written(b) == IF disturbed /\ run.block = b THEN {"partial", "whole"} ELSE {"whole"}
metrics_of(b) == [of : {b}, cycles : BOOLEAN]

\* make-input asks the node and writes the file; prove-stark loads it, proves,
\* writes the root proof and, when everything has returned, the metrics.
binary_steps(c, b, next) ==
  \/ c = "make_input" /\ next = "write_input"
     /\ disk' = [disk EXCEPT !.input[b] = "partial"]
  \/ c = "write_input" /\ next = "done"
     /\ \E f \in written(b) : disk' = [disk EXCEPT !.input[b] = f]
  \/ c = "prove" /\ next = "write_root" /\ disk.input[b] = "whole"
     /\ disk' = [disk EXCEPT !.root[b] = "partial"]
  \/ c = "write_root" /\ next = "write_metrics"
     /\ \E f \in written(b) : disk' = [disk EXCEPT !.root[b] = f]
  \/ c = "write_metrics" /\ next = "done"
     /\ \E m \in metrics_of(b) : disk' = [disk EXCEPT !.metrics = m]

\* It panics, and writes nothing more, or returns an error, and still writes
\* the metrics.  An input that does not decode is a panic.
binary_fails(c, b) ==
  \/ fails /\ disk' = disk
  \/ fails /\ c \in Prove /\ \E m \in metrics_of(b) : disk' = [disk EXCEPT !.metrics = m]
  \/ works /\ c = "prove" /\ disk.input[b] # "whole" /\ disk' = disk

\* A mutant: status=$? comes after set -e, and is the status of that.
ended_zero(how) == goto("read_proof", [run EXCEPT !.status = "ok"])
ended(how) == goto("read_proof", [run EXCEPT !.status = how])

\* make-input runs under set -e, the proof command does not.
run_binary ==
  /\ pc \in Child
  /\ \/ /\ works
        /\ \E next \in Child \cup {"done"} :
             /\ binary_steps(pc, run.block, next)
             /\ CASE next # "done" -> goto(next, run)
                  [] next = "done" /\ pc \in MakeInput -> goto("upload_input", run)
                  [] OTHER -> ended("ok")
     \/ /\ binary_fails(pc, run.block)
        /\ IF pc \in MakeInput
           THEN exit("error")
           ELSE ended("error")
  /\ UNCHANGED <<outside, store, reported>>

\* The same for a binary nobody waits for.
run_orphan ==
  \E o \in orphans :
    /\ \/ /\ works
          /\ \E next \in Child \cup {"done"} :
               /\ binary_steps(o.at, o.block, next)
               /\ orphans' = (orphans \ {o}) \cup
                    IF next = "done" THEN {} ELSE {[at |-> next, block |-> o.block]}
       \/ binary_fails(o.at, o.block) /\ orphans' = orphans \ {o}
    /\ UNCHANGED <<env, pc, run, store, reported, disturbed, kills>>

-----------------------------------------------------------------------------
(* After the proof.                                                        *)

read_proof ==
  /\ pc = "read_proof"
  /\ works
  /\ goto("read_metrics", [run EXCEPT !.proof_b64 = disk.root[run.block]])
  /\ UNCHANGED <<outside, disk, store, reported>>

\* The gauges.  The table made of them is best effort and never read again.
read_metrics ==
  /\ pc = "read_metrics"
  /\ works
  /\ goto("report", [run EXCEPT !.measured = disk.metrics])
  /\ UNCHANGED <<outside, disk, store, reported>>

\* A mutant: the exit status of the proof command is not looked at.
provable_any_status == run.proof_b64 # "none" /\ run.measured.cycles
provable == run.status = "ok" /\ run.proof_b64 # "none" /\ run.measured.cycles

\* The post is accepted, refused with an error status, or curl fails, before
\* or after the API took it.  What was read is not used after this.
post_proved ==
  LET accepted == [reported EXCEPT ![run.block] =
                     IF @ = NoReport
                     THEN [proof |-> run.proof_b64, of |-> run.measured.of] ELSE @]
      rest == [run EXCEPT !.proof_b64 = "none", !.measured = NoMetrics]
  IN
  /\ pc = "report"
  /\ \/ ~(api_on /\ provable) /\ works /\ goto("upload_root", rest) /\ reported' = reported
     \/ api_on /\ provable /\ works /\ goto("upload_root", rest) /\ reported' = accepted
     \/ api_on /\ provable /\ fails /\ goto("upload_root", rest) /\ reported' = reported
     \/ /\ api_on /\ provable /\ fails
        /\ exit("error")
        /\ reported' \in {reported, accepted}
  /\ UNCHANGED <<outside, disk, store>>

\* Whatever file is there, whatever the status; under set +e.
upload_root ==
  /\ pc = "upload_root"
  /\ \/ /\ disk.root[run.block] = "none"
        /\ works /\ goto("upload_metrics", run) /\ store' = store
     \/ /\ disk.root[run.block] # "none"
        /\ works
        /\ goto("upload_metrics", run)
        /\ store' = [store EXCEPT !.root[run.block] = disk.root[run.block]]
     \/ /\ disk.root[run.block] # "none"
        /\ fails /\ goto("upload_metrics", run) /\ store' = store
  /\ UNCHANGED <<outside, disk, reported>>

\* set -e is on again: a copy that fails ends the script before upload_rc=$?.
upload_metrics ==
  /\ pc = "upload_metrics"
  /\ \/ /\ disk.metrics = NoMetrics
        /\ works /\ goto("upload_markdown", run) /\ store' = store
     \/ /\ disk.metrics # NoMetrics
        /\ works
        /\ goto("upload_markdown", run)
        /\ store' = [store EXCEPT !.metrics[run.block] = disk.metrics.of]
     \/ /\ disk.metrics # NoMetrics
        /\ fails /\ exit("error") /\ store' = store
  /\ UNCHANGED <<outside, disk, reported>>

upload_markdown ==
  /\ pc = "upload_markdown"
  /\ \/ works /\ goto("append", run)
     \/ /\ disk.metrics # NoMetrics
        /\ fails /\ exit("error")
  /\ UNCHANGED <<outside, disk, store, reported>>

\* The list is downloaded, a failure giving an empty one, and written back
\* with a line for the block.
append_processed ==
  LET put(old) == store' = [store EXCEPT !.processed = old \cup {run.block}]
  IN
  /\ pc = "append"
  /\ \/ works /\ put(store.processed) /\ exit(run.status)
     \/ fails /\ put({}) /\ exit(run.status)
     \/ fails /\ store' = store /\ exit(run.status)
  /\ UNCHANGED <<outside, disk, reported>>

-----------------------------------------------------------------------------
(* The job: _run_loop runs the script again; Job.stop terminates it, and   *)
(* a later start_proof runs a new one; the container dies and comes back.  *)

run_again ==
  /\ pc = "exit"
  /\ pc' = "gpu"
  /\ run' = NewRun
  /\ disturbed' = (orphans # {})
  /\ UNCHANGED <<env, disk, store, reported, orphans, faults, kills>>

terminate ==
  /\ kills < MaxKills
  /\ kills' = kills + 1
  /\ pc # "exit"
  /\ orphans' = IF pc \in Child THEN orphans \cup {[at |-> pc, block |-> run.block]}
                ELSE orphans
  /\ exit("error")
  /\ UNCHANGED <<env, disk, store, reported, disturbed, faults>>

crash ==
  /\ kills < MaxKills
  /\ kills' = kills + 1
  /\ orphans' = {}
  /\ exit("error")
  /\ UNCHANGED <<env, disk, store, reported, disturbed, faults>>

ScriptStep ==
  \/ wait_for_gpu \/ choose_block \/ check_store \/ find_generated_input
  \/ post_queued \/ upload_input \/ post_proving \/ run_binary
  \/ read_proof \/ read_metrics \/ post_proved
  \/ upload_root \/ upload_metrics \/ upload_markdown \/ append_processed
  \/ run_again

Next == ScriptStep \/ run_orphan \/ terminate \/ crash

Spec == Init /\ [][Next]_vars

(* The job's thread runs the script again and the kernel runs it.          *)
FairSpec == Spec /\ WF_vars(ScriptStep) /\ WF_vars(run_orphan)

-----------------------------------------------------------------------------
(* Properties.                                                             *)

(* Every variable has its type, and past the choice there is a block.      *)
TypeOK ==
  /\ pinned \in BOOLEAN
  /\ api_on \in BOOLEAN
  /\ pc \in Script
  /\ run \in Run
  /\ pc \notin {"gpu", "choose", "exit"} => run.block \in Block
  /\ disk \in Disk
  /\ store \in Store
  /\ reported \in [Block -> Report]
  /\ orphans \subseteq [at : Child, block : Block]
  /\ disturbed \in BOOLEAN
  /\ faults \in 0 .. MaxFaults
  /\ kills \in 0 .. MaxKills

(* A report that the status API takes carries a whole root proof and the   *)
(* cycles of its own block, although metrics.json is one file for all      *)
(* blocks and interrupted proofs leave theirs behind.  The exception is a  *)
(* run that began while the binary of a stopped script still ran.          *)
ReportsAreOfTheBlock ==
  [][\A b \in Block : reported'[b] # reported[b] =>
       disturbed \/ reported'[b] = [proof |-> "whole", of |-> b]]_vars

(* A run whose proof command succeeded stores a whole proof and metrics of *)
(* its own block, unless an orphan was alive when it began.  Runs that     *)
(* failed store what they find: a partial proof, or an earlier block's     *)
(* metrics under this block's name.                                        *)
SuccessStoresItsOwn ==
  [][\A b \in Block :
       run.status = "ok" /\ ~disturbed =>
         /\ store'.root[b] # store.root[b] => store'.root[b] = "whole"
         /\ store'.metrics[b] # store.metrics[b] => store'.metrics[b] = b]_vars

(* A block that is chosen again and again is settled: a whole proof of it  *)
(* is stored or reported.  Three files written half prevent that for ever, *)
(* each because its being there is all that is looked at: an input that an *)
(* interrupted make-input left, which is reused; a root proof that a run   *)
(* uploaded although its proof command had failed, which check_store then  *)
(* finds, unless BLOCK_NUMBER is set; a proof that was reported while the  *)
(* binary of a stopped script wrote the same file.                         *)
ChosenBlocksAreSettled ==
  \A b \in Block :
    []<>(pc = "check_store" /\ run.block = b) =>
      \/ <>(store.root[b] = "whole" \/ reported[b].proof = "whole")
      \/ <>[](disk.input[b] = "partial")
      \/ <>[](~pinned /\ store.root[b] = "partial")
      \/ <>[](reported[b].proof = "partial")
=============================================================================
