----------------------------- MODULE Supervisor -----------------------------
(***************************************************************************)
(* The container of the proving service: server/entrypoint.sh starts       *)
(* check_gpu.sh and uvicorn, waits for the first of them to end and starts *)
(* both again, except after status 75, which asks for a new container.     *)
(* check_gpu.sh follows the stderr.log of every job for lines that show a  *)
(* lost GPU.  The jobs directory outlives the container.                   *)
(*                                                                         *)
(* The jobs themselves are those of module JobServer, reduced to whether   *)
(* their manifest asks for them, whether a thread runs them and which      *)
(* scripts are alive; the scripts are those of module ProveBlock, reduced  *)
(* to the lines they write.  A trap of bash runs between two commands, so  *)
(* a signal that comes during "sleep" waits for its end.                   *)
(***************************************************************************)
EXTENDS Integers

CONSTANTS
  Jobs,
  GPU_READY_MAX_ATTEMPTS,
  GPU_UNAVAILABLE_EXIT_CODE,   \* 75
  MaxStacks,       \* bound on the stacks of one container
  MaxContainers,   \* bound on containers
  MaxGpuLosses,    \* bound on losses of the GPU
  MaxFaults        \* bound on processes that die by themselves

ASSUME SupervisorAssumption ==
  /\ GPU_READY_MAX_ATTEMPTS \in Nat /\ GPU_UNAVAILABLE_EXIT_CODE \in Nat \ {0, 1}
  /\ MaxStacks \in Nat /\ MaxContainers \in Nat /\ MaxGpuLosses \in Nat /\ MaxFaults \in Nat

VARIABLES
  startup_check,  \* STARTUP_GPU_CHECK is "1"
  gpu,            \* nvidia-smi lists devices ("ok"), none ("empty"), or fails ("stale")
  pc,             \* of entrypoint.sh
  attempt,        \* its gpu_check_attempt
  status,         \* its status, and its exit status in the end
  stack,          \* how often it has started the stack
  stopping,       \* it got SIGTERM or SIGINT
  check,          \* check_gpu.sh: [pc, signals, status]
  server,         \* uvicorn: [pc, signalled]
  threads,        \* jobs that a thread of this uvicorn runs
  scripts,        \* <<stack, job>>: prove_block.sh processes, by process group
  readers,        \* <<stack, job>>: pipelines tail | while that follow a log
  matched,        \* those of them that have read a line that matches
  wanted,         \* jobs that their manifests ask for
  log,            \* stderr.log of every job
  trouble,        \* the GPU or a binary has failed in this container
  check_died,     \* check_gpu.sh has died by itself
  containers, losses, faults

gpu_vars == <<gpu, losses>>
entrypoint_vars == <<pc, attempt, status, stack, stopping, containers, startup_check>>
job_vars == <<threads, scripts, wanted, log, trouble>>
watch_vars == <<readers, matched>>
fault_vars == <<faults, check_died>>
vars == <<gpu_vars, entrypoint_vars, check, server, job_vars, watch_vars, fault_vars>>

Stacks == 1 .. MaxStacks
NoCheck == [pc |-> "gone", signals |-> {}, status |-> 0]
NoServer == [pc |-> "dead", signalled |-> FALSE]

Init ==
  /\ startup_check \in BOOLEAN
  /\ gpu = "ok" /\ losses = 0
  /\ pc = "wait_for_gpu" /\ attempt = 0 /\ status = 0 /\ stack = 0 /\ stopping = FALSE
  /\ check = NoCheck /\ server = NoServer
  /\ threads = {} /\ scripts = {} /\ readers = {} /\ matched = {}
  /\ wanted = {} /\ log = [j \in Jobs |-> "none"]
  /\ trouble = FALSE /\ containers = 1 /\ faults = 0 /\ check_died = FALSE

Fault == faults < MaxFaults /\ faults' = faults + 1

-----------------------------------------------------------------------------
(* entrypoint.sh *)

(* Process 1 of the container ends, and every other one with it. *)
exit(code) ==
  /\ pc' = "exited" /\ status' = code
  /\ check' = NoCheck /\ server' = NoServer
  /\ threads' = {} /\ scripts' = {} /\ readers' = {} /\ matched' = {}

Goes(next) == pc' = next /\ UNCHANGED <<stack, stopping, containers, startup_check>>

(* The function returns 75 after the last attempt, and "set -e" exits. *)
wait_for_gpu ==
  /\ pc = "wait_for_gpu"
  /\ \/ /\ ~startup_check \/ gpu = "ok"
        /\ Goes("start_check") /\ attempt' = 0
        /\ UNCHANGED <<status, check, server, job_vars, watch_vars>>
     \/ /\ startup_check /\ gpu # "ok"
        /\ attempt' = attempt + 1 /\ trouble' = TRUE
        /\ IF attempt' >= GPU_READY_MAX_ATTEMPTS
           THEN exit(GPU_UNAVAILABLE_EXIT_CODE)
           ELSE UNCHANGED <<pc, status, check, server, threads, scripts, watch_vars>>
        /\ UNCHANGED <<stack, stopping, containers, startup_check, wanted, log>>

start_check ==
  /\ pc = "start_check" /\ stack < MaxStacks
  /\ pc' = "start_server" /\ stack' = stack + 1
  /\ check' = [pc |-> "scan", signals |-> {}, status |-> 0]
  /\ UNCHANGED <<attempt, status, stopping, containers, startup_check, server, job_vars,
                 watch_vars>>

start_server ==
  /\ pc = "start_server"
  /\ server' = [pc |-> "starting", signalled |-> FALSE]
  /\ Goes("wait")
  /\ UNCHANGED <<attempt, status, check, job_vars, watch_vars>>

(* wait -n: the status of one that has ended.  That of uvicorn is not 75. *)
wait_n ==
  /\ pc = "wait"
  /\ \/ check.pc = "gone" /\ status' = check.status
     \/ server.pc = "dead" /\ status' \in {0, 1}
  /\ Goes("terminate")
  /\ UNCHANGED <<attempt, check, server, job_vars, watch_vars>>

(* Mutants: only uvicorn is signalled; check_gpu.sh is not. *)
terminate_no_group ==
  /\ check' = IF check.pc = "gone" THEN check ELSE [check EXCEPT !.signals = @ \cup {"TERM"}]
  /\ server' = IF server.pc = "dead" THEN server ELSE [server EXCEPT !.signalled = TRUE]
  /\ UNCHANGED scripts
terminate_no_check ==
  /\ UNCHANGED check
  /\ server' = IF server.pc = "dead" THEN server ELSE [server EXCEPT !.signalled = TRUE]
  /\ scripts' = {s \in scripts : s[1] # stack}

(* uvicorn handles SIGTERM, the scripts of its process group die of it. *)
terminate_current_stack ==
  /\ check' = IF check.pc = "gone" THEN check ELSE [check EXCEPT !.signals = @ \cup {"TERM"}]
  /\ server' = IF server.pc = "dead" THEN server ELSE [server EXCEPT !.signalled = TRUE]
  /\ scripts' = {s \in scripts : s[1] # stack}

terminate ==
  /\ pc = "terminate"
  /\ terminate_current_stack
  /\ Goes("wait_server")
  /\ UNCHANGED <<attempt, status, threads, wanted, log, trouble, watch_vars>>

wait_server ==
  /\ pc = "wait_server" /\ server.pc = "dead"
  /\ Goes("wait_check")
  /\ UNCHANGED <<attempt, status, check, server, job_vars, watch_vars>>

(* The status of check_gpu.sh is dropped here. *)
wait_check ==
  /\ pc = "wait_check" /\ check.pc = "gone"
  /\ \/ /\ status = GPU_UNAVAILABLE_EXIT_CODE
        /\ exit(status)
        /\ UNCHANGED <<attempt, stack, stopping, containers, startup_check, wanted, log, trouble>>
     \/ /\ status # GPU_UNAVAILABLE_EXIT_CODE
        /\ Goes("wait_for_gpu")        \* after the delay
        /\ UNCHANGED <<attempt, status, check, server, job_vars, watch_vars>>

(* trap 'terminate_current_stack; exit 0' INT TERM *)
trap_term ==
  /\ stopping /\ pc # "exited"
  /\ exit(0)
  /\ UNCHANGED <<attempt, stack, stopping, containers, startup_check, wanted, log, trouble>>

entrypoint ==
  /\ \/ /\ ~stopping
        /\ \/ wait_for_gpu \/ start_check \/ start_server \/ wait_n \/ terminate
           \/ wait_server \/ wait_check
     \/ trap_term
  /\ UNCHANGED <<gpu_vars, fault_vars>>

-----------------------------------------------------------------------------
(* check_gpu.sh *)

(* Mutants: lines already in the log are read as well; the logs are looked for once. *)
follow_from_start(j) ==
  IF log[j] = "errors"
  THEN matched' = matched \cup {<<stack, j>>} /\ UNCHANGED readers
  ELSE readers' = readers \cup {<<stack, j>>} /\ UNCHANGED matched
woken_by_signals == check' = IF check.signals = {} THEN check ELSE [check EXCEPT !.pc = "scan"]

(* tail -n 0: from the end of the log. *)
follow(j) == readers' = readers \cup {<<stack, j>>} /\ UNCHANGED matched

Unwatched == {j \in Jobs : log[j] # "none" /\ <<stack, j>> \notin readers \cup matched}

start_watcher(j) ==
  /\ check.pc = "scan" /\ check.signals = {} /\ j \in Unwatched
  /\ follow(j)
  /\ UNCHANGED check

discover_logs ==
  /\ check.pc = "scan" /\ check.signals = {} /\ Unwatched = {}
  /\ check' = [check EXCEPT !.pc = "sleep"]
  /\ UNCHANGED watch_vars

woken == check' = [check EXCEPT !.pc = "scan"]
wake == check.pc = "sleep" /\ woken /\ UNCHANGED watch_vars

(* A handler kills the shells that wait for the pipelines, which go on.    *)
(* Bash runs the handler of USR1 before that of TERM.                      *)
handle_usr1 ==
  /\ check.pc = "scan" /\ "USR1" \in check.signals
  /\ check' = [NoCheck EXCEPT !.status = GPU_UNAVAILABLE_EXIT_CODE]
  /\ UNCHANGED watch_vars
handle_term ==
  /\ check.pc = "scan" /\ check.signals = {"TERM"}
  /\ check' = NoCheck
  /\ UNCHANGED watch_vars

check_gpu ==
  /\ (\E j \in Jobs : start_watcher(j)) \/ discover_logs \/ wake \/ handle_usr1 \/ handle_term
  /\ UNCHANGED <<gpu_vars, entrypoint_vars, server, job_vars, fault_vars>>

(* A pipeline signals the check_gpu.sh that started it, if that still runs. *)
signal(r) ==
  /\ r \in matched
  /\ matched' = matched \ {r}
  /\ check' = IF r[1] = stack /\ check.pc # "gone"
              THEN [check EXCEPT !.signals = @ \cup {"USR1"}] ELSE check
  /\ UNCHANGED <<gpu_vars, entrypoint_vars, server, job_vars, readers, fault_vars>>

-----------------------------------------------------------------------------
(* The server and its jobs (main.py), and the scripts (prove_block.sh)      *)

(* The startup hook: recover_jobs_from_disk, whether SIGTERM came or not.   *)
startup ==
  /\ server.pc = "starting"
  /\ server' = [server EXCEPT !.pc = "up"] /\ threads' = wanted
  /\ UNCHANGED <<gpu_vars, entrypoint_vars, check, scripts, wanted, log, trouble,
                 watch_vars, fault_vars>>

shutdown ==
  /\ server.pc = "up" /\ server.signalled
  /\ server' = NoServer /\ threads' = {}
  /\ UNCHANGED <<gpu_vars, entrypoint_vars, check, scripts, wanted, log, trouble,
                 watch_vars, fault_vars>>

start_proof(j) ==
  /\ server.pc = "up" /\ ~server.signalled /\ j \notin threads
  /\ threads' = threads \cup {j} /\ wanted' = wanted \cup {j}
  /\ UNCHANGED <<gpu_vars, entrypoint_vars, check, server, scripts, log, trouble,
                 watch_vars, fault_vars>>

stop_proof(j) ==
  /\ server.pc = "up" /\ ~server.signalled /\ j \in threads
  /\ threads' = threads \ {j} /\ wanted' = wanted \ {j}
  /\ scripts' = scripts \ {<<stack, j>>}
  /\ UNCHANGED <<gpu_vars, entrypoint_vars, check, server, log, trouble, watch_vars, fault_vars>>

(* _run_once opens stderr.log and starts the script. *)
run_once(j) ==
  /\ server.pc = "up" /\ j \in threads /\ <<stack, j>> \notin scripts
  /\ scripts' = scripts \cup {<<stack, j>>}
  /\ log' = [log EXCEPT ![j] = IF @ = "none" THEN "clean" ELSE @]
  /\ UNCHANGED <<gpu_vars, entrypoint_vars, check, server, threads, wanted, trouble,
                 watch_vars, fault_vars>>

(* A line that matches a pattern: every reader of the log gets it. *)
WritesError(j) ==
  LET following == {r \in readers : r[2] = j}
  IN  /\ log' = [log EXCEPT ![j] = "errors"] /\ trouble' = TRUE
      /\ readers' = readers \ following /\ matched' = matched \cup following
WritesNoError == UNCHANGED <<log, trouble, watch_vars>>

(* A failed query of nvidia-smi is in the patterns, a query without devices *)
(* is not; a proof that loses its device is.  The script polls or ends.     *)
script(s) ==
  /\ s \in scripts
  /\ \/ /\ gpu # "ok"
        /\ WritesError(s[2]) \/ (gpu = "empty" /\ WritesNoError)
        /\ scripts' \in {scripts, scripts \ {s}}
        /\ UNCHANGED faults
     \/ /\ gpu = "ok" /\ scripts' = scripts \ {s}
        /\ (WritesNoError /\ UNCHANGED faults) \/ (WritesError(s[2]) /\ Fault)
  /\ UNCHANGED <<gpu_vars, entrypoint_vars, check, server, threads, wanted, check_died>>

-----------------------------------------------------------------------------
(* Faults and what is outside the container *)

gpu_lost ==
  /\ gpu = "ok" /\ losses < MaxGpuLosses
  /\ gpu' \in {"empty", "stale"} /\ losses' = losses + 1
  /\ UNCHANGED <<entrypoint_vars, check, server, job_vars, watch_vars, fault_vars>>
gpu_back ==
  /\ gpu # "ok" /\ gpu' = "ok"
  /\ UNCHANGED <<losses, entrypoint_vars, check, server, job_vars, watch_vars, fault_vars>>

server_dies ==
  /\ server.pc # "dead" /\ Fault
  /\ server' = NoServer /\ threads' = {}
  /\ UNCHANGED <<gpu_vars, entrypoint_vars, check, scripts, wanted, log, trouble, watch_vars,
                 check_died>>
check_dies ==
  /\ check.pc # "gone" /\ Fault /\ check_died' = TRUE
  /\ check' = [NoCheck EXCEPT !.status = 1]
  /\ UNCHANGED <<gpu_vars, entrypoint_vars, server, job_vars, watch_vars>>
reader_dies(r) ==
  /\ r \in readers /\ Fault
  /\ readers' = readers \ {r}
  /\ UNCHANGED <<gpu_vars, entrypoint_vars, check, server, job_vars, matched, check_died>>

stop_container ==
  /\ pc # "exited" /\ ~stopping
  /\ stopping' = TRUE
  /\ UNCHANGED <<gpu_vars, pc, attempt, status, stack, containers, startup_check, check, server,
                 job_vars, watch_vars, fault_vars>>
new_container ==
  /\ pc = "exited" /\ containers < MaxContainers
  /\ pc' = "wait_for_gpu" /\ attempt' = 0 /\ status' = 0 /\ stack' = 0 /\ stopping' = FALSE
  /\ containers' = containers + 1 /\ trouble' = FALSE /\ gpu' \in {"ok", gpu}
  /\ UNCHANGED <<startup_check, losses, check, server, threads, scripts, wanted, log, watch_vars,
                 fault_vars>>

Pipes == Stacks \X Jobs
Next == \/ entrypoint \/ check_gpu \/ (\E r \in Pipes : signal(r))
        \/ startup \/ shutdown
        \/ \E j \in Jobs : start_proof(j) \/ stop_proof(j) \/ run_once(j)
        \/ \E s \in Pipes : script(s)
        \/ gpu_lost \/ gpu_back \/ server_dies \/ check_dies \/ (\E r \in Pipes : reader_dies(r))
        \/ stop_container \/ new_container

Spec == Init /\ [][Next]_vars

(* Every process of the container goes on; a script does not hang. *)
Fairness ==
  /\ WF_vars(entrypoint) /\ WF_vars(check_gpu)
  /\ WF_vars(startup) /\ WF_vars(shutdown)
  /\ \A r \in Pipes : WF_vars(signal(r)) /\ WF_vars(script(r))
  /\ \A j \in Jobs : WF_vars(run_once(j))
FairSpec == Spec /\ Fairness

-----------------------------------------------------------------------------
(* Properties *)

TypeOK ==
  /\ pc \in {"wait_for_gpu", "start_check", "start_server", "wait", "terminate",
            "wait_server", "wait_check", "exited"}
  /\ stack \in 0 .. MaxStacks /\ status \in {0, 1, GPU_UNAVAILABLE_EXIT_CODE}
  /\ check \in [pc : {"scan", "sleep", "gone"}, signals : SUBSET {"USR1", "TERM"},
                status : {0, 1, GPU_UNAVAILABLE_EXIT_CODE}]
  /\ server \in [pc : {"starting", "up", "dead"}, signalled : BOOLEAN]
  /\ threads \subseteq Jobs /\ wanted \subseteq Jobs
  /\ scripts \subseteq Stacks \X Jobs
  /\ readers \subseteq Stacks \X Jobs /\ matched \subseteq Stacks \X Jobs
  /\ log \in [Jobs -> {"none", "clean", "errors"}]
  /\ check_died \in BOOLEAN

(* The jobs directory is kept, so the logs hold the errors of earlier      *)
(* containers: none of them ends a new one.  Status 75 needs a failure of  *)
(* the GPU or of a binary in this container (tail -n 0, check_gpu.sh).     *)
OnlyNewErrorsEndTheContainer ==
  pc = "exited" /\ status = GPU_UNAVAILABLE_EXIT_CODE => trouble

(* Whatever ended the stack, no script of an earlier stack runs a job that *)
(* the new stack runs again (kill -- -UVICORN_PID, entrypoint.sh).  The    *)
(* group is signalled once: a server that is still up after that, because  *)
(* check_gpu.sh died first, may start a script that nothing ends.          *)
OneScriptPerJob ==
  ~check_died => \A s, t \in scripts : s[2] = t[2] => s = t

(* A stale device binding ends the container as long as some job goes on,  *)
(* with or without the check at startup, in whatever order uvicorn dies,   *)
(* a log appears and a pipeline is lost (README.md, "exits with status 75  *)
(* after detecting this condition").                                       *)
StaleGpuEndsTheContainer ==
  \A j \in Jobs :
    (gpu = "stale" /\ j \in wanted)
      ~> \/ gpu # "stale" \/ j \notin wanted \/ stopping
         \/ pc = "exited" /\ status = GPU_UNAVAILABLE_EXIT_CODE

(* When the server dies, entrypoint.sh never waits for ever for the rest   *)
(* of the stack: a server comes back or the container ends.                *)
ServerComesBack ==
  (server.pc = "dead" /\ pc # "exited") ~> (server.pc = "up" \/ pc = "exited")

=============================================================================
