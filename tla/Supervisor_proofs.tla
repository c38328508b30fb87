------------------------- MODULE Supervisor_proofs --------------------------
(***************************************************************************)
(* Proofs about module Supervisor, for every number of jobs, stacks,       *)
(* containers and faults: the types, that no job has two scripts as long   *)
(* as check_gpu.sh does not die by itself, and that a container asks for a *)
(* new one only after a failure of its own.                                *)
(***************************************************************************)
EXTENDS Supervisor, TLAPS

(* Something that belongs to a stack runs only after a stack was started.  *)
Started == stack >= 1
Typed ==
  /\ TypeOK
  /\ pc = "start_server" \/ server.pc # "dead" \/ check.pc # "gone" => Started
  /\ pc = "exited" => server.pc = "dead" /\ check.pc = "gone"

LEMMA InitTyped == Init => Typed
<1> SUFFICES ASSUME Init PROVE Typed
  OBVIOUS
<1>1. /\ check \in [pc : {"scan", "sleep", "gone"}, signals : SUBSET {"USR1", "TERM"},
                   status : {0, 1, GPU_UNAVAILABLE_EXIT_CODE}]
      /\ server \in [pc : {"starting", "up", "dead"}, signalled : BOOLEAN]
      /\ check.pc = "gone" /\ server.pc = "dead"
  BY DEF Init, NoCheck, NoServer
<1>2. log \in [Jobs -> {"none", "clean", "errors"}] /\ check_died \in BOOLEAN
  BY DEF Init
<1>3. stack \in 0 .. MaxStacks /\ pc = "wait_for_gpu"
  BY SupervisorAssumption DEF Init
<1> QED BY <1>1, <1>2, <1>3 DEF Init, Typed, TypeOK

LEMMA ExitTyped ==
  ASSUME Typed, NEW code \in {0, 1, GPU_UNAVAILABLE_EXIT_CODE}, exit(code),
         UNCHANGED <<stack, wanted, log, check_died>>
  PROVE  Typed'
BY DEF Typed, TypeOK, Started, exit, NoCheck, NoServer

LEMMA EntrypointTyped ==
  ASSUME Typed, entrypoint
  PROVE  Typed'
<1> USE DEF fault_vars
<1>0. UNCHANGED check_died
  BY DEF entrypoint
<1>1. CASE wait_for_gpu
  <2>1. CASE /\ Goes("start_check")
             /\ UNCHANGED <<status, check, server, job_vars, watch_vars>>
    BY <1>0, <2>1 DEF Typed, TypeOK, Started, Goes, job_vars, watch_vars
  <2>2. CASE exit(GPU_UNAVAILABLE_EXIT_CODE) /\ UNCHANGED <<stack, wanted, log>>
    BY <1>0, <2>2, ExitTyped
  <2>3. CASE /\ UNCHANGED <<pc, status, check, server, threads, scripts, watch_vars>>
             /\ UNCHANGED <<stack, wanted, log>>
    BY <1>0, <2>3 DEF Typed, TypeOK, Started, watch_vars
  <2> QED BY <1>1, <2>1, <2>2, <2>3 DEF wait_for_gpu
<1>2. CASE start_check
  BY <1>0, <1>2, SupervisorAssumption
     DEF start_check, Typed, TypeOK, Started, job_vars, watch_vars
<1>3. CASE start_server
  BY <1>0, <1>3 DEF start_server, Typed, TypeOK, Started, Goes, job_vars, watch_vars
<1>4. CASE wait_n
  BY <1>0, <1>4 DEF wait_n, Typed, TypeOK, Started, Goes, job_vars, watch_vars
<1>5. CASE terminate
  BY <1>0, <1>5 DEF terminate, terminate_current_stack, Typed, TypeOK, Started, Goes, watch_vars
<1>6. CASE wait_server
  BY <1>0, <1>6 DEF wait_server, Typed, TypeOK, Started, Goes, job_vars, watch_vars
<1>7. CASE wait_check
  <2>1. CASE exit(status) /\ UNCHANGED <<stack, wanted, log>>
    BY <1>0, <2>1, ExitTyped DEF Typed, TypeOK
  <2>2. CASE /\ Goes("wait_for_gpu")
             /\ UNCHANGED <<status, check, server, job_vars, watch_vars>>
    BY <1>0, <2>2 DEF Typed, TypeOK, Started, Goes, job_vars, watch_vars
  <2> QED BY <1>7, <2>1, <2>2 DEF wait_check
<1>8. CASE trap_term
  BY <1>0, <1>8, ExitTyped DEF trap_term
<1> QED BY <1>1, <1>2, <1>3, <1>4, <1>5, <1>6, <1>7, <1>8 DEF entrypoint

LEMMA WatchTyped ==
  ASSUME Typed, check_gpu \/ (\E r \in Pipes : signal(r)) \/ (\E r \in Pipes : reader_dies(r))
                  \/ check_dies
  PROVE  Typed'
<1> USE DEF Typed, TypeOK, Started, entrypoint_vars, job_vars, fault_vars, watch_vars
<1>1. ASSUME NEW j \in Jobs, start_watcher(j), UNCHANGED <<entrypoint_vars, server, job_vars, fault_vars>>
      PROVE  Typed'
  <2>1. <<stack, j>> \in Stacks \X Jobs
    BY <1>1, SupervisorAssumption DEF start_watcher, Stacks
  <2> QED BY <1>1, <2>1 DEF start_watcher, follow
<1>2. CASE discover_logs /\ UNCHANGED <<entrypoint_vars, server, job_vars, fault_vars>>
  BY <1>2 DEF discover_logs
<1>3. CASE wake /\ UNCHANGED <<entrypoint_vars, server, job_vars, fault_vars>>
  BY <1>3 DEF wake, woken
<1>4. CASE (handle_usr1 \/ handle_term) /\ UNCHANGED <<entrypoint_vars, server, job_vars, fault_vars>>
  BY <1>4 DEF handle_usr1, handle_term, NoCheck
<1>5. ASSUME NEW r \in Pipes, signal(r)
      PROVE  Typed'
  BY <1>5 DEF signal
<1>6. ASSUME NEW r \in Pipes, reader_dies(r)
      PROVE  Typed'
  BY <1>6 DEF reader_dies
<1>7. CASE check_dies
  BY <1>7 DEF check_dies, NoCheck
<1> QED BY <1>1, <1>2, <1>3, <1>4, <1>5, <1>6, <1>7 DEF check_gpu

LEMMA JobsTyped ==
  ASSUME Typed,
         \/ startup \/ shutdown \/ server_dies
         \/ \E j \in Jobs : start_proof(j) \/ stop_proof(j) \/ run_once(j)
         \/ \E s \in Pipes : script(s)
  PROVE  Typed'
<1> USE DEF Typed, TypeOK, Started, entrypoint_vars, watch_vars, fault_vars
<1>1. CASE startup
  BY <1>1 DEF startup
<1>5. CASE shutdown \/ server_dies
  <2>1. NoServer \in [pc : {"starting", "up", "dead"}, signalled : BOOLEAN] /\ NoServer.pc = "dead"
    BY DEF NoServer
  <2>2. server' = NoServer /\ threads' = {} /\ check_died' = check_died
        /\ UNCHANGED <<entrypoint_vars, check, scripts, wanted, log, watch_vars>>
    BY <1>5 DEF shutdown, server_dies
  <2> QED BY <2>1, <2>2
<1>2. ASSUME NEW j \in Jobs, start_proof(j) \/ stop_proof(j)
      PROVE  Typed'
  BY <1>2 DEF start_proof, stop_proof
<1>3. ASSUME NEW j \in Jobs, run_once(j)
      PROVE  Typed'
  <2>1. <<stack, j>> \in Stacks \X Jobs
    BY <1>3, SupervisorAssumption DEF run_once, Stacks
  <2> QED BY <1>3, <2>1 DEF run_once
<1>4. ASSUME NEW s \in Pipes, script(s)
      PROVE  Typed'
  <2>1. scripts' \subseteq scripts /\ UNCHANGED <<pc, stack, status, check, server, threads, wanted, check_died>>
    BY <1>4 DEF script
  <2>2. s[2] \in Jobs
    BY DEF Pipes
  <2>3. CASE WritesError(s[2])
    BY <2>1, <2>2, <2>3 DEF WritesError
  <2>4. CASE WritesNoError
    BY <2>1, <2>4 DEF WritesNoError
  <2> QED BY <1>4, <2>3, <2>4 DEF script
<1> QED BY <1>1, <1>2, <1>3, <1>4, <1>5

LEMMA StepTyped == Typed /\ [Next]_vars => Typed'
<1> SUFFICES ASSUME Typed, [Next]_vars PROVE Typed'
  OBVIOUS
<1>1. CASE UNCHANGED vars \/ gpu_lost \/ gpu_back \/ stop_container
  BY <1>1 DEF vars, gpu_lost, gpu_back, stop_container, Typed, TypeOK, Started,
       entrypoint_vars, job_vars, watch_vars, fault_vars
<1>2. CASE new_container
  BY <1>2, SupervisorAssumption DEF new_container, Typed, TypeOK, Started, watch_vars, fault_vars
<1> QED BY <1>1, <1>2, EntrypointTyped, WatchTyped, JobsTyped DEF Next

(* Types hold in every reachable state of the container.                   *)
THEOREM SupervisorType == Spec => []TypeOK
<1>1. Typed => TypeOK
  BY DEF Typed
<1> QED BY InitTyped, StepTyped, <1>1, PTL DEF Spec

-----------------------------------------------------------------------------
(* One script for each job *)

(* A stack that is not the last of its container is over before the next   *)
(* one starts: it was left because uvicorn had ended, and then the group   *)
(* was killed; or because of status 75, and then there is no next one.     *)
Restarting == {"wait_for_gpu", "start_check", "start_server"}
Awaiting == {"wait_server", "wait_check"}
Empty == server.pc = "dead" /\ scripts = {}
Ends == status = GPU_UNAVAILABLE_EXIT_CODE
Unasked == check.pc = "gone" => check.status = GPU_UNAVAILABLE_EXIT_CODE

StackInv ==
  /\ \A s \in scripts : s[1] = stack
  /\ pc \in Restarting \cup {"exited"} => Empty
  /\ pc \in Awaiting => Ends \/ Empty
  /\ pc = "terminate" => Ends \/ server.pc = "dead"
  /\ pc \in {"start_server", "wait"} => Unasked
  /\ "TERM" \in check.signals => pc \in Awaiting
  /\ check.pc = "gone" => check.signals = {}
OneInv == Typed /\ (~check_died => StackInv)

LEMMA ExitOne ==
  ASSUME NEW code, exit(code)
  PROVE  StackInv'
BY DEF exit, StackInv, Restarting, Awaiting, Empty, NoCheck, NoServer

LEMMA EntrypointOne ==
  ASSUME Typed, StackInv, entrypoint
  PROVE  StackInv'
<1> USE DEF Restarting, Awaiting, Empty, Ends, Unasked
<1>1. CASE wait_for_gpu
  <2>1. CASE exit(GPU_UNAVAILABLE_EXIT_CODE)
    BY <2>1, ExitOne
  <2>2. CASE ~exit(GPU_UNAVAILABLE_EXIT_CODE)
    <3>1. /\ pc = "wait_for_gpu" /\ pc' \in {"wait_for_gpu", "start_check"}
          /\ UNCHANGED <<stack, check, server, scripts>>
      BY <1>1, <2>2 DEF wait_for_gpu, Goes, job_vars
    <3> QED BY <3>1 DEF StackInv
  <2> QED BY <2>1, <2>2
<1>2. CASE start_check
  BY <1>2 DEF start_check, StackInv, job_vars
<1>3. CASE start_server
  BY <1>3 DEF start_server, Goes, StackInv, job_vars
<1>4. CASE wait_n
  BY <1>4 DEF wait_n, Goes, StackInv, job_vars
<1>5. CASE terminate
  <2>1. /\ pc = "terminate" /\ pc' = "wait_server" /\ UNCHANGED <<stack, status>>
        /\ scripts' = {s \in scripts : s[1] # stack}
        /\ server.pc = "dead" => server' = server
        /\ check.pc = "gone" => check' = check
        /\ check.pc # "gone" => check' = [check EXCEPT !.signals = @ \cup {"TERM"}]
    BY <1>5 DEF terminate, terminate_current_stack, Goes
  <2>2. scripts' = {}
    BY <2>1 DEF StackInv
  <2>3. check'.pc = "gone" => check'.signals = {}
    BY <2>1 DEF StackInv, Typed, TypeOK
  <2> QED BY <2>1, <2>2, <2>3 DEF StackInv
<1>6. CASE wait_server
  BY <1>6 DEF wait_server, Goes, StackInv, job_vars
<1>7. CASE wait_check
  <2>1. CASE exit(status)
    BY <2>1, ExitOne
  <2>2. CASE /\ pc = "wait_check" /\ check.pc = "gone" /\ ~Ends /\ Goes("wait_for_gpu")
             /\ UNCHANGED <<status, check, server, job_vars>>
    BY <2>2 DEF Goes, StackInv, job_vars
  <2> QED BY <1>7, <2>1, <2>2 DEF wait_check
<1>8. CASE trap_term
  BY <1>8, ExitOne DEF trap_term
<1> QED BY <1>1, <1>2, <1>3, <1>4, <1>5, <1>6, <1>7, <1>8 DEF entrypoint

LEMMA WatchOne ==
  ASSUME Typed, StackInv,
         check_gpu \/ (\E r \in Pipes : signal(r)) \/ (\E r \in Pipes : reader_dies(r))
  PROVE  StackInv'
<1> USE DEF StackInv, Restarting, Awaiting, Empty, Ends, Unasked, entrypoint_vars, job_vars
<1>0. check \in [pc : {"scan", "sleep", "gone"}, signals : SUBSET {"USR1", "TERM"},
                 status : {0, 1, GPU_UNAVAILABLE_EXIT_CODE}]
  BY DEF Typed, TypeOK
<1>1. CASE check_gpu
  <2>1. UNCHANGED <<entrypoint_vars, server, job_vars>>
    BY <1>1 DEF check_gpu
  <2>2. CASE UNCHANGED check
    BY <2>1, <2>2
  <2>3. CASE discover_logs \/ wake
    BY <1>0, <2>1, <2>3 DEF discover_logs, wake, woken
  <2>4. CASE handle_usr1
    BY <2>1, <2>4 DEF handle_usr1, NoCheck
  <2>5. CASE handle_term
    BY <2>1, <2>5 DEF handle_term, NoCheck
  <2> QED BY <1>1, <2>2, <2>3, <2>4, <2>5 DEF check_gpu, start_watcher
<1>2. ASSUME NEW r \in Pipes, signal(r)
      PROVE  StackInv'
  BY <1>0, <1>2 DEF signal
<1>3. ASSUME NEW r \in Pipes, reader_dies(r)
      PROVE  StackInv'
  BY <1>3 DEF reader_dies
<1> QED BY <1>1, <1>2, <1>3

LEMMA JobsOne ==
  ASSUME Typed, StackInv,
         \/ startup \/ shutdown \/ server_dies
         \/ \E j \in Jobs : start_proof(j) \/ stop_proof(j) \/ run_once(j)
         \/ \E s \in Pipes : script(s)
  PROVE  StackInv'
<1> USE DEF StackInv, Restarting, Awaiting, Empty, Ends, Unasked, entrypoint_vars
<1>1. UNCHANGED <<pc, stack, status, check>>
  BY DEF startup, shutdown, server_dies, start_proof, stop_proof, run_once, script
<1>2. CASE startup \/ shutdown \/ server_dies
  <2>1. scripts' = scripts /\ (server.pc = "dead" => server'.pc = "dead")
    BY <1>2 DEF startup, shutdown, server_dies, NoServer
  <2> QED BY <1>1, <2>1
<1>3. ASSUME NEW j \in Jobs, start_proof(j) \/ stop_proof(j)
      PROVE  StackInv'
  <2>1. scripts' \subseteq scripts /\ server' = server
    BY <1>3 DEF start_proof, stop_proof
  <2> QED BY <1>1, <2>1
<1>4. ASSUME NEW j \in Jobs, run_once(j)
      PROVE  StackInv'
  <2>1. server.pc = "up" /\ server' = server /\ scripts' = scripts \cup {<<stack, j>>}
    BY <1>4 DEF run_once
  <2> QED BY <1>1, <2>1
<1>5. ASSUME NEW s \in Pipes, script(s)
      PROVE  StackInv'
  <2>1. scripts' \subseteq scripts /\ server' = server
    BY <1>5 DEF script
  <2> QED BY <1>1, <2>1
<1> QED BY <1>2, <1>3, <1>4, <1>5

LEMMA StepOne == OneInv /\ [Next]_vars => OneInv'
<1> SUFFICES ASSUME OneInv, [Next]_vars, ~check_died' PROVE StackInv'
  BY StepTyped DEF OneInv
<1>0. Typed
  BY DEF OneInv
<1>1. ASSUME UNCHANGED check_died PROVE StackInv
  BY <1>1 DEF OneInv
<1>2. CASE entrypoint
  BY <1>0, <1>1, <1>2, EntrypointOne DEF entrypoint, fault_vars
<1>3. CASE check_gpu \/ (\E r \in Pipes : signal(r)) \/ (\E r \in Pipes : reader_dies(r))
  <2>1. UNCHANGED check_died
    BY <1>3 DEF check_gpu, signal, reader_dies, fault_vars
  <2> QED BY <1>0, <1>1, <1>3, <2>1, WatchOne
<1>4. CASE \/ startup \/ shutdown \/ server_dies
           \/ \E j \in Jobs : start_proof(j) \/ stop_proof(j) \/ run_once(j)
           \/ \E s \in Pipes : script(s)
  <2>1. UNCHANGED check_died
    BY <1>4 DEF startup, shutdown, server_dies, start_proof, stop_proof, run_once, script, fault_vars
  <2> QED BY <1>0, <1>1, <1>4, <2>1, JobsOne
<1>5. CASE UNCHANGED vars \/ gpu_lost \/ gpu_back \/ stop_container
  BY <1>1, <1>5 DEF vars, gpu_lost, gpu_back, stop_container, entrypoint_vars, job_vars,
       fault_vars, StackInv, Empty, Ends, Unasked
<1>6. CASE new_container
  <2>1. /\ pc = "exited" /\ pc' = "wait_for_gpu" /\ StackInv
        /\ UNCHANGED <<check, server, scripts>>
    BY <1>1, <1>6 DEF new_container, fault_vars
  <2> QED BY <2>1 DEF StackInv, Restarting, Awaiting, Empty
<1>7. ~check_dies
  BY DEF check_dies
<1> QED BY <1>2, <1>3, <1>4, <1>5, <1>6, <1>7 DEF Next

(* terminate_current_stack and the two waits of entrypoint.sh are enough:  *)
(* however uvicorn, the pipelines and the scripts die, and however often   *)
(* the stack is started, a job has one script, unless check_gpu.sh died.   *)
THEOREM NoScriptIsLeftBehind == Spec => []OneScriptPerJob
<1>1. Init => OneInv
  BY InitTyped DEF Init, OneInv, StackInv, Restarting, Awaiting, Empty, NoCheck, NoServer
<1>2. OneInv => OneScriptPerJob
  <2> SUFFICES ASSUME OneInv, ~check_died, NEW s \in scripts, NEW t \in scripts, s[2] = t[2]
               PROVE  s = t
    BY DEF OneScriptPerJob
  <2>1. s[1] = stack /\ t[1] = stack
    BY DEF OneInv, StackInv
  <2>2. s \in Stacks \X Jobs /\ t \in Stacks \X Jobs
    BY DEF OneInv, Typed, TypeOK
  <2> QED BY <2>1, <2>2
<1> QED BY <1>1, <1>2, StepOne, PTL DEF Spec

-----------------------------------------------------------------------------
(* Status 75 has a cause in its own container *)

(* Status 75 on its way: a pipeline that has read an error, the signal it  *)
(* sends, the status of check_gpu.sh and that of entrypoint.sh.  The log   *)
(* is not on it, since a pipeline starts at the end of the log.            *)
Asked == \/ matched # {} \/ "USR1" \in check.signals
         \/ check.status = GPU_UNAVAILABLE_EXIT_CODE \/ status = GPU_UNAVAILABLE_EXIT_CODE
Over == check = NoCheck /\ matched = {} /\ scripts = {}
CauseInv == (Asked => trouble) /\ (pc = "exited" => Over)

LEMMA ExitCause ==
  ASSUME NEW code, exit(code), code = GPU_UNAVAILABLE_EXIT_CODE => trouble'
  PROVE  CauseInv'
BY SupervisorAssumption DEF exit, CauseInv, Asked, Over, NoCheck

LEMMA EntrypointCause ==
  ASSUME Typed, CauseInv, entrypoint
  PROVE  CauseInv'
<1> USE DEF CauseInv, Asked
<1>1. CASE wait_for_gpu
  <2>1. CASE exit(GPU_UNAVAILABLE_EXIT_CODE) /\ trouble' = TRUE
    BY <2>1, ExitCause
  <2>2. CASE ~exit(GPU_UNAVAILABLE_EXIT_CODE)
    <3>1. /\ pc' \in {"wait_for_gpu", "start_check"} /\ UNCHANGED <<status, check, matched>>
          /\ trouble' = trouble \/ trouble'
      BY <1>1, <2>2 DEF wait_for_gpu, Goes, job_vars, watch_vars
    <3> QED BY <3>1
  <2> QED BY <1>1, <2>1, <2>2 DEF wait_for_gpu, Goes, exit
<1>2. CASE start_check
  BY <1>2, SupervisorAssumption DEF start_check, job_vars, watch_vars
<1>3. CASE start_server \/ wait_server
  BY <1>3 DEF start_server, wait_server, Goes, job_vars, watch_vars
<1>4. CASE wait_n
  BY <1>4, SupervisorAssumption DEF wait_n, Goes, job_vars, watch_vars
<1>5. CASE terminate
  <2>1. /\ pc' = "wait_server" /\ UNCHANGED <<status, trouble, matched>>
        /\ check' = check \/ check' = [check EXCEPT !.signals = @ \cup {"TERM"}]
    BY <1>5 DEF terminate, terminate_current_stack, Goes, watch_vars
  <2>2. check'.status = check.status /\ ("USR1" \in check'.signals => "USR1" \in check.signals)
    BY <2>1 DEF Typed, TypeOK
  <2> QED BY <2>1, <2>2
<1>6. CASE wait_check
  <2>1. CASE exit(status) /\ UNCHANGED trouble
    BY <2>1, ExitCause
  <2>2. CASE Goes("wait_for_gpu") /\ UNCHANGED <<status, check, server, job_vars, watch_vars>>
    BY <2>2 DEF Goes, job_vars, watch_vars
  <2> QED BY <1>6, <2>1, <2>2 DEF wait_check
<1>7. CASE trap_term
  <2>1. exit(0) /\ 0 # GPU_UNAVAILABLE_EXIT_CODE
    BY <1>7, SupervisorAssumption DEF trap_term
  <2> QED BY <2>1, ExitCause
<1> QED BY <1>1, <1>2, <1>3, <1>4, <1>5, <1>6, <1>7 DEF entrypoint

LEMMA WatchCause ==
  ASSUME Typed, CauseInv,
         \/ check_gpu \/ check_dies
         \/ \E r \in Pipes : signal(r) \/ reader_dies(r)
  PROVE  CauseInv'
<1> USE DEF CauseInv, Asked, Over, entrypoint_vars, job_vars, watch_vars
<1>0. check \in [pc : {"scan", "sleep", "gone"}, signals : SUBSET {"USR1", "TERM"},
                 status : {0, 1, GPU_UNAVAILABLE_EXIT_CODE}]
  BY DEF Typed, TypeOK
<1>1. CASE check_gpu
  <2>1. UNCHANGED <<entrypoint_vars, job_vars>>
    BY <1>1 DEF check_gpu
  <2>2. check.pc # "gone" /\ UNCHANGED matched
    BY <1>1 DEF check_gpu, start_watcher, follow, discover_logs, wake, handle_usr1, handle_term
  <2>3. pc # "exited"
    BY <2>2 DEF Typed
  <2>4. CASE (\E j \in Jobs : start_watcher(j)) \/ discover_logs \/ wake
    <3>1. check'.signals = check.signals /\ check'.status = check.status
      BY <1>0, <2>4 DEF start_watcher, discover_logs, wake, woken
    <3> QED BY <2>1, <2>2, <2>3, <3>1
  <2>5. CASE handle_usr1
    BY <2>1, <2>2, <2>3, <2>5 DEF handle_usr1
  <2>6. CASE handle_term
    <3>1. check'.signals = {} /\ check'.status = 0
      BY <2>6 DEF handle_term, NoCheck
    <3> QED BY <2>1, <2>2, <2>3, <3>1, SupervisorAssumption
  <2> QED BY <1>1, <2>4, <2>5, <2>6 DEF check_gpu
<1>2. ASSUME NEW r \in Pipes, signal(r)
      PROVE  CauseInv'
  <2>1. /\ matched # {} /\ matched' \subseteq matched /\ UNCHANGED <<pc, status, trouble, scripts>>
    BY <1>2 DEF signal
  <2> QED BY <2>1
<1>3. ASSUME NEW r \in Pipes, reader_dies(r)
      PROVE  CauseInv'
  BY <1>3 DEF reader_dies
<1>4. CASE check_dies
  <2>1. /\ check'.signals = {} /\ check'.status = 1 /\ check.pc # "gone"
        /\ UNCHANGED <<pc, status, trouble, matched, scripts>>
    BY <1>4 DEF check_dies, NoCheck
  <2>2. pc # "exited"
    BY <2>1 DEF Typed
  <2> QED BY <2>1, <2>2, SupervisorAssumption
<1> QED BY <1>1, <1>2, <1>3, <1>4

LEMMA JobsCause ==
  ASSUME Typed, CauseInv,
         \/ startup \/ shutdown \/ server_dies
         \/ \E j \in Jobs : start_proof(j) \/ stop_proof(j) \/ run_once(j)
         \/ \E s \in Pipes : script(s)
  PROVE  CauseInv'
<1> USE DEF CauseInv, Asked, Over, entrypoint_vars, watch_vars
<1>1. CASE \E s \in Pipes : script(s)
  <2>1. /\ scripts # {} /\ UNCHANGED <<pc, status, check>>
        /\ trouble' = TRUE \/ UNCHANGED <<trouble, matched>>
    BY <1>1 DEF script, WritesError, WritesNoError
  <2> QED BY <2>1
<1>2. ASSUME NEW j \in Jobs, run_once(j)
      PROVE  CauseInv'
  <2>1. server.pc = "up" /\ UNCHANGED <<pc, status, check, matched, trouble>>
    BY <1>2 DEF run_once
  <2> QED BY <2>1 DEF Typed
<1>3. CASE \/ startup \/ shutdown \/ server_dies
           \/ \E j \in Jobs : start_proof(j) \/ stop_proof(j)
  <2>1. UNCHANGED <<pc, status, check, matched, trouble>> /\ scripts' \subseteq scripts
    BY <1>3 DEF startup, shutdown, server_dies, start_proof, stop_proof
  <2> QED BY <2>1
<1> QED BY <1>1, <1>2, <1>3

LEMMA StepCause == Typed /\ CauseInv /\ [Next]_vars => CauseInv'
<1> SUFFICES ASSUME Typed, CauseInv, [Next]_vars PROVE CauseInv'
  OBVIOUS
<1>1. CASE UNCHANGED vars \/ gpu_lost \/ gpu_back \/ stop_container
  BY <1>1 DEF vars, gpu_lost, gpu_back, stop_container, entrypoint_vars, job_vars, watch_vars,
       CauseInv, Asked, Over
<1>2. CASE new_container
  <2>1. Over /\ pc' = "wait_for_gpu" /\ status' = 0 /\ UNCHANGED <<check, matched>>
    BY <1>2 DEF new_container, watch_vars, CauseInv
  <2> QED BY <2>1, SupervisorAssumption DEF CauseInv, Asked, Over, NoCheck
<1> QED BY <1>1, <1>2, EntrypointCause, WatchCause, JobsCause DEF Next

(* Logs are kept from container to container, and still the errors of an   *)
(* earlier one never end a new one: the way from a line of the log to      *)
(* status 75 begins in the container that it ends.                         *)
THEOREM OldErrorsAreHarmless == Spec => []OnlyNewErrorsEndTheContainer
<1>1. Init => CauseInv
  BY SupervisorAssumption DEF Init, CauseInv, Asked, NoCheck
<1>2. CauseInv => OnlyNewErrorsEndTheContainer
  BY DEF CauseInv, Asked, OnlyNewErrorsEndTheContainer
<1> QED BY <1>1, <1>2, InitTyped, StepTyped, StepCause, PTL DEF Spec
=============================================================================
