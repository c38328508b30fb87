-------------------------- MODULE JobServer_proofs --------------------------
(***************************************************************************)
(* Proofs about JobServer: for any uuids and any bounds on jobs, crashes   *)
(* and faults, a uuid has one runner, and a wanted job survives crashes.   *)
(*                                                                         *)
(* OneRunnerPerUuid is made inductive by JobsAreOwned, which says which    *)
(* job the request under way works on.  WantedJobIsKept is made inductive  *)
(* by WantedJobsSurvive, which follows the job through its manifest while  *)
(* the server is down and while manifests are read, and by RecoveryIsAlone *)
(* (no thread saves a manifest that recovery has yet to read).             *)
(* OneScriptPerDirectory rests on where in its loop a thread may have a    *)
(* process as long as nothing fails (OneProcess), and on a stop that waits *)
(* for what it signalled before it forgets the job (SignalledIsGone).      *)
(***************************************************************************)
EXTENDS JobServer, TLAPS

\* What begin_start does with job j.
Begun(pc, u, j) ==
  /\ j = IF JOBS[u] = 0 THEN made + 1 ELSE JOBS[u]
  /\ j <= made'
  /\ made <= made'
  /\ JOBS' = [JOBS EXCEPT ![u] = j]
  /\ uuid' = [uuid EXCEPT ![j] = u]
  /\ stop_event' = [stop_event EXCEPT ![j] = FALSE]
  /\ handler' = [pc |-> pc, of |-> u, job |-> j]

\* Job.start works on a job that JOBS holds from then on.
LEMMA BeginStart ==
  ASSUME TypeHandler, TypeThreads, NEW u \in Uuid, NEW pc, begin_start(pc, u)
  PROVE \E j \in Job : Begun(pc, u, j)
<1>. DEFINE j == IF JOBS[u] = 0 THEN made + 1 ELSE JOBS[u]
<1>1. /\ JOBS[u] = 0 => made < MaxJobs
      /\ JOBS' = [JOBS EXCEPT ![u] = j]
      /\ made' = IF JOBS[u] = 0 THEN made + 1 ELSE made
      /\ uuid' = [uuid EXCEPT ![j] = u]
      /\ stop_event' = [stop_event EXCEPT ![j] = FALSE]
      /\ handler' = [pc |-> pc, of |-> u, job |-> j]
  BY Zenon DEF begin_start
<1>2. JOBS[u] \in 0 .. made /\ made \in 0 .. MaxJobs
  BY DEF TypeHandler
<1>3. j \in Job /\ j <= made' /\ made <= made'
  BY <1>1, <1>2, BoundsAssumption DEF Job
<1>. QED
  BY <1>1, <1>3, Zenon DEF Begun


\* Every step keeps the types of JOBS and of the request under way.
LEMMA TypeHandlerStep ==
  ASSUME TypeHandler, TypeThreads, TypeRest, [Next]_vars
  PROVE TypeHandler'
<1>. USE BoundsAssumption DEF TypeHandler, Idle, HandlerPc, handler_vars, thread_vars
<1>1. CASE start_open
  BY <1>1 DEF start_open, open_manifest
<1>2. CASE start_write
  BY <1>2 DEF start_write, write_manifest
<1>3. CASE start_fails
  BY <1>3 DEF start_fails, save_fails
<1>4. CASE stop_read
  BY <1>4 DEF stop_read
<1>5. CASE stop_open
  BY <1>5 DEF stop_open, open_manifest
<1>6. CASE stop_write
  BY <1>6 DEF stop_write, write_manifest
<1>7. CASE stop_fails
  BY <1>7 DEF stop_fails, save_fails
<1>8. CASE state_poll
  BY <1>8 DEF state_poll
<1>9. CASE state_error
  BY <1>9 DEF state_error
<1>10. CASE recover_fails
  BY <1>10 DEF recover_fails, save_fails, server_ends
<1>11. CASE crash
  BY <1>11 DEF crash, server_ends
<1>12. CASE restart
  BY <1>12 DEF restart
<1>13. ASSUME NEW u \in Uuid, start_proof(u) PROVE TypeHandler'
  BY <1>13 DEF start_proof, begin_start, Serving
<1>14. ASSUME NEW u \in Uuid, stop_proof(u) PROVE TypeHandler'
  BY <1>14 DEF stop_proof, Serving
<1>15. ASSUME NEW u \in Uuid, get_proof_state(u) PROVE TypeHandler'
  BY <1>15 DEF get_proof_state, Serving
<1>16. ASSUME NEW u \in Uuid, recover_job(u) PROVE TypeHandler'
  BY <1>16 DEF recover_job, begin_start
<1>17. ASSUME NEW j \in Job, loop(j),
       UNCHANGED <<up, handler_vars, asked, crashes>> PROVE TypeHandler'
  BY <1>17 DEF loop
<1>18. ASSUME NEW j \in Job, popen(j),
       UNCHANGED <<up, handler_vars, asked, crashes>> PROVE TypeHandler'
  BY <1>18 DEF popen
<1>19. ASSUME NEW j \in Job, popen_fails(j),
       UNCHANGED <<up, handler_vars, asked, crashes>> PROVE TypeHandler'
  BY <1>19 DEF popen_fails
<1>20. ASSUME NEW j \in Job, spawned(j),
       UNCHANGED <<up, handler_vars, asked, crashes>> PROVE TypeHandler'
  BY <1>20 DEF spawned
<1>21. ASSUME NEW j \in Job, thread_open(j),
       UNCHANGED <<up, handler_vars, asked, crashes>> PROVE TypeHandler'
  BY <1>21 DEF thread_open, open_manifest
<1>22. ASSUME NEW j \in Job, thread_write(j),
       UNCHANGED <<up, handler_vars, asked, crashes>> PROVE TypeHandler'
  BY <1>22 DEF thread_write, write_manifest
<1>23. ASSUME NEW j \in Job, thread_save_fails(j),
       UNCHANGED <<up, handler_vars, asked, crashes>> PROVE TypeHandler'
  BY <1>23 DEF thread_save_fails, save_fails
<1>24. ASSUME NEW j \in Job, wait(j),
       UNCHANGED <<up, handler_vars, asked, crashes>> PROVE TypeHandler'
  BY <1>24 DEF wait
<1>25. ASSUME NEW j \in Job, sleep(j),
       UNCHANGED <<up, handler_vars, asked, crashes>> PROVE TypeHandler'
  BY <1>25 DEF sleep
<1>26. ASSUME NEW j \in Job, process_exits(j) PROVE TypeHandler'
  BY <1>26 DEF process_exits
<1>27. CASE UNCHANGED vars
  BY <1>27 DEF vars
<1>. QED
  BY <1>1, <1>2, <1>3, <1>4, <1>5, <1>6, <1>7, <1>8, <1>9, <1>10, <1>11, <1>12, <1>13,
     <1>14, <1>15, <1>16, <1>17, <1>18, <1>19, <1>20, <1>21, <1>22, <1>23, <1>24,
     <1>25, <1>26, <1>27
  DEF Next, Handle, run_thread, answer

\* Every step keeps the types of the jobs and their threads.
LEMMA TypeThreadsStep ==
  ASSUME TypeHandler, TypeThreads, TypeRest, [Next]_vars
  PROVE TypeThreads'
<1>. USE BoundsAssumption
<1>1. CASE start_open
  BY TypeThreads, <1>1
  DEF TypeThreads, ThreadPc, handler_vars, thread_vars, start_open, open_manifest
<1>2. CASE start_write
  <2>1. handler.job \in Job /\ handler.job <= made
    BY TypeHandler, <1>2 DEF TypeHandler, start_write, Job
  <2>2. thread' \in [Job -> ThreadPc]
    BY TypeThreads, <1>2 DEF TypeThreads, ThreadPc, start_write
  <2>3. ASSUME NEW j \in Job, j > made' PROVE thread'[j] = "none"
    <3>1. made' = made /\ thread' = [thread EXCEPT ![handler.job] = "loop"]
      BY <1>2 DEF start_write
    <3>2. j # handler.job
      BY TypeHandler, <2>1, <2>3, <3>1 DEF TypeHandler, Job
    <3>. QED
      BY TypeThreads, <2>3, <3>1, <3>2 DEF TypeThreads
  <2>4. UNCHANGED <<uuid, stop_event, saving, proc, current_proc, live, signalled>>
    BY <1>2 DEF start_write
  <2>. QED
    BY TypeThreads, <2>2, <2>3, <2>4 DEF TypeThreads
<1>3. CASE start_fails
  BY TypeThreads, <1>3
  DEF TypeThreads, ThreadPc, handler_vars, thread_vars, start_fails, save_fails
<1>4. CASE stop_read
  BY TypeThreads, <1>4 DEF TypeThreads, ThreadPc, handler_vars, thread_vars, stop_read
<1>5. CASE stop_open
  BY TypeThreads, <1>5
  DEF TypeThreads, ThreadPc, handler_vars, thread_vars, stop_open, killed, open_manifest
<1>6. CASE stop_write
  BY TypeThreads, <1>6
  DEF TypeThreads, ThreadPc, handler_vars, thread_vars, stop_write, write_manifest
<1>7. CASE stop_fails
  BY TypeThreads, <1>7
  DEF TypeThreads, ThreadPc, handler_vars, thread_vars, stop_fails, killed, save_fails
<1>8. CASE state_poll
  BY TypeThreads, <1>8 DEF TypeThreads, ThreadPc, handler_vars, thread_vars, state_poll
<1>9. CASE state_error
  BY TypeThreads, <1>9 DEF TypeThreads, ThreadPc, handler_vars, thread_vars, state_error
<1>10. CASE recover_fails
  BY TypeThreads, <1>10
  DEF TypeThreads, ThreadPc, handler_vars, thread_vars, recover_fails, save_fails,
      server_ends
<1>11. CASE crash
  BY TypeThreads, <1>11
  DEF TypeThreads, ThreadPc, handler_vars, thread_vars, crash, server_ends
<1>12. CASE restart
  BY TypeThreads, <1>12 DEF TypeThreads, ThreadPc, handler_vars, thread_vars, restart
<1>13. ASSUME NEW u \in Uuid, start_proof(u) PROVE TypeThreads'
  <2>1. begin_start("start_open", u) /\ UNCHANGED <<thread_vars, live, signalled>>
    BY <1>13 DEF start_proof
  <2>2. PICK j \in Job : Begun("start_open", u, j)
    BY TypeHandler, TypeThreads, <2>1, BeginStart, Zenon
  <2>3. \A i \in Job : i > made' => i > made
    BY <2>2, TypeHandler, TypeHandlerStep DEF Begun, TypeHandler, Job
  <2>. QED
    BY TypeThreads, <2>1, <2>2, <2>3 DEF Begun, TypeThreads, thread_vars
<1>14. ASSUME NEW u \in Uuid, stop_proof(u) PROVE TypeThreads'
  BY TypeThreads, <1>14
  DEF TypeThreads, ThreadPc, handler_vars, thread_vars, stop_proof, Serving
<1>15. ASSUME NEW u \in Uuid, get_proof_state(u) PROVE TypeThreads'
  BY TypeThreads, <1>15
  DEF TypeThreads, ThreadPc, handler_vars, thread_vars, get_proof_state, Serving
<1>16. ASSUME NEW u \in Uuid, recover_job(u) PROVE TypeThreads'
  <2>1. /\ \/ begin_start("recover_open", u)
           \/ UNCHANGED <<JOBS, made, uuid, stop_event, handler>>
        /\ UNCHANGED <<thread_vars, live, signalled>>
    BY <1>16 DEF recover_job
  <2>2. CASE UNCHANGED <<JOBS, made, uuid, stop_event, handler>>
    BY TypeThreads, <2>1, <2>2 DEF TypeThreads, thread_vars
  <2>3. CASE begin_start("recover_open", u)
    <3>1. PICK j \in Job : Begun("recover_open", u, j)
      BY TypeHandler, TypeThreads, <2>3, BeginStart, Zenon
    <3>2. \A i \in Job : i > made' => i > made
      BY <3>1, TypeHandler, TypeHandlerStep DEF Begun, TypeHandler, Job
    <3>. QED
      BY TypeThreads, <2>1, <3>1, <3>2 DEF Begun, TypeThreads, thread_vars
  <2>. QED
    BY <2>1, <2>2, <2>3
<1>17. ASSUME NEW j \in Job, loop(j),
       UNCHANGED <<up, handler_vars, asked, crashes>> PROVE TypeThreads'
  BY TypeThreads, <1>17 DEF TypeThreads, ThreadPc, handler_vars, thread_vars, loop
<1>18. ASSUME NEW j \in Job, popen(j),
       UNCHANGED <<up, handler_vars, asked, crashes>> PROVE TypeThreads'
  <2>1. PICK p \in Pid :
          /\ live' = [live EXCEPT ![j] = @ \cup {p}]
          /\ signalled' = [signalled EXCEPT ![j] = @ \ {p}]
          /\ proc' = [proc EXCEPT ![j] = p]
    BY <1>18 DEF popen
  <2>2. live' \in [Job -> SUBSET Pid] /\ signalled' \in [Job -> SUBSET Pid]
    BY TypeThreads, <2>1 DEF TypeThreads
  <2>3. proc' \in [Job -> 0 .. MaxPids]
    BY TypeThreads, <2>1 DEF TypeThreads, Pid
  <2>. QED
    BY TypeThreads, <2>2, <2>3, <1>18 DEF TypeThreads, handler_vars, ThreadPc, popen
<1>19. ASSUME NEW j \in Job, popen_fails(j),
       UNCHANGED <<up, handler_vars, asked, crashes>> PROVE TypeThreads'
  BY TypeThreads, <1>19 DEF TypeThreads, ThreadPc, handler_vars, thread_vars, popen_fails
<1>20. ASSUME NEW j \in Job, spawned(j),
       UNCHANGED <<up, handler_vars, asked, crashes>> PROVE TypeThreads'
  BY TypeThreads, <1>20 DEF TypeThreads, ThreadPc, handler_vars, thread_vars, spawned
<1>21. ASSUME NEW j \in Job, thread_open(j),
       UNCHANGED <<up, handler_vars, asked, crashes>> PROVE TypeThreads'
  BY TypeThreads, <1>21
  DEF TypeThreads, ThreadPc, handler_vars, thread_vars, thread_open, open_manifest
<1>22. ASSUME NEW j \in Job, thread_write(j),
       UNCHANGED <<up, handler_vars, asked, crashes>> PROVE TypeThreads'
  <2>1. thread' \in [Job -> ThreadPc] /\ (\A i \in Job : i > made' => thread'[i] = "none")
    BY TypeThreads, <1>22 DEF TypeThreads, ThreadPc, handler_vars, thread_write
  <2>2. current_proc' \in [Job -> 0 .. MaxPids]
    BY TypeThreads, <1>22 DEF TypeThreads, thread_write
  <2>. QED
    BY TypeThreads, <2>1, <2>2, <1>22 DEF TypeThreads, handler_vars, thread_write
<1>23. ASSUME NEW j \in Job, thread_save_fails(j),
       UNCHANGED <<up, handler_vars, asked, crashes>> PROVE TypeThreads'
  BY TypeThreads, <1>23
  DEF TypeThreads, ThreadPc, handler_vars, thread_vars, thread_save_fails, save_fails
<1>24. ASSUME NEW j \in Job, wait(j),
       UNCHANGED <<up, handler_vars, asked, crashes>> PROVE TypeThreads'
  BY TypeThreads, <1>24 DEF TypeThreads, ThreadPc, handler_vars, thread_vars, wait
<1>25. ASSUME NEW j \in Job, sleep(j),
       UNCHANGED <<up, handler_vars, asked, crashes>> PROVE TypeThreads'
  BY TypeThreads, <1>25 DEF TypeThreads, ThreadPc, handler_vars, thread_vars, sleep
<1>26. ASSUME NEW j \in Job, process_exits(j) PROVE TypeThreads'
  <2>1. live' \in [Job -> SUBSET Pid]
    BY TypeThreads, <1>26 DEF TypeThreads, process_exits
  <2>. QED
    BY TypeThreads, <2>1, <1>26 DEF TypeThreads, handler_vars, thread_vars, process_exits
<1>27. CASE UNCHANGED vars
  BY TypeThreads, <1>27
  DEF TypeHandler, TypeThreads, Job, Pid, ThreadPc, vars, handler_vars, thread_vars
<1>. QED
  BY <1>1, <1>2, <1>3, <1>4, <1>5, <1>6, <1>7, <1>8, <1>9, <1>10, <1>11, <1>12, <1>13,
     <1>14, <1>15, <1>16, <1>17, <1>18, <1>19, <1>20, <1>21, <1>22, <1>23, <1>24,
     <1>25, <1>26, <1>27
  DEF Next, Handle, run_thread, answer

\* lost stays Boolean when the server ends.
LEMMA LostType ==
  [u \in Uuid |-> lost[u] \/ manifest'[u] \in Unreadable] \in [Uuid -> BOOLEAN]
BY Zenon

\* Every step keeps the types of the manifests and the answers.
LEMMA TypeRestStep ==
  ASSUME TypeHandler, TypeThreads, TypeRest, [Next]_vars
  PROVE TypeRest'
<1>. USE BoundsAssumption
        DEF TypeHandler, TypeThreads, TypeRest, Content, Status, Unreadable, handler_vars,
            thread_vars
<1>1. CASE start_open
  BY <1>1 DEF start_open, open_manifest
<1>2. CASE start_write
  BY <1>2 DEF start_write, write_manifest
<1>3. CASE start_fails
  BY <1>3 DEF start_fails, save_fails
<1>4. CASE stop_read
  BY <1>4 DEF stop_read
<1>5. CASE stop_open
  BY <1>5 DEF stop_open, open_manifest
<1>6. CASE stop_write
  BY <1>6 DEF stop_write, write_manifest
<1>7. CASE stop_fails
  BY <1>7 DEF stop_fails, save_fails
<1>8. CASE state_poll
  BY <1>8 DEF state_poll
<1>9. CASE state_error
  BY <1>9 DEF state_error
<1>10. CASE recover_fails
  <2>1. lost' \in [Uuid -> BOOLEAN]
    BY LostType, <1>10 DEF recover_fails, server_ends
  <2>2. /\ up' \in BOOLEAN /\ recovering' = {} /\ asked' = asked /\ crashes' = crashes
        /\ save_fails(handler.of) /\ handler.pc # "idle"
    BY <1>10, Zenon DEF recover_fails, server_ends
  <2>. QED
    BY TypeHandler, TypeRest, <2>1, <2>2
    DEF TypeHandler, TypeRest, Content, Unreadable, save_fails
<1>11. CASE crash
  <2>1. lost' \in [Uuid -> BOOLEAN]
    BY LostType, <1>11 DEF crash, server_ends
  <2>2. /\ up' \in BOOLEAN /\ recovering' = {} /\ asked' = asked /\ manifest' = manifest
        /\ crashes < MaxCrashes /\ crashes' = crashes + 1 /\ faults' = faults
    BY <1>11, Zenon DEF crash, server_ends
  <2>. QED
    BY TypeRest, <2>1, <2>2 DEF TypeRest
<1>12. CASE restart
  BY <1>12 DEF restart
<1>13. ASSUME NEW u \in Uuid, start_proof(u) PROVE TypeRest'
  BY <1>13 DEF start_proof, begin_start, Serving
<1>14. ASSUME NEW u \in Uuid, stop_proof(u) PROVE TypeRest'
  BY <1>14 DEF stop_proof, Serving
<1>15. ASSUME NEW u \in Uuid, get_proof_state(u) PROVE TypeRest'
  BY <1>15 DEF get_proof_state, Serving
<1>16. ASSUME NEW u \in Uuid, recover_job(u) PROVE TypeRest'
  BY <1>16 DEF recover_job, begin_start
<1>17. ASSUME NEW j \in Job, loop(j),
       UNCHANGED <<up, handler_vars, asked, crashes>> PROVE TypeRest'
  BY <1>17 DEF loop
<1>18. ASSUME NEW j \in Job, popen(j),
       UNCHANGED <<up, handler_vars, asked, crashes>> PROVE TypeRest'
  BY <1>18 DEF popen
<1>19. ASSUME NEW j \in Job, popen_fails(j),
       UNCHANGED <<up, handler_vars, asked, crashes>> PROVE TypeRest'
  BY <1>19 DEF popen_fails
<1>20. ASSUME NEW j \in Job, spawned(j),
       UNCHANGED <<up, handler_vars, asked, crashes>> PROVE TypeRest'
  BY <1>20 DEF spawned
<1>21. ASSUME NEW j \in Job, thread_open(j),
       UNCHANGED <<up, handler_vars, asked, crashes>> PROVE TypeRest'
  BY <1>21 DEF thread_open, open_manifest
<1>22. ASSUME NEW j \in Job, thread_write(j),
       UNCHANGED <<up, handler_vars, asked, crashes>> PROVE TypeRest'
  BY <1>22 DEF thread_write, write_manifest
<1>23. ASSUME NEW j \in Job, thread_save_fails(j),
       UNCHANGED <<up, handler_vars, asked, crashes>> PROVE TypeRest'
  BY <1>23 DEF thread_save_fails, save_fails
<1>24. ASSUME NEW j \in Job, wait(j),
       UNCHANGED <<up, handler_vars, asked, crashes>> PROVE TypeRest'
  BY <1>24 DEF wait
<1>25. ASSUME NEW j \in Job, sleep(j),
       UNCHANGED <<up, handler_vars, asked, crashes>> PROVE TypeRest'
  BY <1>25 DEF sleep
<1>26. ASSUME NEW j \in Job, process_exits(j) PROVE TypeRest'
  BY <1>26 DEF process_exits
<1>27. CASE UNCHANGED vars
  BY <1>27 DEF vars
<1>. QED
  BY <1>1, <1>2, <1>3, <1>4, <1>5, <1>6, <1>7, <1>8, <1>9, <1>10, <1>11, <1>12, <1>13,
     <1>14, <1>15, <1>16, <1>17, <1>18, <1>19, <1>20, <1>21, <1>22, <1>23, <1>24,
     <1>25, <1>26, <1>27
  DEF Next, Handle, run_thread, answer

\* Every step keeps TypeOK.
LEMMA TypeStep ==
  ASSUME TypeOK, [Next]_vars
  PROVE TypeOK'
BY TypeHandlerStep, TypeThreadsStep, TypeRestStep, Zenon DEF TypeOK

-----------------------------------------------------------------------------

\* A thread's step leaves requests and other threads alone, and starts no thread.
LEMMA ThreadsOnlyEnd ==
  ASSUME TypeThreads, NEW j \in Job, run_thread(j) \/ process_exits(j)
  PROVE /\ UNCHANGED <<up, handler_vars, asked>>
        /\ \A i \in Job : i # j => thread'[i] = thread[i]
        /\ is_active(j)' => is_active(j)
        /\ thread[j] = "none" => thread' = thread
<1>. USE DEF TypeThreads, is_active
<1>1. CASE process_exits(j)
  BY <1>1 DEF process_exits, thread_vars
<1>2. CASE run_thread(j)
  BY <1>2 DEF run_thread, loop, popen, popen_fails, spawned, thread_open, thread_write,
              thread_save_fails, wait, sleep
<1>. QED
  BY <1>1, <1>2

\* Job.start on a job without a thread keeps JobsAreOwned.
LEMMA OwnedBegin ==
  ASSUME TypeOK, JobsAreOwned, NEW u \in Uuid, NEW pc \in {"start_open", "recover_open"},
         begin_start(pc, u), handler = Idle, thread' = thread,
         JOBS[u] # 0 => ~is_active(JOBS[u])
  PROVE JobsAreOwned'
<1>0. TypeHandler /\ TypeThreads
  BY DEF TypeOK
<1>1. PICK j \in Job : Begun(pc, u, j)
  BY <1>0, BeginStart, Zenon
<1>2. ~is_active(j)
  <2>1. CASE JOBS[u] = 0
    BY <1>1, <2>1 DEF Begun, TypeOK, TypeThreads, TypeHandler, is_active
  <2>. QED
    BY <1>1, <2>1 DEF Begun
<1>3. \A v \in Uuid : v # u => JOBS[v] # j
  BY <1>1 DEF Begun, TypeOK, TypeHandler, JobsAreOwned
<1>4. \A v \in Uuid : JOBS'[v] # 0 => uuid'[JOBS'[v]] = v
  BY <1>1, <1>3 DEF Begun, TypeOK, TypeHandler, TypeThreads, JobsAreOwned, Job
<1>5. handler'.pc = pc /\ handler'.job = j /\ JOBS'[handler'.of] = j /\ ~stop_event'[j]
  BY <1>1 DEF Begun, TypeOK, TypeHandler, TypeThreads
<1>6. ASSUME NEW i \in Job, is_active(i)', ~stop_event'[i]
      PROVE JOBS'[uuid'[i]] = i
  <2>1. is_active(i) /\ i # j
    BY <1>2, <1>6 DEF is_active
  <2>2. stop_event'[i] = stop_event[i] /\ uuid'[i] = uuid[i] /\ uuid[i] \in Uuid
    BY <1>0, <1>1, <2>1 DEF Begun, TypeThreads
  <2>3. JOBS[uuid[i]] = i
    BY <1>6, <2>1, <2>2 DEF JobsAreOwned, OneRunnerPerUuid
  <2>4. uuid[i] # u
    BY <1>1, <2>1, <2>3 DEF Begun, Job
  <2>. QED
    BY <1>0, <1>1, <2>2, <2>3, <2>4 DEF Begun, TypeHandler
<1>7. OneRunnerPerUuid'
  BY <1>6 DEF OneRunnerPerUuid
<1>. QED
  BY <1>2, <1>4, <1>5, <1>7 DEF JobsAreOwned, is_active

\* Every step keeps JobsAreOwned.
LEMMA OwnedStep ==
  ASSUME TypeOK, JobsAreOwned, [Next]_vars
  PROVE JobsAreOwned'
<1>. USE DEF TypeOK, TypeHandler, TypeThreads, Job, Idle, JobsAreOwned, OneRunnerPerUuid,
            is_active, thread_vars
<1>1. CASE start_open
  BY <1>1 DEF start_open
<1>2. CASE start_write
  BY <1>2 DEF start_write
<1>3. CASE start_fails
  BY <1>3 DEF start_fails
<1>4. CASE stop_read
  BY <1>4 DEF stop_read
<1>5. CASE stop_open
  BY <1>5 DEF stop_open
<1>6. CASE stop_write
  BY <1>6 DEF stop_write
<1>7. CASE stop_fails
  BY <1>7 DEF stop_fails
<1>8. CASE state_poll
  BY <1>8 DEF state_poll
<1>9. CASE state_error
  BY <1>9 DEF state_error
<1>10. CASE recover_fails
  BY <1>10 DEF recover_fails, server_ends
<1>11. CASE crash
  BY <1>11 DEF crash, server_ends
<1>12. CASE restart
  BY <1>12 DEF restart
<1>13. ASSUME NEW u \in Uuid, start_proof(u) PROVE JobsAreOwned'
  BY <1>13, OwnedBegin, Zenon DEF start_proof, Serving, thread_vars
<1>14. ASSUME NEW u \in Uuid, stop_proof(u) PROVE JobsAreOwned'
  <2>1. JOBS[u] \in Job
    BY <1>14, BoundsAssumption DEF TypeHandler, stop_proof, Job
  <2>2. \A i \in Job : stop_event[i] => stop_event'[i]
    BY <1>14, <2>1 DEF TypeThreads, stop_proof
  <2>3. stop_event'[JOBS[u]]
    BY <1>14, <2>1 DEF TypeThreads, stop_proof
  <2>4. /\ UNCHANGED <<JOBS, uuid, thread>>
        /\ handler' = [pc |-> "stop_read", of |-> u, job |-> JOBS[u]]
    BY <1>14 DEF stop_proof, thread_vars
  <2>5. OneRunnerPerUuid'
    BY <2>2, <2>4 DEF JobsAreOwned, OneRunnerPerUuid, is_active
  <2>6. handler'.pc = "stop_read" /\ handler'.job = JOBS[u] /\ handler'.of = u
    BY <2>4
  <2>. QED
    BY <2>3, <2>4, <2>5, <2>6 DEF JobsAreOwned
<1>15. ASSUME NEW u \in Uuid, get_proof_state(u) PROVE JobsAreOwned'
  BY <1>15 DEF get_proof_state, Serving
<1>16. ASSUME NEW u \in Uuid, recover_job(u) PROVE JobsAreOwned'
  <2>1. CASE UNCHANGED <<JOBS, made, uuid, stop_event, handler>>
    BY <1>16, <2>1 DEF JobsAreOwned, OneRunnerPerUuid, is_active, recover_job, thread_vars
  <2>2. CASE begin_start("recover_open", u) /\ JOBS[u] = 0
    BY <1>16, <2>2, OwnedBegin, Zenon DEF recover_job, thread_vars
  <2>. QED
    BY <1>16, <2>1, <2>2 DEF recover_job
<1>17. ASSUME NEW j \in Job, run_thread(j) \/ process_exits(j) PROVE JobsAreOwned'
  <2>1. UNCHANGED <<JOBS, uuid, stop_event, handler>>
    BY <1>17, ThreadsOnlyEnd DEF handler_vars
  <2>2. \A i \in Job : is_active(i)' => is_active(i)
    BY <1>17, ThreadsOnlyEnd DEF is_active
  <2>3. OneRunnerPerUuid'
    BY <2>1, <2>2 DEF JobsAreOwned, OneRunnerPerUuid
  <2>4. handler.pc # "idle" => handler.job \in Job
    BY BoundsAssumption DEF TypeHandler, Job
  <2>5. handler'.pc # "idle" /\ is_active(handler.job)' => is_active(handler.job)
    BY <2>1, <2>2, <2>4 DEF is_active
  <2>. QED
    BY <2>1, <2>3, <2>5 DEF JobsAreOwned
<1>18. CASE UNCHANGED vars
  BY <1>18
  DEF TypeHandler, Job, Idle, HandlerPc, JobsAreOwned, OneRunnerPerUuid, is_active,
      vars, handler_vars, thread_vars
<1>. QED
  BY <1>1, <1>2, <1>3, <1>4, <1>5, <1>6, <1>7, <1>8, <1>9, <1>10, <1>11, <1>12, <1>13,
     <1>14, <1>15, <1>16, <1>17, <1>18
  DEF Next, Handle, answer

-----------------------------------------------------------------------------

\* Every step keeps RecoveryIsAlone.
LEMMA AloneStep ==
  ASSUME TypeOK, JobsAreOwned, RecoveryIsAlone, [Next]_vars
  PROVE RecoveryIsAlone'
<1>. USE BoundsAssumption
        DEF TypeOK, TypeHandler, TypeThreads, TypeRest, Job, Idle, RecoveryIsAlone, thread_vars
<1>0. TypeHandler /\ TypeThreads
  OBVIOUS
<1>1. CASE start_open
  BY <1>1 DEF start_open
<1>2. CASE start_write
  BY <1>2 DEF start_write
<1>3. CASE start_fails
  BY <1>3 DEF start_fails
<1>4. CASE stop_read
  BY <1>4 DEF stop_read
<1>5. CASE stop_open
  BY <1>5 DEF stop_open
<1>6. CASE stop_write
  BY <1>6 DEF stop_write
<1>7. CASE stop_fails
  BY <1>7 DEF stop_fails
<1>8. CASE state_poll
  BY <1>8 DEF state_poll
<1>9. CASE state_error
  BY <1>9 DEF state_error
<1>10. CASE recover_fails
  BY <1>10 DEF recover_fails, server_ends
<1>11. CASE crash
  BY <1>11 DEF crash, server_ends
<1>12. CASE restart
  BY <1>12 DEF restart
<1>13. ASSUME NEW u \in Uuid, start_proof(u) PROVE RecoveryIsAlone'
  BY <1>13 DEF start_proof, begin_start, Serving
<1>14. ASSUME NEW u \in Uuid, stop_proof(u) PROVE RecoveryIsAlone'
  BY <1>14 DEF stop_proof, Serving
<1>15. ASSUME NEW u \in Uuid, get_proof_state(u) PROVE RecoveryIsAlone'
  BY <1>15 DEF get_proof_state, Serving
<1>16. ASSUME NEW u \in Uuid, recover_job(u) PROVE RecoveryIsAlone'
  <2>1. /\ up /\ up' = up /\ handler = Idle /\ u \in recovering
        /\ recovering' = recovering \ {u} /\ asked' = asked
    BY <1>16 DEF recover_job
  <2>2. CASE UNCHANGED <<JOBS, made, uuid, stop_event, handler>>
    BY <2>1, <2>2 DEF RecoveryIsAlone
  <2>3. CASE begin_start("recover_open", u)
    <3>1. PICK j \in Job : Begun("recover_open", u, j)
      BY <2>3, <1>0, BeginStart, Zenon
    <3>2. \A i \in Job : ~stop_event'[i]
      BY <2>1, <3>1 DEF Begun, RecoveryIsAlone, TypeThreads
    <3>3. \A v \in recovering' : JOBS'[v] = 0
      BY <2>1, <3>1 DEF Begun, RecoveryIsAlone, TypeHandler, TypeRest
    <3>4. handler'.pc = "recover_open"
      BY <3>1 DEF Begun
    <3>. QED
      BY <2>1, <3>2, <3>3, <3>4 DEF RecoveryIsAlone
  <2>. QED
    BY <1>16, <2>2, <2>3 DEF recover_job
<1>17. ASSUME NEW j \in Job, run_thread(j) \/ process_exits(j) PROVE RecoveryIsAlone'
  <2>1. UNCHANGED <<up, recovering, JOBS, stop_event, handler, asked>>
    BY <1>17, ThreadsOnlyEnd DEF handler_vars
  <2>2. ~up => thread' = thread
    BY <1>17, ThreadsOnlyEnd DEF RecoveryIsAlone
  <2>. QED
    BY <2>1, <2>2 DEF RecoveryIsAlone
<1>18. CASE UNCHANGED vars
  BY <1>18 DEF TypeHandler, Job, Idle, RecoveryIsAlone, vars, handler_vars, thread_vars
<1>. QED
  BY <1>1, <1>2, <1>3, <1>4, <1>5, <1>6, <1>7, <1>8, <1>9, <1>10, <1>11, <1>12, <1>13,
     <1>14, <1>15, <1>16, <1>17, <1>18
  DEF Next, Handle, answer

-----------------------------------------------------------------------------

\* A thread saves only manifests that recovery does not read any more.
LEMMA ActiveIsNotRecovering ==
  ASSUME TypeOK, JobsAreOwned, RecoveryIsAlone, NEW j \in Job, is_active(j)
  PROVE up /\ uuid[j] \in Uuid /\ uuid[j] \notin recovering
<1>1. up /\ uuid[j] \in Uuid
  BY DEF TypeOK, TypeThreads, RecoveryIsAlone, is_active
<1>2. recovering # {} => JOBS[uuid[j]] = j
  BY DEF RecoveryIsAlone, JobsAreOwned, OneRunnerPerUuid
<1>. QED
  BY <1>1, <1>2 DEF RecoveryIsAlone, Job

\* Every step keeps WantedJobsSurvive.
LEMMA SurviveStep ==
  ASSUME TypeOK, JobsAreOwned, RecoveryIsAlone, WantedJobsSurvive, [Next]_vars
  PROVE WantedJobsSurvive'
<1>. USE DEF TypeOK
<1>. SUFFICES ASSUME NEW v \in Uuid, asked'[v] = "started", ~lost'[v]
              PROVE IF ~up' \/ v \in recovering' THEN OnDisk(v)' ELSE Kept(v)'
  BY DEF WantedJobsSurvive
<1>. DEFINE Goal == IF ~up' \/ v \in recovering' THEN OnDisk(v)' ELSE Kept(v)'
<1>0. asked[v] = "started" /\ ~lost[v] =>
        IF ~up \/ v \in recovering THEN OnDisk(v) ELSE Kept(v)
  BY DEF WantedJobsSurvive
<1>1. CASE start_open
  BY <1>0, <1>1
  DEF OnDisk, Kept, Recovers, RECOVER_JOB_STATUSES, Unreadable, RecoveryIsAlone,
      TypeHandler, TypeRest, JobsAreOwned, is_active, thread_vars, TypeThreads, Idle,
      Job, start_open, open_manifest
<1>2. CASE start_write
  <2>1. handler.job \in Job /\ handler.of \in Uuid /\ handler.job = JOBS[handler.of]
        /\ ~stop_event[handler.job] /\ JOBS[handler.of] # 0
    BY <1>2, BoundsAssumption DEF TypeHandler, Job, JobsAreOwned, start_write
  <2>2. /\ up /\ UNCHANGED <<up, recovering, JOBS, stop_event>>
        /\ v \in recovering => v # handler.of
    BY <1>2, <2>1 DEF RecoveryIsAlone, start_write
  <2>4. CASE v # handler.of
    <3>1. asked[v] = "started" /\ ~lost[v] /\ manifest'[v] = manifest[v]
      BY <1>2, <2>4 DEF TypeRest, start_write, write_manifest
    <3>2. ~Recovers(v) /\ (is_active(JOBS[v]) => is_active(JOBS[v])')
      BY <1>2, <2>1, <2>4 DEF Recovers, is_active, TypeThreads, TypeHandler, start_write
    <3>. QED
      BY <1>0, <2>2, <3>1, <3>2 DEF OnDisk, Kept
  <2>5. CASE v = handler.of
    <3>1. manifest'[v] \in {"pending", "garbled"}
      BY <1>2, <2>5 DEF TypeRest, start_write, write_manifest
    <3>2. thread'[JOBS[v]] = "loop"
      BY <1>2, <2>1, <2>5 DEF TypeThreads, start_write
    <3>. QED
      BY <2>1, <2>2, <2>5, <3>1, <3>2
      DEF OnDisk, Kept, is_active, RECOVER_JOB_STATUSES, Unreadable
  <2>. QED
    BY <2>4, <2>5
<1>3. CASE start_fails
  BY <1>0, <1>3
  DEF OnDisk, Kept, Recovers, RECOVER_JOB_STATUSES, Unreadable, RecoveryIsAlone,
      TypeHandler, TypeRest, JobsAreOwned, is_active, thread_vars, TypeThreads, Idle,
      Job, start_fails, save_fails
<1>4. CASE stop_read
  BY <1>0, <1>4
  DEF OnDisk, Kept, Recovers, RECOVER_JOB_STATUSES, Unreadable, RecoveryIsAlone,
      TypeHandler, TypeRest, JobsAreOwned, is_active, thread_vars, TypeThreads, Idle,
      Job, stop_read
<1>5. CASE stop_open
  BY <1>0, <1>5
  DEF OnDisk, Kept, Recovers, RECOVER_JOB_STATUSES, Unreadable, RecoveryIsAlone,
      TypeHandler, TypeRest, JobsAreOwned, is_active, thread_vars, TypeThreads, Idle,
      Job, stop_open, open_manifest
<1>6. CASE stop_write
  BY <1>0, <1>6
  DEF OnDisk, Kept, Recovers, RECOVER_JOB_STATUSES, Unreadable, RecoveryIsAlone,
      TypeHandler, TypeRest, JobsAreOwned, is_active, thread_vars, TypeThreads, Idle,
      Job, stop_write, write_manifest
<1>7. CASE stop_fails
  BY <1>0, <1>7
  DEF OnDisk, Kept, Recovers, RECOVER_JOB_STATUSES, Unreadable, RecoveryIsAlone,
      TypeHandler, TypeRest, JobsAreOwned, is_active, thread_vars, TypeThreads, Idle,
      Job, stop_fails, save_fails
<1>8. CASE state_poll
  BY <1>0, <1>8
  DEF OnDisk, Kept, Recovers, RECOVER_JOB_STATUSES, Unreadable, RecoveryIsAlone,
      TypeHandler, TypeRest, JobsAreOwned, is_active, thread_vars, TypeThreads, Idle,
      Job, state_poll
<1>9. CASE state_error
  BY <1>0, <1>9
  DEF OnDisk, Kept, Recovers, RECOVER_JOB_STATUSES, Unreadable, RecoveryIsAlone,
      TypeHandler, TypeRest, JobsAreOwned, is_active, thread_vars, TypeThreads, Idle,
      Job, state_error
<1>10. CASE recover_fails
  BY <1>0, <1>10
  DEF OnDisk, Kept, Recovers, RECOVER_JOB_STATUSES, Unreadable, RecoveryIsAlone,
      TypeHandler, TypeRest, JobsAreOwned, is_active, thread_vars, TypeThreads, Idle,
      Job, recover_fails, save_fails, server_ends
<1>11. CASE crash
  BY <1>0, <1>11
  DEF OnDisk, Kept, Recovers, RECOVER_JOB_STATUSES, Unreadable, RecoveryIsAlone,
      TypeHandler, TypeRest, JobsAreOwned, is_active, thread_vars, TypeThreads, Idle,
      Job, crash, server_ends
<1>12. CASE restart
  BY <1>0, <1>12
  DEF OnDisk, Kept, Recovers, RECOVER_JOB_STATUSES, Unreadable, RecoveryIsAlone,
      TypeHandler, TypeRest, JobsAreOwned, is_active, thread_vars, TypeThreads, Idle,
      Job, restart
<1>13. ASSUME NEW u \in Uuid, start_proof(u) PROVE Goal
  BY <1>0, <1>13
  DEF OnDisk, Kept, Recovers, RECOVER_JOB_STATUSES, Unreadable, RecoveryIsAlone,
      TypeHandler, TypeRest, JobsAreOwned, is_active, thread_vars, TypeThreads, Idle,
      Job, start_proof, begin_start, Serving
<1>14. ASSUME NEW u \in Uuid, stop_proof(u) PROVE Goal
  BY <1>0, <1>14
  DEF OnDisk, Kept, Recovers, RECOVER_JOB_STATUSES, Unreadable, RecoveryIsAlone,
      TypeHandler, TypeRest, JobsAreOwned, is_active, thread_vars, TypeThreads, Idle,
      Job, stop_proof, Serving
<1>15. ASSUME NEW u \in Uuid, get_proof_state(u) PROVE Goal
  BY <1>0, <1>15
  DEF OnDisk, Kept, Recovers, RECOVER_JOB_STATUSES, Unreadable, RecoveryIsAlone,
      TypeHandler, TypeRest, JobsAreOwned, is_active, thread_vars, TypeThreads, Idle,
      Job, get_proof_state, Serving
<1>16. ASSUME NEW u \in Uuid, recover_job(u) PROVE Goal
  <2>1. /\ up /\ up' = up /\ handler = Idle /\ u \in recovering
        /\ recovering' = recovering \ {u} /\ asked' = asked
        /\ manifest' = manifest /\ lost' = lost /\ thread' = thread
    BY <1>16 DEF recover_job, thread_vars
  <2>2. JOBS[u] = 0
    BY <2>1 DEF RecoveryIsAlone
  <2>3. CASE ~OnDisk(u)
    <3>1. UNCHANGED <<JOBS, stop_event, handler>> /\ v # u
      BY <1>0, <1>16, <2>1, <2>3 DEF recover_job, OnDisk
    <3>. QED
      BY <1>0, <2>1, <3>1 DEF OnDisk, Kept, Recovers, is_active
  <2>4. CASE OnDisk(u)
    <3>1. begin_start("recover_open", u)
      BY <1>16, <2>2, <2>4 DEF recover_job, OnDisk
    <3>2. PICK j \in Job : Begun("recover_open", u, j)
      BY <3>1, TypeHandler, TypeThreads, BeginStart, Zenon
    <3>3. CASE v = u
      <4>1. JOBS'[v] = j /\ ~stop_event'[j] /\ j # 0
        BY <3>2, <3>3 DEF Begun, TypeHandler, TypeThreads, Job
      <4>2. Recovers(v)'
        BY <3>2, <3>3 DEF Begun, Recovers
      <4>. QED
        BY <2>1, <2>4, <3>3, <4>1, <4>2 DEF OnDisk, Kept
    <3>4. CASE v # u
      <4>1. JOBS[v] # 0 => JOBS[v] \in Job /\ JOBS[v] # j
        BY <2>2, <3>2, BoundsAssumption DEF Begun, TypeHandler, Job
      <4>3. /\ JOBS'[v] = JOBS[v]
            /\ JOBS[v] # 0 => stop_event'[JOBS[v]] = stop_event[JOBS[v]]
        BY <3>2, <3>4, <4>1 DEF Begun, TypeHandler, TypeThreads
      <4>2. ~Recovers(v)
        BY <2>1 DEF Recovers, Idle
      <4>. QED
        BY <1>0, <2>1, <3>4, <4>3, <4>2 DEF OnDisk, Kept, is_active
    <3>. QED
      BY <3>3, <3>4
  <2>. QED
    BY <2>3, <2>4
<1>17. ASSUME NEW j \in Job, loop(j),
       UNCHANGED <<up, handler_vars, asked, crashes>> PROVE Goal
  BY <1>0, <1>17
  DEF OnDisk, Kept, Recovers, RECOVER_JOB_STATUSES, Unreadable, RecoveryIsAlone,
      TypeHandler, TypeRest, JobsAreOwned, is_active, handler_vars, TypeThreads,
      OneRunnerPerUuid, loop
<1>18. ASSUME NEW j \in Job, popen(j),
       UNCHANGED <<up, handler_vars, asked, crashes>> PROVE Goal
  BY <1>0, <1>18
  DEF OnDisk, Kept, Recovers, RECOVER_JOB_STATUSES, Unreadable, RecoveryIsAlone,
      TypeHandler, TypeRest, JobsAreOwned, is_active, handler_vars, TypeThreads,
      OneRunnerPerUuid, popen
<1>19. ASSUME NEW j \in Job, popen_fails(j),
       UNCHANGED <<up, handler_vars, asked, crashes>> PROVE Goal
  BY <1>0, <1>19
  DEF OnDisk, Kept, Recovers, RECOVER_JOB_STATUSES, Unreadable, RecoveryIsAlone,
      TypeHandler, TypeRest, JobsAreOwned, is_active, handler_vars, TypeThreads,
      OneRunnerPerUuid, popen_fails
<1>20. ASSUME NEW j \in Job, spawned(j),
       UNCHANGED <<up, handler_vars, asked, crashes>> PROVE Goal
  BY <1>0, <1>20
  DEF OnDisk, Kept, Recovers, RECOVER_JOB_STATUSES, Unreadable, RecoveryIsAlone,
      TypeHandler, TypeRest, JobsAreOwned, is_active, handler_vars, TypeThreads,
      OneRunnerPerUuid, spawned
<1>21. ASSUME NEW j \in Job, thread_open(j),
       UNCHANGED <<up, handler_vars, asked, crashes>> PROVE Goal
  <2>1. up /\ uuid[j] \in Uuid /\ uuid[j] \notin recovering
    BY <1>21, ActiveIsNotRecovering DEF is_active, thread_open
  <2>2. /\ UNCHANGED <<up, recovering, JOBS, stop_event, handler, asked>>
        /\ lost' = lost
    BY <1>21 DEF handler_vars, thread_open
  <2>3. JOBS[v] # 0 => JOBS[v] \in Job
    BY BoundsAssumption DEF TypeHandler, Job
  <2>4. v # uuid[j] => manifest'[v] = manifest[v]
    BY <1>21 DEF TypeRest, thread_open, open_manifest
  <2>5. v = uuid[j] => manifest'[v] \in {"empty"}
    BY <1>21, <2>1 DEF TypeRest, TypeThreads, thread_open, open_manifest
  <2>6. \A i \in Job : is_active(i) => is_active(i)'
    BY <1>21 DEF TypeThreads, is_active, thread_open
  <2>. QED
    BY <1>0, <2>1, <2>2, <2>3, <2>4, <2>5, <2>6
    DEF OnDisk, Kept, Recovers, is_active, RECOVER_JOB_STATUSES, Unreadable
<1>22. ASSUME NEW j \in Job, thread_write(j),
       UNCHANGED <<up, handler_vars, asked, crashes>> PROVE Goal
  <2>1. up /\ uuid[j] \in Uuid /\ uuid[j] \notin recovering
    BY <1>22, ActiveIsNotRecovering DEF is_active, thread_write
  <2>2. /\ UNCHANGED <<up, recovering, JOBS, stop_event, handler, asked>>
        /\ lost' = lost
    BY <1>22 DEF handler_vars, thread_write
  <2>3. JOBS[v] # 0 => JOBS[v] \in Job
    BY BoundsAssumption DEF TypeHandler, Job
  <2>4. v # uuid[j] => manifest'[v] = manifest[v]
    BY <1>22 DEF TypeRest, thread_write, write_manifest
  <2>5. v = uuid[j] => manifest'[v] \in {"running", "waiting", "error", "garbled"}
    BY <1>22, <2>1 DEF TypeRest, TypeThreads, thread_write, write_manifest
  <2>6. \A i \in Job : is_active(i) => is_active(i)'
    BY <1>22 DEF TypeThreads, is_active, thread_write
  <2>. QED
    BY <1>0, <2>1, <2>2, <2>3, <2>4, <2>5, <2>6
    DEF OnDisk, Kept, Recovers, is_active, RECOVER_JOB_STATUSES, Unreadable
<1>23. ASSUME NEW j \in Job, thread_save_fails(j),
       UNCHANGED <<up, handler_vars, asked, crashes>> PROVE Goal
  <2>1. up /\ uuid[j] \in Uuid /\ uuid[j] \notin recovering
    BY <1>23, ActiveIsNotRecovering DEF is_active, thread_save_fails
  <2>2. /\ UNCHANGED <<up, recovering, JOBS, stop_event, handler, asked>>
        /\ lost' = lost \/ lost' = [lost EXCEPT ![uuid[j]] = TRUE]
    BY <1>23 DEF handler_vars, thread_save_fails
  <2>3. JOBS[v] # 0 => JOBS[v] \in Job
    BY BoundsAssumption DEF TypeHandler, Job
  <2>4. v # uuid[j] => manifest'[v] = manifest[v]
    BY <1>23 DEF TypeRest, thread_save_fails, save_fails
  <2>5. v = uuid[j] => manifest'[v] \in {manifest[v], "empty"}
    BY <1>23, <2>1 DEF TypeRest, thread_save_fails, save_fails
  <2>6. ~lost[v]
    BY <2>1, <2>2 DEF TypeRest
  <2>7. ASSUME JOBS[v] # 0, is_active(JOBS[v]), ~stop_event[JOBS[v]]
        PROVE is_active(JOBS[v])'
    <3>1. CASE JOBS[v] # j
      BY <1>23, <2>2, <2>3, <2>7, <3>1 DEF TypeThreads, is_active, thread_save_fails
    <3>2. CASE JOBS[v] = j
      <4>1. uuid[j] = v
        BY <2>7, <3>2 DEF JobsAreOwned
      <4>2. saving[j] # "exception"
        BY <1>23, <2>7, <3>2, <4>1 DEF TypeRest, thread_save_fails
      <4>. QED
        BY <1>23, <2>2, <3>2, <4>2 DEF TypeThreads, is_active, thread_save_fails
    <3>. QED
      BY <3>1, <3>2
  <2>. QED
    BY <1>0, <2>1, <2>2, <2>4, <2>5, <2>6, <2>7
    DEF OnDisk, Kept, Recovers, is_active, RECOVER_JOB_STATUSES, Unreadable
<1>24. ASSUME NEW j \in Job, wait(j),
       UNCHANGED <<up, handler_vars, asked, crashes>> PROVE Goal
  BY <1>0, <1>24
  DEF OnDisk, Kept, Recovers, RECOVER_JOB_STATUSES, Unreadable, RecoveryIsAlone,
      TypeHandler, TypeRest, JobsAreOwned, is_active, handler_vars, TypeThreads,
      OneRunnerPerUuid, wait
<1>25. ASSUME NEW j \in Job, sleep(j),
       UNCHANGED <<up, handler_vars, asked, crashes>> PROVE Goal
  BY <1>0, <1>25
  DEF OnDisk, Kept, Recovers, RECOVER_JOB_STATUSES, Unreadable, RecoveryIsAlone,
      TypeHandler, TypeRest, JobsAreOwned, is_active, handler_vars, TypeThreads,
      OneRunnerPerUuid, sleep
<1>26. ASSUME NEW j \in Job, process_exits(j) PROVE Goal
  BY <1>0, <1>26
  DEF OnDisk, Kept, Recovers, is_active, handler_vars, thread_vars, process_exits
<1>27. CASE UNCHANGED vars
  BY <1>0, <1>27 DEF OnDisk, Kept, Recovers, is_active, vars, handler_vars, thread_vars
<1>. QED
  BY <1>1, <1>2, <1>3, <1>4, <1>5, <1>6, <1>7, <1>8, <1>9, <1>10, <1>11, <1>12, <1>13,
     <1>14, <1>15, <1>16, <1>17, <1>18, <1>19, <1>20, <1>21, <1>22, <1>23, <1>24,
     <1>25, <1>26, <1>27
  DEF Next, Handle, run_thread, answer

-----------------------------------------------------------------------------

LEMMA InitHolds ==
  Init => TypeOK /\ JobsAreOwned /\ RecoveryIsAlone /\ WantedJobsSurvive
<1>. SUFFICES ASSUME Init
              PROVE TypeOK /\ JobsAreOwned /\ RecoveryIsAlone /\ WantedJobsSurvive
  OBVIOUS
<1>. USE DEF Init, Idle
<1>1. TypeHandler
  <2>1. handler \in [pc : HandlerPc, of : Uuid \cup {"none"}, job : 0 .. made]
    BY DEF HandlerPc
  <2>2. made \in 0 .. MaxJobs /\ JOBS \in [Uuid -> 0 .. made]
    BY BoundsAssumption
  <2>. QED
    BY <2>1, <2>2 DEF TypeHandler
<1>2. TypeThreads
  <2>1. (CHOOSE u \in Uuid : TRUE) \in Uuid
    BY BoundsAssumption, Zenon
  <2>2. uuid \in [Job -> Uuid]
    BY <2>1
  <2>3. stop_event \in [Job -> BOOLEAN]
    BY Zenon
  <2>4. /\ thread \in [Job -> ThreadPc]
        /\ saving \in [Job -> {"running", "waiting", "error", "exception"}]
        /\ proc \in [Job -> 0 .. MaxPids] /\ current_proc \in [Job -> 0 .. MaxPids]
        /\ live \in [Job -> SUBSET Pid] /\ signalled \in [Job -> SUBSET Pid]
    BY BoundsAssumption DEF ThreadPc
  <2>5. \A j \in Job : thread[j] = "none"
    OBVIOUS
  <2>. QED
    BY <2>2, <2>3, <2>4, <2>5 DEF TypeThreads
<1>3. TypeRest
  BY BoundsAssumption DEF TypeRest, Content
<1>4. JobsAreOwned
  BY DEF JobsAreOwned, OneRunnerPerUuid, is_active
<1>5. RecoveryIsAlone
  BY DEF RecoveryIsAlone
<1>6. WantedJobsSurvive
  BY DEF WantedJobsSurvive
<1>. QED
  BY <1>1, <1>2, <1>3, <1>4, <1>5, <1>6 DEF TypeOK

\* The server's variables keep their types: JOBS and the request under way only
\* name Job objects that were made.
THEOREM ServerTypes == Spec => []TypeOK
<1>1. Init => TypeOK
  BY InitHolds
<1>2. TypeOK /\ [Next]_vars => TypeOK'
  BY TypeStep
<1>. QED
  BY <1>1, <1>2, PTL DEF Spec

\* At any time at most one thread of a uuid goes on starting provers, however
\* start_proof, stop_proof, failed saves, crashes and recovery interleave.
THEOREM OneRunner == Spec => []OneRunnerPerUuid
<1>1. Init => TypeOK /\ JobsAreOwned
  BY InitHolds
<1>2. TypeOK /\ JobsAreOwned /\ [Next]_vars => TypeOK' /\ JobsAreOwned'
  BY TypeStep, OwnedStep
<1>3. JobsAreOwned => OneRunnerPerUuid
  BY DEF JobsAreOwned
<1>. QED
  BY <1>1, <1>2, <1>3, PTL DEF Spec

\* A client that was told "job started" has an active job whenever the server
\* answers requests, over any number of crashes, unless a save was lost.
THEOREM WantedJobsAreKept == Spec => []WantedJobIsKept
<1>. DEFINE Inv == TypeOK /\ JobsAreOwned /\ RecoveryIsAlone /\ WantedJobsSurvive
<1>1. Init => Inv
  BY InitHolds
<1>2. Inv /\ [Next]_vars => Inv'
  BY TypeStep, OwnedStep, AloneStep, SurviveStep
<1>3. Inv => WantedJobIsKept
  <2>. SUFFICES ASSUME Inv, NEW u \in Uuid, Serving, asked[u] = "started", ~lost[u]
                PROVE JOBS[u] # 0 /\ is_active(JOBS[u]) /\ ~stop_event[JOBS[u]]
    BY DEF WantedJobIsKept
  <2>1. Kept(u)
    BY DEF WantedJobsSurvive, Serving
  <2>2. ~Recovers(u)
    BY DEF Recovers, Serving, Idle
  <2>. QED
    BY <2>1, <2>2 DEF Kept
<1>. QED
  BY <1>1, <1>2, <1>3, PTL DEF Spec

-----------------------------------------------------------------------------
(* One process for each job.                                               *)

\* Between two runs, and while the result of one is saved, job j has no process.
NoProcess(j) ==
  \/ thread[j] \notin {"spawned", "open", "write", "wait"}
  \/ thread[j] \in {"open", "write"} /\ saving[j] # "running"
OneProcess(j) ==
  /\ live[j] \subseteq {proc[j]}
  /\ NoProcess(j) => live[j] = {}
OneProcessInv == faults = 0 => \A j \in Job : OneProcess(j)

LEMMA OneProcessStep ==
  ASSUME TypeOK, TypeOK', JobsAreOwned, OneProcessInv, [Next]_vars
  PROVE OneProcessInv'
<1>. SUFFICES ASSUME faults' = 0, NEW i \in Job PROVE OneProcess(i)'
  BY DEF OneProcessInv
<1>0. faults \in Nat /\ TypeHandler /\ TypeThreads
  BY DEF TypeOK, TypeRest
<1>1. ASSUME UNCHANGED faults PROVE OneProcess(i)
  BY <1>1 DEF OneProcessInv
<1>2. ASSUME UNCHANGED <<thread, saving, proc, live, faults>> PROVE OneProcess(i)'
  BY <1>1, <1>2 DEF OneProcess, NoProcess
<1>3. CASE start_write
  <2>1. handler.job \in Job /\ ~is_active(handler.job)
    BY <1>0, <1>3, BoundsAssumption DEF TypeHandler, Job, JobsAreOwned, start_write
  <2>2. /\ thread' = [thread EXCEPT ![handler.job] = "loop"]
        /\ UNCHANGED <<saving, proc, live, faults>>
    BY <1>3 DEF start_write
  <2>3. thread[handler.job] \in {"none", "dead"}
    BY <2>1 DEF is_active
  <2>. QED
    BY <1>0, <1>1, <2>1, <2>2, <2>3 DEF OneProcess, NoProcess, TypeThreads
<1>4. CASE crash
  BY <1>4 DEF crash, server_ends, OneProcess
<1>5. CASE recover_fails \/ start_fails \/ stop_fails
  BY <1>0, <1>5 DEF recover_fails, start_fails, stop_fails, save_fails
<1>6. ASSUME NEW j \in Job, run_thread(j) PROVE OneProcess(i)'
  <2>1. CASE i # j
    <3>1. /\ thread'[i] = thread[i] /\ saving'[i] = saving[i] /\ proc'[i] = proc[i]
          /\ live'[i] = live[i]
      BY <1>0, <1>6, <2>1
      DEF TypeThreads, run_thread, loop, popen, popen_fails, spawned, thread_open,
          thread_write, thread_save_fails, wait, sleep
    <3>2. UNCHANGED faults
      BY <1>0, <1>6
      DEF run_thread, loop, popen, popen_fails, spawned, thread_open, thread_write,
          thread_save_fails, save_fails, wait, sleep
    <3>. QED
      BY <1>1, <3>1, <3>2 DEF OneProcess, NoProcess
  <2>2. CASE popen_fails(j) \/ thread_save_fails(j)
    BY <1>0, <2>2 DEF popen_fails, thread_save_fails, save_fails
  <2>3. CASE i = j /\ (loop(j) \/ sleep(j) \/ spawned(j) \/ thread_open(j))
    BY <1>0, <1>1, <2>3
    DEF TypeThreads, loop, sleep, spawned, thread_open, OneProcess, NoProcess
  <2>4. CASE i = j /\ popen(j)
    <3>1. UNCHANGED faults /\ thread[j] = "popen" /\ thread'[j] = "spawned"
      BY <1>0, <2>4 DEF TypeThreads, popen
    <3>2. live[j] = {}
      BY <1>1, <2>4, <3>1 DEF OneProcess, NoProcess
    <3>3. PICK p \in Pid : live'[j] = live[j] \cup {p} /\ proc'[j] = p
      BY <1>0, <2>4 DEF TypeThreads, popen
    <3>. QED
      BY <2>4, <3>1, <3>2, <3>3 DEF OneProcess, NoProcess
  <2>5. CASE i = j /\ thread_write(j)
    <3>1. /\ thread[j] = "write" /\ UNCHANGED <<proc, live, faults>>
          /\ thread'[j] = IF saving[j] # "running" THEN "sleep" ELSE "wait"
      BY <1>0, <2>5 DEF TypeThreads, thread_write
    <3>. QED
      BY <1>1, <2>5, <3>1 DEF OneProcess, NoProcess
  <2>6. CASE i = j /\ wait(j)
    <3>1. proc[j] \notin live[j] /\ UNCHANGED <<live, faults>>
      BY <2>6 DEF wait
    <3>. QED
      BY <1>1, <2>6, <3>1 DEF OneProcess
  <2>. QED
    BY <1>6, <2>1, <2>2, <2>3, <2>4, <2>5, <2>6 DEF run_thread
<1>7. ASSUME NEW j \in Job, process_exits(j) PROVE OneProcess(i)'
  <2>1. UNCHANGED <<thread, saving, proc, faults>> /\ live'[i] \subseteq live[i]
    BY <1>0, <1>7 DEF TypeThreads, process_exits, thread_vars
  <2>. QED
    BY <1>1, <2>1 DEF OneProcess, NoProcess
<1>8. CASE \/ UNCHANGED vars \/ answer \/ restart \/ start_open \/ stop_read
           \/ stop_write \/ state_poll \/ state_error
           \/ \E u \in Uuid : start_proof(u) \/ stop_proof(u) \/ get_proof_state(u)
                             \/ recover_job(u)
  <2>1. UNCHANGED <<thread, saving, proc, live, faults>>
    BY <1>8
    DEF vars, thread_vars, answer, restart, start_open, stop_read, stop_write,
        state_poll, state_error, start_proof, stop_proof, get_proof_state, recover_job
  <2>. QED
    BY <1>2, <2>1
<1>9. CASE stop_open
  <2>1. UNCHANGED <<thread, saving, proc, faults>> /\ live'[i] \subseteq live[i]
    BY <1>0, <1>9 DEF TypeThreads, stop_open, killed, thread_vars
  <2>. QED
    BY <1>1, <2>1 DEF OneProcess, NoProcess
<1>. QED
  BY <1>3, <1>4, <1>5, <1>6, <1>7, <1>8, <1>9 DEF Next, Handle

\* A process that got terminate() is gone when the job leaves JOBS.
Gone(j) == live[j] \cap signalled[j] = {}
SignalledIsGone ==
  \A j \in Job :
    JOBS[uuid[j]] # j \/ (handler.pc = "stop_write" /\ handler.job = j) => Gone(j)

LEMMA GoneStep ==
  ASSUME TypeOK, JobsAreOwned, SignalledIsGone, [Next]_vars
  PROVE SignalledIsGone'
<1>. SUFFICES ASSUME NEW i \in Job,
                     (JOBS[uuid[i]] # i \/ (handler.pc = "stop_write" /\ handler.job = i))'
              PROVE Gone(i)'
  BY DEF SignalledIsGone
<1>0. TypeHandler /\ TypeThreads /\ 0 \notin Job
  BY DEF TypeOK, Job
<1>1. JOBS[uuid[i]] # i \/ (handler.pc = "stop_write" /\ handler.job = i) => Gone(i)
  BY DEF SignalledIsGone
<1>2. ASSUME UNCHANGED <<JOBS, uuid>>, live'[i] \cap signalled'[i] \subseteq live[i] \cap signalled[i],
             handler'.pc = "stop_write" => handler' = handler
      PROVE Gone(i)'
  BY <1>1, <1>2 DEF Gone
<1>3. ASSUME NEW u \in Uuid, NEW pc, pc # "stop_write", begin_start(pc, u),
             UNCHANGED <<live, signalled>>
      PROVE Gone(i)'
  <2>1. PICK j \in Job : Begun(pc, u, j)
    BY <1>0, <1>3, BeginStart, Zenon
  <2>2. handler'.pc # "stop_write"
    BY <1>3, <2>1 DEF Begun
  <2>3. CASE i = j
    BY <1>0, <2>1, <2>2, <2>3 DEF Begun, TypeHandler, TypeThreads
  <2>4. CASE i # j
    <3>1. uuid'[i] = uuid[i] /\ uuid[i] \in Uuid
      BY <1>0, <2>1, <2>4 DEF Begun, TypeThreads
    <3>2. JOBS[uuid[i]] # i
      BY <1>0, <2>1, <2>2, <2>4, <3>1 DEF Begun, TypeHandler
    <3>. QED
      BY <1>1, <1>3, <3>2 DEF Gone
  <2>. QED
    BY <2>3, <2>4
<1>4. ASSUME NEW u \in Uuid, start_proof(u) PROVE Gone(i)'
  BY <1>3, <1>4 DEF start_proof
<1>5. ASSUME NEW u \in Uuid, recover_job(u) PROVE Gone(i)'
  <2>1. CASE begin_start("recover_open", u)
    BY <1>3, <1>5, <2>1 DEF recover_job
  <2>2. CASE UNCHANGED <<JOBS, made, uuid, stop_event, handler>>
    BY <1>2, <1>5, <2>2 DEF recover_job
  <2>. QED
    BY <1>5, <2>1, <2>2 DEF recover_job
<1>6. CASE stop_read
  <2>1. /\ handler.job = JOBS[handler.of] /\ handler.job # 0 /\ handler.of \in Uuid
        /\ handler'.pc = "stop_open" /\ UNCHANGED <<JOBS, uuid, live>>
    BY <1>0, <1>6 DEF stop_read, JobsAreOwned, TypeHandler
  <2>2. uuid[handler.job] = handler.of
    BY <2>1 DEF JobsAreOwned
  <2>3. i # handler.job
    BY <2>1, <2>2
  <2>4. signalled'[i] = signalled[i]
    BY <1>0, <1>6, <2>3 DEF stop_read, TypeThreads
  <2>. QED
    BY <1>1, <2>1, <2>4 DEF Gone
<1>7. CASE stop_open
  <2>1. /\ live' = [live EXCEPT ![handler.job] = @ \ signalled[handler.job]]
        /\ UNCHANGED <<JOBS, uuid, signalled>> /\ handler'.job = handler.job
    BY <1>0, <1>7 DEF stop_open, killed, TypeHandler
  <2>2. CASE i = handler.job
    BY <1>0, <2>1, <2>2 DEF Gone, TypeThreads
  <2>3. CASE i # handler.job
    BY <1>0, <1>1, <2>1, <2>3 DEF Gone, TypeThreads
  <2>. QED
    BY <2>2, <2>3
<1>8. CASE stop_write
  <2>1. /\ handler.pc = "stop_write" /\ handler.job = JOBS[handler.of]
        /\ JOBS' = [JOBS EXCEPT ![handler.of] = 0] /\ handler' = Idle
        /\ UNCHANGED <<uuid, live, signalled>>
    BY <1>8 DEF stop_write, JobsAreOwned
  <2>2. JOBS[uuid[i]] # i \/ handler.job = i
    BY <1>0, <2>1 DEF Idle, TypeHandler, TypeThreads
  <2>. QED
    BY <1>1, <2>1, <2>2 DEF Gone
<1>9. CASE stop_fails
  <2>1. live'[i] \subseteq live[i] /\ UNCHANGED <<JOBS, uuid, signalled>> /\ handler' = Idle
    BY <1>0, <1>9 DEF stop_fails, killed, TypeThreads
  <2>. QED
    BY <1>2, <2>1 DEF Idle
<1>10. CASE crash \/ recover_fails
  <2>1. live' = [j \in Job |-> {}]
    BY <1>10 DEF crash, recover_fails, server_ends
  <2>. QED
    BY <2>1 DEF Gone
<1>11. ASSUME NEW j \in Job, run_thread(j) PROVE Gone(i)'
  <2>1. live'[i] \cap signalled'[i] \subseteq live[i] \cap signalled[i]
    <3>1. CASE popen(j)
      <4>1. PICK p \in Pid : /\ live' = [live EXCEPT ![j] = @ \cup {p}]
                             /\ signalled' = [signalled EXCEPT ![j] = @ \ {p}]
        BY <3>1 DEF popen
      <4>. QED
        BY <1>0, <4>1 DEF TypeThreads
    <3>2. CASE wait(j)
      BY <1>0, <3>2 DEF wait, TypeThreads
    <3>3. CASE ~popen(j) /\ ~wait(j)
      BY <1>11, <3>3
      DEF run_thread, loop, popen_fails, spawned, thread_open, thread_write,
          thread_save_fails, sleep
    <3>. QED
      BY <3>1, <3>2, <3>3
  <2>2. UNCHANGED <<JOBS, uuid, handler>>
    BY <1>11 DEF run_thread, handler_vars
  <2>. QED
    BY <1>2, <2>1, <2>2
<1>12. ASSUME NEW j \in Job, process_exits(j) PROVE Gone(i)'
  <2>1. live'[i] \subseteq live[i] /\ UNCHANGED <<JOBS, uuid, handler, signalled>>
    BY <1>0, <1>12 DEF TypeThreads, process_exits, handler_vars
  <2>. QED
    BY <1>2, <2>1
<1>13. CASE \/ UNCHANGED vars \/ answer \/ restart \/ start_open \/ start_write \/ start_fails
            \/ state_poll \/ state_error
            \/ \E u \in Uuid : stop_proof(u) \/ get_proof_state(u)
  <2>1. UNCHANGED <<JOBS, uuid, live, signalled>>
    BY <1>13
    DEF vars, handler_vars, thread_vars, answer, restart, start_open, start_write, start_fails,
        state_poll, state_error, stop_proof, get_proof_state
  <2>2. handler'.pc = "stop_write" => handler' = handler
    BY <1>0, <1>13
    DEF TypeHandler, vars, handler_vars, answer, restart, start_open, start_write, start_fails,
        state_poll, state_error, stop_proof, get_proof_state, Idle
  <2>. QED
    BY <1>2, <2>1, <2>2
<1>. QED
  BY <1>4, <1>5, <1>6, <1>7, <1>8, <1>9, <1>10, <1>11, <1>12, <1>13 DEF Next, Handle

\* Two prove_block.sh run in the directory of one uuid only if a failed save left
\* one of them to itself, or a stop looked for it too early, however start_proof,
\* stop_proof, crashes, faults and recovery interleave with the threads.
THEOREM OneScript == Spec => []OneScriptPerDirectory
<1>. DEFINE Inv == TypeOK /\ JobsAreOwned /\ OneProcessInv /\ SignalledIsGone
<1>1. Init => Inv
  BY InitHolds DEF Init, OneProcessInv, OneProcess, SignalledIsGone, Gone
<1>2. Inv /\ [Next]_vars => Inv'
  BY TypeStep, OwnedStep, OneProcessStep, GoneStep
<1>3. Inv => OneScriptPerDirectory
  <2>. SUFFICES ASSUME Inv, NEW i \in Job, NEW j \in Job, NEW p \in live[i], NEW q \in live[j],
                       uuid[i] = uuid[j], <<i, p>> # <<j, q>>,
                       ~Abandoned(i, p), ~Abandoned(j, q), ~Missed(i, p), ~Missed(j, q)
                PROVE FALSE
    BY DEF OneScriptPerDirectory
  <2>1. ASSUME NEW k \in Job, NEW r \in live[k], ~Abandoned(k, r)
        PROVE Attended(k, r)
    <3>1. CASE faults = 0
      BY <2>1, <3>1 DEF OneProcessInv, OneProcess, NoProcess, Attended
    <3>2. CASE faults # 0
      BY <2>1, <3>2 DEF Abandoned, TypeOK, TypeRest
    <3>. QED
      BY <3>1, <3>2
  <2>2. ASSUME NEW k \in Job, NEW r \in live[k], Attended(k, r), ~Missed(k, r)
        PROVE JOBS[uuid[k]] = k
    <3>. SUFFICES ASSUME JOBS[uuid[k]] # k PROVE FALSE
      OBVIOUS
    <3>1. is_active(k)
      BY <2>2 DEF Attended, is_active
    <3>2. stop_event[k]
      BY <3>1 DEF JobsAreOwned, OneRunnerPerUuid
    <3>3. r \in signalled[k]
      BY <2>2, <3>2 DEF Missed
    <3>. QED
      BY <3>3 DEF SignalledIsGone, Gone
  <2>3. i = j
    BY <2>1, <2>2
  <2>4. p = proc[i] /\ q = proc[j]
    BY <2>1 DEF Attended
  <2>. QED
    BY <2>3, <2>4
<1>. QED
  BY <1>1, <1>2, <1>3, PTL DEF Spec

=============================================================================
