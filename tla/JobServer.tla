----------------------------- MODULE JobServer -----------------------------
(***************************************************************************)
(* The proving service, server/main.py: the event loop that serves         *)
(* start_proof, stop_proof and proof_state one request at a time, the      *)
(* thread of every Job, the prove_block.sh processes the threads spawn,    *)
(* the manifest job.json of every proof uuid, and the restart that         *)
(* recovers jobs from the manifests (entrypoint.sh runs the server again   *)
(* after killing its process group).                                       *)
(*                                                                         *)
(* The handlers are coroutines without an await, so they never interleave  *)
(* with each other; they interleave with the job threads.  A manifest is   *)
(* saved in two steps, open("w") and the write: a save that starts or ends *)
(* in between, or a crash, can leave a file that json.load rejects.        *)
(***************************************************************************)
EXTENDS Integers

CONSTANTS
  Uuid,         \* proof uuids clients name
  MaxJobs,      \* bound on Job objects of one server process
  MaxPids,      \* bound on live processes of one job
  MaxCrashes,   \* bound on crashes of the server
  MaxFaults     \* bound on failing saves and failing Popen calls

ASSUME BoundsAssumption ==
  /\ Uuid # {}
  /\ MaxJobs \in Nat
  /\ MaxPids \in Nat
  /\ MaxCrashes \in Nat
  /\ MaxFaults \in Nat

VARIABLES
  up,            \* the server process runs
  recovering,    \* uuids whose manifest recover_jobs_from_disk has yet to read
  JOBS,          \* JOBS[u] is the number of u's Job, 0 when u is not a key
  made,          \* Job objects made by this server process
  uuid,          \* uuid[j] is proof_uuid of job j
  stop_event,    \* stop_event[j]
  thread,        \* program counter of job j's thread
  saving,        \* what that thread's current _persist_status saves
  proc,          \* the local variable proc of its _run_once
  current_proc,  \* self.current_proc, 0 for None
  live,          \* live[j]: processes spawned for j that have not ended
  signalled,     \* signalled[j]: processes of j that got terminate()
  handler,       \* the request or recovery under way: [pc, of (uuid), job]
  manifest,      \* manifest[u]: content of job.json
  asked,         \* the last answer u's client got
  lost,          \* u's job ended by a failed save or an unreadable manifest
  crashes, faults

handler_vars == <<recovering, JOBS, made, uuid, stop_event, handler>>
thread_vars == <<thread, saving, proc, current_proc>>
vars == <<up, handler_vars, thread_vars, live, signalled, manifest, asked, lost,
          crashes, faults>>

Job == 1 .. MaxJobs
Pid == 1 .. MaxPids
Status == {"pending", "running", "waiting", "error", "stopped"}

\* A mutant: a job between two blocks is not recovered.
RECOVER_JOB_STATUSES_no_waiting == {"pending", "running", "error"}
\* The default of the environment variable of the same name.
RECOVER_JOB_STATUSES == {"pending", "running", "error", "waiting"}

\* "empty" after open("w"), "garbled" after two writes into one truncated file.
Unreadable == {"empty", "garbled"}
Content == Status \cup Unreadable \cup {"missing"}

Idle == [pc |-> "idle", of |-> "none", job |-> 0]

is_active(j) == thread[j] \notin {"none", "dead"}

\* The first start, on an empty jobs directory.
Init ==
  /\ up = TRUE
  /\ recovering = {}
  /\ JOBS = [u \in Uuid |-> 0]
  /\ made = 0
  /\ uuid = [j \in Job |-> CHOOSE u \in Uuid : TRUE]
  /\ stop_event = [j \in Job |-> FALSE]
  /\ thread = [j \in Job |-> "none"]
  /\ saving = [j \in Job |-> "running"]
  /\ proc = [j \in Job |-> 0]
  /\ current_proc = [j \in Job |-> 0]
  /\ live = [j \in Job |-> {}]
  /\ signalled = [j \in Job |-> {}]
  /\ handler = Idle
  /\ manifest = [u \in Uuid |-> "missing"]
  /\ asked = [u \in Uuid |-> "nothing"]
  /\ lost = [u \in Uuid |-> FALSE]
  /\ crashes = 0
  /\ faults = 0

-----------------------------------------------------------------------------
(* _write_manifest.                                                        *)

open_manifest(u) == manifest' = [manifest EXCEPT ![u] = "empty"]

write_manifest(u, status) ==
  \E c \in IF manifest[u] = "empty" THEN {status} ELSE {status, "garbled"} :
    manifest' = [manifest EXCEPT ![u] = c]

\* open or write raises: the file is as it was, or truncated.
save_fails(u) ==
  /\ faults < MaxFaults
  /\ faults' = faults + 1
  /\ \E c \in {manifest[u], "empty"} : manifest' = [manifest EXCEPT ![u] = c]

-----------------------------------------------------------------------------
(* Requests.  Job.start and Job.stop run inside the handler.               *)

Serving == up /\ recovering = {} /\ handler = Idle

\* A mutant: the number of the new Job is given out again.
begin_start_reused(pc, u) ==
  LET j == IF JOBS[u] = 0 THEN made + 1 ELSE JOBS[u]
  IN
  /\ j \in Job
  /\ JOBS' = [JOBS EXCEPT ![u] = j]
  /\ made' = made
  /\ uuid' = [uuid EXCEPT ![j] = u]
  /\ stop_event' = [stop_event EXCEPT ![j] = FALSE]
  /\ handler' = [pc |-> pc, of |-> u, job |-> j]

\* Job.start up to its save, on a new Job or on one whose thread is over.
begin_start(pc, u) ==
  LET new == JOBS[u] = 0
      j == IF new THEN made + 1 ELSE JOBS[u]
  IN
  /\ new => made < MaxJobs
  /\ JOBS' = [JOBS EXCEPT ![u] = j]
  /\ made' = IF new THEN made + 1 ELSE made
  /\ uuid' = [uuid EXCEPT ![j] = u]
  /\ stop_event' = [stop_event EXCEPT ![j] = FALSE]
  /\ handler' = [pc |-> pc, of |-> u, job |-> j]

\* Answers that change nothing: health, logs, start_proof's "job already running",
\* "job not found", and get_proof_state of a job without a current_proc.
answer == Serving /\ UNCHANGED vars

\* start_proof of a uuid without an active job.
start_proof(u) ==
  /\ Serving
  /\ JOBS[u] # 0 => ~is_active(JOBS[u])
  /\ begin_start("start_open", u)
  /\ asked' = [asked EXCEPT ![u] = "unsure"]
  /\ UNCHANGED <<up, recovering, thread_vars, live, signalled, manifest, lost,
                 crashes, faults>>

\* Job.start: the save of "pending", and the new thread.
start_open ==
  /\ up
  /\ handler.pc \in {"start_open", "recover_open"}
  /\ open_manifest(handler.of)
  /\ handler' = [handler EXCEPT !.pc =
                   IF @ = "start_open" THEN "start_write" ELSE "recover_write"]
  /\ UNCHANGED <<up, recovering, JOBS, made, uuid, stop_event, thread_vars, live,
                 signalled, asked, lost, crashes, faults>>

start_write ==
  LET u == handler.of IN
  /\ up
  /\ handler.pc \in {"start_write", "recover_write"}
  /\ write_manifest(u, "pending")
  /\ thread' = [thread EXCEPT ![handler.job] = "loop"]
  /\ asked' = IF handler.pc = "start_write" THEN [asked EXCEPT ![u] = "started"]
              ELSE asked
  /\ lost' = IF handler.pc = "start_write" THEN [lost EXCEPT ![u] = FALSE] ELSE lost
  /\ handler' = Idle
  /\ UNCHANGED <<up, recovering, JOBS, made, uuid, stop_event, saving, proc,
                 current_proc, live, signalled, crashes, faults>>

\* start_proof answers 500; the Job stays in JOBS without a thread.
start_fails ==
  /\ up
  /\ handler.pc = "start_open"
  /\ save_fails(handler.of)
  /\ handler' = Idle
  /\ UNCHANGED <<up, recovering, JOBS, made, uuid, stop_event, thread_vars, live,
                 signalled, asked, lost, crashes>>

\* A mutant: the job is signalled and forgotten, and its thread not told.
stop_proof_no_event(u) ==
  /\ Serving
  /\ JOBS[u] # 0
  /\ handler' = [pc |-> "stop_read", of |-> u, job |-> JOBS[u]]
  /\ asked' = [asked EXCEPT ![u] = "unsure"]
  /\ UNCHANGED <<up, recovering, JOBS, made, uuid, stop_event, thread_vars, live,
                 signalled, manifest, lost, crashes, faults>>

\* stop_proof: job.stop sets the event first.
stop_proof(u) ==
  /\ Serving
  /\ JOBS[u] # 0
  /\ stop_event' = [stop_event EXCEPT ![JOBS[u]] = TRUE]
  /\ handler' = [pc |-> "stop_read", of |-> u, job |-> JOBS[u]]
  /\ asked' = [asked EXCEPT ![u] = "unsure"]
  /\ UNCHANGED <<up, recovering, JOBS, made, uuid, thread_vars, live, signalled,
                 manifest, lost, crashes, faults>>

\* It terminates the process it finds in current_proc ...
stop_read ==
  LET j == handler.job
      p == current_proc[j]
  IN
  /\ up
  /\ handler.pc = "stop_read"
  /\ signalled' = [signalled EXCEPT ![j] = @ \cup ({p} \cap live[j])]
  /\ handler' = [handler EXCEPT !.pc = "stop_open"]
  /\ UNCHANGED <<up, recovering, JOBS, made, uuid, stop_event, thread_vars, live,
                 manifest, asked, lost, crashes, faults>>

\* A mutant: a process that does not end within 10 s is left alone.
stop_open_no_kill ==
  /\ up
  /\ handler.pc = "stop_open"
  /\ open_manifest(handler.of)
  /\ handler' = [handler EXCEPT !.pc = "stop_write"]
  /\ UNCHANGED <<up, recovering, JOBS, made, uuid, stop_event, thread_vars, live,
                 signalled, asked, lost, crashes, faults>>

\* ... and goes on when that has ended, or has been killed after 10 s.
killed(j) == live' = [live EXCEPT ![j] = @ \ signalled[j]]

stop_open ==
  /\ up
  /\ handler.pc = "stop_open"
  /\ killed(handler.job)
  /\ open_manifest(handler.of)
  /\ handler' = [handler EXCEPT !.pc = "stop_write"]
  /\ UNCHANGED <<up, recovering, JOBS, made, uuid, stop_event, thread_vars, signalled,
                 asked, lost, crashes, faults>>

\* The save of "stopped", JOBS.pop and the answer "job stopped".
stop_write ==
  LET u == handler.of IN
  /\ up
  /\ handler.pc = "stop_write"
  /\ write_manifest(u, "stopped")
  /\ JOBS' = [JOBS EXCEPT ![u] = 0]
  /\ asked' = [asked EXCEPT ![u] = "stopped"]
  /\ lost' = [lost EXCEPT ![u] = FALSE]
  /\ handler' = Idle
  /\ UNCHANGED <<up, recovering, made, uuid, stop_event, thread_vars, live,
                 signalled, crashes, faults>>

\* stop_proof answers 500; JOBS.pop is not reached.
stop_fails ==
  /\ up
  /\ handler.pc = "stop_open"
  /\ killed(handler.job)
  /\ save_fails(handler.of)
  /\ handler' = Idle
  /\ UNCHANGED <<up, recovering, JOBS, made, uuid, stop_event, thread_vars, signalled,
                 asked, lost, crashes>>

\* get_proof_state: is_running reads current_proc once for None ...
get_proof_state(u) ==
  /\ Serving
  /\ JOBS[u] # 0
  /\ current_proc[JOBS[u]] # 0
  /\ handler' = [pc |-> "state_poll", of |-> u, job |-> JOBS[u]]
  /\ UNCHANGED <<up, recovering, JOBS, made, uuid, stop_event, thread_vars, live,
                 signalled, manifest, asked, lost, crashes, faults>>

\* ... and again for poll(), which None does not have.
state_poll ==
  /\ up
  /\ handler.pc = "state_poll"
  /\ handler' = IF current_proc[handler.job] = 0
                THEN [handler EXCEPT !.pc = "state_error"] ELSE Idle
  /\ UNCHANGED <<up, recovering, JOBS, made, uuid, stop_event, thread_vars, live,
                 signalled, manifest, asked, lost, crashes, faults>>

\* The AttributeError becomes a 500.
state_error ==
  /\ up
  /\ handler.pc = "state_error"
  /\ handler' = Idle
  /\ UNCHANGED <<up, recovering, JOBS, made, uuid, stop_event, thread_vars, live,
                 signalled, manifest, asked, lost, crashes, faults>>

-----------------------------------------------------------------------------
(* The thread of job j: _run_loop and _run_once.                           *)

\* while not self.stop_event.is_set()
loop(j) ==
  /\ thread[j] = "loop"
  /\ thread' = [thread EXCEPT ![j] = IF stop_event[j] THEN "dead" ELSE "popen"]
  /\ UNCHANGED <<saving, proc, current_proc, live, signalled, manifest, lost, faults>>

popen(j) ==
  /\ thread[j] = "popen"
  /\ \E p \in Pid \ live[j] :
       /\ \A q \in Pid : q < p => q \in live[j]
       /\ live' = [live EXCEPT ![j] = @ \cup {p}]
       /\ signalled' = [signalled EXCEPT ![j] = @ \ {p}]
       /\ proc' = [proc EXCEPT ![j] = p]
  /\ thread' = [thread EXCEPT ![j] = "spawned"]
  /\ UNCHANGED <<saving, current_proc, manifest, lost, faults>>

\* An exception of Popen or of the log files' open: the except clause saves.
popen_fails(j) ==
  /\ thread[j] = "popen"
  /\ faults < MaxFaults
  /\ faults' = faults + 1
  /\ thread' = [thread EXCEPT ![j] = "open"]
  /\ saving' = [saving EXCEPT ![j] = "exception"]
  /\ UNCHANGED <<proc, current_proc, live, signalled, manifest, lost>>

\* self.current_proc = proc
spawned(j) ==
  /\ thread[j] = "spawned"
  /\ current_proc' = [current_proc EXCEPT ![j] = proc[j]]
  /\ thread' = [thread EXCEPT ![j] = "open"]
  /\ saving' = [saving EXCEPT ![j] = "running"]
  /\ UNCHANGED <<proc, live, signalled, manifest, lost, faults>>

thread_open(j) ==
  /\ thread[j] = "open"
  /\ open_manifest(uuid[j])
  /\ thread' = [thread EXCEPT ![j] = "write"]
  /\ UNCHANGED <<saving, proc, current_proc, live, signalled, lost, faults>>

\* A mutant: the next run starts without a look at stop_event.
thread_write_again(j) ==
  LET done == saving[j] # "running" IN
  /\ thread[j] = "write"
  /\ write_manifest(uuid[j], IF saving[j] = "exception" THEN "error" ELSE saving[j])
  /\ thread' = [thread EXCEPT ![j] = IF done THEN "popen" ELSE "wait"]
  /\ current_proc' = [current_proc EXCEPT ![j] = IF done THEN 0 ELSE @]
  /\ saving' = [saving EXCEPT ![j] = "running"]
  /\ UNCHANGED <<proc, live, signalled, lost, faults>>

\* With a run's result saved, the finally clause clears current_proc.
thread_write(j) ==
  LET done == saving[j] # "running" IN
  /\ thread[j] = "write"
  /\ write_manifest(uuid[j], IF saving[j] = "exception" THEN "error" ELSE saving[j])
  /\ thread' = [thread EXCEPT ![j] = IF done THEN "sleep" ELSE "wait"]
  /\ current_proc' = [current_proc EXCEPT ![j] = IF done THEN 0 ELSE @]
  /\ saving' = [saving EXCEPT ![j] = "running"]
  /\ UNCHANGED <<proc, live, signalled, lost, faults>>

\* A save that raises goes to the except clause, without waiting for the
\* process; in the except clause it ends the thread.
thread_save_fails(j) ==
  LET ends == saving[j] = "exception" IN
  /\ thread[j] = "open"
  /\ save_fails(uuid[j])
  /\ thread' = [thread EXCEPT ![j] = IF ends THEN "dead" ELSE "open"]
  /\ saving' = [saving EXCEPT ![j] = "exception"]
  /\ current_proc' = [current_proc EXCEPT ![j] = IF ends THEN 0 ELSE @]
  /\ lost' = IF ends /\ ~stop_event[j] THEN [lost EXCEPT ![uuid[j]] = TRUE] ELSE lost
  /\ UNCHANGED <<proc, live, signalled>>

\* proc.wait() returns; a terminated script has an exit code other than 0.
wait(j) ==
  /\ thread[j] = "wait"
  /\ proc[j] \notin live[j]
  /\ \E status \in {"waiting", "error"} :
       /\ proc[j] \in signalled[j] => status = "error"
       /\ saving' = [saving EXCEPT ![j] = status]
  /\ proc' = [proc EXCEPT ![j] = 0]
  /\ signalled' = [signalled EXCEPT ![j] = @ \ {proc[j]}]
  /\ thread' = [thread EXCEPT ![j] = "open"]
  /\ UNCHANGED <<current_proc, live, manifest, lost, faults>>

\* self.stop_event.wait(timeout=retry_delay)
sleep(j) ==
  /\ thread[j] = "sleep"
  /\ thread' = [thread EXCEPT ![j] = IF stop_event[j] THEN "dead" ELSE "loop"]
  /\ UNCHANGED <<saving, proc, current_proc, live, signalled, manifest, lost, faults>>

run_thread(j) ==
  /\ \/ loop(j) \/ popen(j) \/ popen_fails(j) \/ spawned(j) \/ thread_open(j)
     \/ thread_write(j) \/ thread_save_fails(j) \/ wait(j) \/ sleep(j)
  /\ UNCHANGED <<up, handler_vars, asked, crashes>>

\* prove_block.sh of job j ends (external).
process_exits(j) ==
  /\ \E p \in live[j] : live' = [live EXCEPT ![j] = @ \ {p}]
  /\ UNCHANGED <<up, handler_vars, thread_vars, signalled, manifest, asked, lost,
                 crashes, faults>>

-----------------------------------------------------------------------------
(* Crash, restart and recovery.                                            *)

\* The process group dies with the server; the manifests stay.
server_ends ==
  /\ up' = FALSE
  /\ recovering' = {}
  /\ JOBS' = [u \in Uuid |-> 0]
  /\ made' = 0
  /\ stop_event' = [j \in Job |-> FALSE]
  /\ thread' = [j \in Job |-> "none"]
  /\ saving' = [j \in Job |-> "running"]
  /\ proc' = [j \in Job |-> 0]
  /\ current_proc' = [j \in Job |-> 0]
  /\ live' = [j \in Job |-> {}]
  /\ signalled' = [j \in Job |-> {}]
  /\ handler' = Idle
  /\ lost' = [u \in Uuid |-> lost[u] \/ manifest'[u] \in Unreadable]
  /\ UNCHANGED <<uuid, asked>>

crash ==
  /\ up
  /\ crashes < MaxCrashes
  /\ crashes' = crashes + 1
  /\ manifest' = manifest
  /\ server_ends
  /\ UNCHANGED faults

restart ==
  /\ ~up
  /\ up' = TRUE
  /\ recovering' = {u \in Uuid : manifest[u] # "missing"}
  /\ UNCHANGED <<JOBS, made, uuid, stop_event, handler, thread_vars, live, signalled,
                 manifest, asked, lost, crashes, faults>>

\* One manifest of the glob, in any order; an unreadable one has no proof_uuid.
recover_job(u) ==
  /\ up
  /\ handler = Idle
  /\ u \in recovering
  /\ recovering' = recovering \ {u}
  /\ IF manifest[u] \in RECOVER_JOB_STATUSES /\ JOBS[u] = 0
     THEN begin_start("recover_open", u)
     ELSE UNCHANGED <<JOBS, made, uuid, stop_event, handler>>
  /\ UNCHANGED <<up, thread_vars, live, signalled, manifest, asked, lost, crashes,
                 faults>>

\* An exception in the startup hook ends the server.
recover_fails ==
  /\ up
  /\ handler.pc = "recover_open"
  /\ save_fails(handler.of)
  /\ server_ends
  /\ UNCHANGED crashes

-----------------------------------------------------------------------------

Handle ==
  \/ start_open \/ start_write \/ start_fails
  \/ stop_read \/ stop_open \/ stop_write \/ stop_fails
  \/ state_poll \/ state_error
  \/ recover_fails
  \/ \E u \in Uuid : recover_job(u)

Next ==
  \/ answer
  \/ \E u \in Uuid : start_proof(u) \/ stop_proof(u) \/ get_proof_state(u)
  \/ Handle
  \/ \E j \in Job : run_thread(j) \/ process_exits(j)
  \/ crash
  \/ restart

Spec == Init /\ [][Next]_vars

\* The kernel runs every thread, prove_block.sh ends, and entrypoint.sh starts
\* the server again.
FairSpec ==
  /\ Spec
  /\ WF_vars(Handle)
  /\ WF_vars(restart)
  /\ \A j \in Job : WF_vars(run_thread(j)) /\ WF_vars(process_exits(j))

-----------------------------------------------------------------------------
(* Properties.                                                             *)

ThreadPc == {"none", "loop", "popen", "spawned", "open", "write", "wait", "sleep",
             "dead"}
HandlerPc == {"idle", "start_open", "start_write", "recover_open", "recover_write",
              "stop_read", "stop_open", "stop_write", "state_poll", "state_error"}

TypeHandler ==
  /\ made \in 0 .. MaxJobs
  /\ JOBS \in [Uuid -> 0 .. made]
  /\ handler \in [pc : HandlerPc, of : Uuid \cup {"none"}, job : 0 .. made]
  /\ handler.pc = "idle" => handler = Idle
  /\ handler.pc # "idle" => handler.of \in Uuid /\ handler.job # 0

TypeThreads ==
  /\ uuid \in [Job -> Uuid]
  /\ stop_event \in [Job -> BOOLEAN]
  /\ thread \in [Job -> ThreadPc]
  /\ saving \in [Job -> {"running", "waiting", "error", "exception"}]
  /\ proc \in [Job -> 0 .. MaxPids]
  /\ current_proc \in [Job -> 0 .. MaxPids]
  /\ live \in [Job -> SUBSET Pid]
  /\ signalled \in [Job -> SUBSET Pid]
  /\ \A j \in Job : j > made => thread[j] = "none"

TypeRest ==
  /\ up \in BOOLEAN
  /\ recovering \in SUBSET Uuid
  /\ manifest \in [Uuid -> Content]
  /\ asked \in [Uuid -> {"nothing", "unsure", "started", "stopped"}]
  /\ lost \in [Uuid -> BOOLEAN]
  /\ crashes \in 0 .. MaxCrashes
  /\ faults \in 0 .. MaxFaults

\* The server's variables keep their types: the request under way and every
\* entry of JOBS name a Job that was made, and Job objects not made yet have no
\* thread.
TypeOK == TypeHandler /\ TypeThreads /\ TypeRest

\* A thread that is not told to stop is the one JOBS knows for its uuid: after
\* any sequence of start, stop, failed and repeated requests, a uuid has at most
\* one thread that goes on starting provers.
OneRunnerPerUuid ==
  \A j \in Job : is_active(j) /\ ~stop_event[j] => JOBS[uuid[j]] = j

\* A client told "job started" has a running job whenever the server serves
\* requests again, over crashes and restarts, unless a save of its manifest
\* failed or was cut short.
WantedJobIsKept ==
  \A u \in Uuid :
    Serving /\ asked[u] = "started" /\ ~lost[u] =>
      JOBS[u] # 0 /\ is_active(JOBS[u]) /\ ~stop_event[JOBS[u]]

\* What OneRunnerPerUuid rests on: JOBS and the job objects agree on the uuid, the
\* request under way works on the job JOBS holds, Job.start finds no thread of
\* that job, and Job.stop has set its event.
JobsAreOwned ==
  /\ \A u \in Uuid : JOBS[u] # 0 => uuid[JOBS[u]] = u
  /\ handler.pc # "idle" => handler.job = JOBS[handler.of]
  /\ handler.pc \in {"start_open", "start_write", "recover_open", "recover_write"} =>
       ~is_active(handler.job) /\ ~stop_event[handler.job]
  /\ handler.pc \in {"stop_read", "stop_open", "stop_write"} => stop_event[handler.job]
  /\ OneRunnerPerUuid

\* What WantedJobIsKept rests on.  While manifests are read, no job is told to
\* stop and a uuid still to be read has no job; a uuid with a request under way
\* has no answer to rely on.
RecoveryIsAlone ==
  /\ ~up => /\ recovering = {}
            /\ handler = Idle
            /\ \A j \in Job : thread[j] = "none" /\ ~stop_event[j]
            /\ \A u \in Uuid : JOBS[u] = 0
  /\ recovering # {} =>
       /\ handler.pc \in {"idle", "recover_open", "recover_write"}
       /\ \A j \in Job : ~stop_event[j]
  /\ \A u \in recovering : JOBS[u] = 0
  /\ handler.pc \in {"start_open", "start_write", "stop_read", "stop_open", "stop_write"} =>
       asked[handler.of] = "unsure"

\* The manifest of a wanted job is one that recovery accepts, or one that a save
\* has under way, and the job is active once recovery is through with its uuid.
Recovers(u) == handler.of = u /\ handler.pc \in {"recover_open", "recover_write"}

OnDisk(u) == manifest[u] \in RECOVER_JOB_STATUSES

Kept(u) ==
  /\ OnDisk(u) \/ manifest[u] \in Unreadable
  /\ JOBS[u] # 0
  /\ ~stop_event[JOBS[u]]
  /\ is_active(JOBS[u]) \/ Recovers(u)

WantedJobsSurvive ==
  \A u \in Uuid : asked[u] = "started" /\ ~lost[u] =>
    IF ~up \/ u \in recovering THEN OnDisk(u) ELSE Kept(u)

\* A job that was told to stop goes quiet, unless it is started again: its thread
\* ends, and so does every process of it, the one included that was spawned after
\* stop read current_proc.
StopTakesEffect ==
  \A j \in Job : stop_event[j] ~> (~stop_event[j] \/ (~is_active(j) /\ live[j] = {}))

\* Job j's thread waits for process p, or is about to.
Attended(j, p) ==
  /\ proc[j] = p
  /\ \/ thread[j] \in {"spawned", "wait"}
     \/ thread[j] \in {"open", "write"} /\ saving[j] = "running"

\* Two ways in which a process of job j outlives what was meant to wait for it or
\* to end it: a failed save took the thread away from it, or the stop that
\* removed j from JOBS read current_proc before the thread had set it.
Abandoned(j, p) == faults > 0 /\ ~Attended(j, p)
Missed(j, p) == stop_event[j] /\ JOBS[uuid[j]] # j /\ p \notin signalled[j]

\* The directory JOBS_ROOT/proof_uuid, which a stopped Job shares with its
\* successor, has one running prove_block.sh at a time, over stops, new starts,
\* crashes and recovery, unless one of two was abandoned or missed.
OneScriptPerDirectory ==
  \A i, j \in Job : \A p \in live[i], q \in live[j] :
    uuid[i] = uuid[j] /\ <<i, p>> # <<j, q>> =>
      \/ Abandoned(i, p) \/ Abandoned(j, q)
      \/ Missed(i, p) \/ Missed(j, q)

\* A job whose client was told "job stopped" is not started by a later restart:
\* its manifest says "stopped", which is not among RECOVER_JOB_STATUSES.
StoppedJobsStayStopped ==
  \A u \in Uuid : Serving /\ asked[u] = "stopped" => JOBS[u] = 0

=============================================================================
