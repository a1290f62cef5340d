-------------------------------- MODULE Jobs --------------------------------
(***************************************************************************)
(* Background jobs of the server: runtime/processes.py (task queue, script *)
(* runner, pipeline), the stop endpoint of routes/process.py, the shutdown *)
(* half of main.py's lifespan, and the scripts seen from outside (stop     *)
(* flag, checkpoint file, exit code).                                      *)
(*                                                                         *)
(* The server is one asyncio loop, so an action is the code between two    *)
(* awaits.  pc names the await the queue worker is suspended at; a stop    *)
(* request suspends at its wait for the child.  Scripts are separate OS    *)
(* processes and interleave with everything.                               *)
(***************************************************************************)
EXTENDS Naturals, Sequences

CONSTANTS
    Script,         \* status keys whose task runs one child process
    Pipeline,       \* the key full_pipeline
    Steps,          \* the scripts run_pipeline_task runs, in order
    Unguarded,      \* scripts enqueued without check_any_running (user, single_update)
    Plain,          \* scripts run by run_script instead of run_script_with_args
    Polling,        \* scripts that look for their stop flag
    BootClears,     \* scripts that remove their stop flag as they start
    Checkpointing,  \* scripts that keep a checkpoint file
    SavesOnStop,    \* those whose checkpoint outlives an exit on the stop flag
    Stopper,        \* concurrent POST /api/stop/{key} requests
    Stoppable,      \* the keys they are sent for
    FlagShared,     \* the working directory is APP_DATA_DIR
    Faults,         \* environment faults that can happen, a subset of FaultKind
    MaxQueue,       \* bound on the queue, which asyncio.Queue leaves unbounded
    None            \* Python's None

FaultKind == {"missing", "spawn", "stream", "shutdown", "crash"}

Key == Script \cup {Pipeline}

ASSUME JobsAssumption ==
    /\ Pipeline \notin Script
    /\ None \notin Key
    /\ Steps \in Seq(Script)
    /\ \A i, j \in DOMAIN Steps : Steps[i] = Steps[j] => i = j
    /\ Len(Steps) > 0
    /\ Unguarded \subseteq Script
    /\ Plain \subseteq Script
    /\ \A i \in DOMAIN Steps : Steps[i] \notin Unguarded \cup Plain
    /\ Polling \subseteq Script
    /\ BootClears \subseteq Script
    /\ Checkpointing \subseteq Script
    /\ SavesOnStop \subseteq Checkpointing \cap Polling
    /\ Stoppable \subseteq Key
    /\ FlagShared \in BOOLEAN
    /\ Faults \subseteq FaultKind
    /\ MaxQueue \in Nat

VARIABLES
    process_status,           \* process_status[key]
    queue,                    \* TaskQueue.queue: the keys of the tasks put on it
    task,                     \* the task the worker executes, or None
    cur,                      \* status_key of the script being run, or None
    step,                     \* index in Steps of the pipeline's step
    pc,                       \* the await the worker is suspended at
    running,                  \* running_processes[key] is not None
    active_pipeline_key,      \* running_processes["active_pipeline_key"]
    pipeline_stop_requested,
    child,                    \* the OS process the runner of key started
    exit,                     \* how the last process of key ended
    orphan,                   \* scripts with a live process no runner waits for
    flag,                     \* stop_<key>.flag exists in APP_DATA_DIR
    checkpoint,               \* checkpoint_<key>.json exists in APP_DATA_DIR
    stop,                     \* the stop requests in flight
    server                    \* lifespan of the server process

worker_vars == <<task, cur, step, pc>>
os_vars     == <<child, exit, orphan>>
files       == <<flag, checkpoint>>
registry    == <<running, active_pipeline_key>>
vars == <<process_status, queue, worker_vars, registry, pipeline_stop_requested,
          os_vars, files, stop, server>>

-----------------------------------------------------------------------------
(* Types *)

Status == {"idle", "queued", "running", "completed", "stopped", "error"}
Busy   == {"running", "queued"}
Failed == {"stopped", "error"}
Exit   == {"ok", "graceful", "limit", "crash", "term"}
WorkerPC == {"idle", "enter", "announce", "start", "spawned", "wait", "post",
             "conclude", "final", "off"}

IdleStop == [pc |-> "idle", key |-> None, target |-> None]
StopRequest == [pc : {"idle", "wait", "woken", "stale"},
                key : Key \cup {None}, target : Script \cup {None}]

TypeOK ==
    /\ process_status \in [Key -> Status]
    /\ queue \in Seq(Key)
    /\ task \in Key \cup {None}
    /\ cur \in Script \cup {None}
    /\ step \in Nat
    /\ pc \in WorkerPC
    /\ running \in [Script -> BOOLEAN]
    /\ active_pipeline_key \in Script \cup {None}
    /\ pipeline_stop_requested \in BOOLEAN
    /\ child \in [Script -> {"none", "boot", "run", "term"}]
    /\ exit \in [Script -> Exit \cup {"none"}]
    /\ orphan \subseteq Script
    /\ flag \in [Script -> BOOLEAN]
    /\ checkpoint \in [Script -> BOOLEAN]
    /\ stop \in [Stopper -> StopRequest]
    /\ server \in {"up", "draining", "down"}

Init ==
    /\ process_status = [k \in Key |-> "idle"]
    /\ queue = <<>>
    /\ task = None /\ cur = None /\ step = 0 /\ pc = "idle"
    /\ running = [k \in Script |-> FALSE]
    /\ active_pipeline_key = None
    /\ pipeline_stop_requested = FALSE
    /\ child = [k \in Script |-> "none"]
    /\ exit = [k \in Script |-> "none"]
    /\ orphan = {}
    /\ flag = [k \in Script |-> FALSE]
    /\ checkpoint \in {c \in [Script -> BOOLEAN] :
                         \A k \in Script : c[k] => k \in Checkpointing}
    /\ stop = [h \in Stopper |-> IdleStop]
    /\ server = "up"

-----------------------------------------------------------------------------
(* Start endpoints *)

Queued(k) == \E i \in DOMAIN queue : queue[i] = k
Alive(k)  == child[k] # "none"

\* check_any_running returns instead of raising.
NothingBusy == \A k \in Key : process_status[k] \notin Busy

AddTask(k) ==
    /\ Len(queue) < MaxQueue
    /\ process_status' = [process_status EXCEPT ![k] = "queued"]
    /\ queue' = Append(queue, k)

Submit(k) ==
    /\ server = "up"
    /\ AddTask(k)
    /\ UNCHANGED <<worker_vars, registry, pipeline_stop_requested, os_vars,
                   files, stop, server>>

\* The start_* endpoints: the check and add_task share one atomic section.
Start(k) == k \notin Unguarded /\ NothingBusy /\ Submit(k)

\* /api/sync_user and /api/update_item do not call check_any_running.
Enqueue(k) == k \in Unguarded /\ Submit(k)

-----------------------------------------------------------------------------
(* The queue worker and the script runner *)

\* asyncio runs what is ready before it looks for I/O again: a request woken by
\* the end of a process has answered before the next process reports anything.
NoneReady == \A h \in Stopper : stop[h].pc # "woken"

WorkerOnly == UNCHANGED <<registry, os_vars, files, stop, server>>

\* The worker takes a script's task and enters its runner.
Dequeue ==
    /\ server # "down" /\ pc = "idle" /\ queue # <<>> /\ Head(queue) \in Script
    /\ task' = Head(queue) /\ cur' = Head(queue) /\ pc' = "start"
    /\ queue' = Tail(queue)
    /\ process_status' = [process_status EXCEPT ![Head(queue)] = "running"]
    /\ UNCHANGED <<step, pipeline_stop_requested>> /\ WorkerOnly

\* The worker enters run_pipeline_task, which forgets an earlier stop request.
DequeuePipeline ==
    /\ server # "down" /\ pc = "idle" /\ queue # <<>> /\ Head(queue) = Pipeline
    /\ task' = Pipeline /\ step' = 0 /\ pc' = "enter"
    /\ queue' = Tail(queue)
    /\ process_status' = [process_status EXCEPT ![Pipeline] = "running"]
    /\ pipeline_stop_requested' = FALSE
    /\ UNCHANGED cur /\ WorkerOnly

\* Variants: without the test for "completed", without the status.
FinalizeClearing(s) ==
    /\ running' = [running EXCEPT ![cur] = FALSE]
    /\ active_pipeline_key' = IF task = Pipeline THEN None ELSE active_pipeline_key
    /\ process_status' = [process_status EXCEPT ![cur] = s]
    /\ flag' = [flag EXCEPT ![cur] = FALSE]
    /\ checkpoint' = [checkpoint EXCEPT ![cur] = FALSE]
    /\ pc' = "post"
    /\ UNCHANGED <<queue, task, cur, step, pipeline_stop_requested, stop, server>>

FinalizeSilently(s) ==
    /\ running' = [running EXCEPT ![cur] = FALSE]
    /\ active_pipeline_key' = IF task = Pipeline THEN None ELSE active_pipeline_key
    /\ flag' = [flag EXCEPT ![cur] = FALSE]
    /\ checkpoint' = [checkpoint EXCEPT ![cur] = @ /\ s # "completed"]
    /\ pc' = "post"
    /\ UNCHANGED <<process_status, queue, task, cur, step, pipeline_stop_requested,
                   stop, server>>

\* The finally block of the runner: s is the status it settles on.
Finalize(s) ==
    /\ running' = [running EXCEPT ![cur] = FALSE]
    /\ active_pipeline_key' = IF task = Pipeline THEN None ELSE active_pipeline_key
    /\ process_status' = [process_status EXCEPT ![cur] = s]
    /\ flag' = [flag EXCEPT ![cur] = FALSE]
    /\ checkpoint' = [checkpoint EXCEPT ![cur] = @ /\ s # "completed"]
    /\ pc' = "post"
    /\ UNCHANGED <<queue, task, cur, step, pipeline_stop_requested, stop, server>>

\* The script file does not exist: the runner returns before its try block.
ScriptMissing ==
    /\ "missing" \in Faults /\ server # "down" /\ pc = "start"
    /\ process_status' = [process_status EXCEPT ![cur] = "error"]
    /\ pc' = "post"
    /\ UNCHANGED <<queue, task, cur, step, pipeline_stop_requested>> /\ WorkerOnly

\* create_subprocess_exec: the process exists before the runner resumes.
Spawn ==
    /\ server # "down" /\ pc = "start"
    /\ child' = [child EXCEPT ![cur] = "boot"]
    /\ exit' = [exit EXCEPT ![cur] = "none"]
    /\ pc' = "spawned"
    /\ UNCHANGED <<process_status, queue, task, cur, step, registry,
                   pipeline_stop_requested, orphan, files, stop, server>>

SpawnFails ==
    /\ "spawn" \in Faults /\ server # "down" /\ pc = "start"
    /\ Finalize("error") /\ UNCHANGED os_vars

\* Variant that publishes the task's key for the script's.
RegisterTask ==
    /\ server # "down" /\ pc = "spawned" /\ NoneReady
    /\ running' = [running EXCEPT ![cur] = TRUE]
    /\ active_pipeline_key' = IF task = Pipeline THEN task ELSE active_pipeline_key
    /\ pc' = "wait"
    /\ UNCHANGED <<process_status, queue, task, cur, step,
                   pipeline_stop_requested, os_vars, files, stop, server>>

\* The runner resumes and publishes the process in running_processes.
Register ==
    /\ server # "down" /\ pc = "spawned" /\ NoneReady
    /\ running' = [running EXCEPT ![cur] = TRUE]
    /\ active_pipeline_key' = IF task = Pipeline THEN cur ELSE active_pipeline_key
    /\ pc' = "wait"
    /\ UNCHANGED <<process_status, queue, task, cur, step,
                   pipeline_stop_requested, os_vars, files, stop, server>>

\* returncode of a process that ended in this way (15 stands for SIGTERM).
ReturnCode(e) == CASE e \in {"ok", "graceful"} -> 0
                   [] e = "limit" -> 2
                   [] e = "crash" -> 1
                   [] e = "term"  -> 15

Classify(k, code) ==
    IF code = 0 THEN "completed"
    ELSE IF k \in Plain \/ code \in {1, 15} THEN "stopped" ELSE "error"

\* Variant that trusts the initial value status = "completed".
FinishUnclassified ==
    /\ server # "down" /\ pc = "wait" /\ ~Alive(cur)
    /\ Finalize("completed") /\ UNCHANGED os_vars

\* Variant that leaves the read loop without waiting for the process.
FinishEarly ==
    /\ server # "down" /\ pc = "wait"
    /\ Finalize("error") /\ UNCHANGED os_vars

\* The process has ended: its return code becomes the status of the key.
Finish ==
    /\ server # "down" /\ pc = "wait" /\ ~Alive(cur)
    /\ Finalize(Classify(cur, ReturnCode(exit[cur])))
    /\ UNCHANGED os_vars

\* Writing the log raises in the read loop: the runner settles on "error" and
\* leaves the process, and the requests waiting for it, to themselves.
StreamFails ==
    /\ "stream" \in Faults /\ server # "down" /\ pc = "wait" /\ cur \notin Plain
    /\ orphan' = IF Alive(cur) THEN orphan \cup {cur} ELSE orphan
    /\ child' = [child EXCEPT ![cur] = "none"]
    /\ running' = [running EXCEPT ![cur] = FALSE]
    /\ active_pipeline_key' = IF task = Pipeline THEN None ELSE active_pipeline_key
    /\ process_status' = [process_status EXCEPT ![cur] = "error"]
    /\ flag' = [flag EXCEPT ![cur] = FALSE]
    /\ pc' = "post"
    /\ stop' = [h \in Stopper |-> IF stop[h].pc = "wait" /\ stop[h].target = cur
                                  THEN [stop[h] EXCEPT !.pc = "stale"] ELSE stop[h]]
    /\ UNCHANGED <<queue, task, cur, step, pipeline_stop_requested, exit,
                   checkpoint, server>>

\* Variant whose worker does not survive a failed task.
ReturnUnlessFailed ==
    /\ server # "down" /\ pc = "post" /\ task # Pipeline
    /\ task' = None /\ cur' = None
    /\ pc' = IF process_status[cur] = "error" THEN "off" ELSE "idle"
    /\ UNCHANGED <<process_status, queue, step, pipeline_stop_requested>>
    /\ WorkerOnly

\* A task that is one script returns to the worker loop.
Return ==
    /\ server # "down" /\ pc = "post" /\ task # Pipeline
    /\ task' = None /\ cur' = None /\ pc' = "idle"
    /\ UNCHANGED <<process_status, queue, step, pipeline_stop_requested>>
    /\ WorkerOnly

-----------------------------------------------------------------------------
(* run_pipeline_task *)

StepBad == process_status[cur] \in Failed

\* The code after the loop, up to its next await.
ConcludeStopped ==
    /\ pipeline_stop_requested
    /\ process_status' = [process_status EXCEPT ![Pipeline] = "stopped"]
    /\ pipeline_stop_requested' = FALSE
    /\ task' = None /\ cur' = None /\ pc' = "idle"
    /\ UNCHANGED <<queue, step>> /\ WorkerOnly

ConcludeCompleted ==
    /\ ~pipeline_stop_requested
    /\ process_status' = [process_status EXCEPT ![Pipeline] = "completed"]
    /\ pc' = "final"
    /\ UNCHANGED <<queue, task, cur, step, pipeline_stop_requested>> /\ WorkerOnly

\* Past the last step, or out of the loop by a break.
LoopDone == pc = "conclude" \/ (pc = "post" /\ ~StepBad /\ step = Len(Steps))

Conclude ==
    /\ server # "down" /\ task = Pipeline /\ LoopDone
    /\ ConcludeStopped \/ ConcludeCompleted

\* Variant that looks at the stop request only.
NextStepRegardless ==
    /\ server # "down" /\ task = Pipeline /\ step < Len(Steps)
    /\ pc = "enter" \/ pc = "post"
    /\ ~pipeline_stop_requested
    /\ step' = step + 1 /\ cur' = Steps[step + 1] /\ pc' = "announce"
    /\ UNCHANGED <<process_status, queue, task, pipeline_stop_requested>>
    /\ WorkerOnly

\* The head of the loop picks the next step and announces it.
NextStep ==
    /\ server # "down" /\ task = Pipeline /\ step < Len(Steps)
    /\ pc = "enter" \/ (pc = "post" /\ ~StepBad)
    /\ ~pipeline_stop_requested
    /\ step' = step + 1 /\ cur' = Steps[step + 1] /\ pc' = "announce"
    /\ UNCHANGED <<process_status, queue, task, pipeline_stop_requested>>
    /\ WorkerOnly

\* The announced step enters the runner.
BeginStep ==
    /\ server # "down" /\ pc = "announce"
    /\ process_status' = [process_status EXCEPT ![cur] = "running"]
    /\ pc' = "start"
    /\ UNCHANGED <<queue, task, cur, step, pipeline_stop_requested>> /\ WorkerOnly

\* The two breaks of the loop: the step ended stopped or in error, or the head
\* of the loop sees a stop request.
BreakOff ==
    /\ server # "down" /\ task = Pipeline
    /\ \/ pc = "enter" /\ pipeline_stop_requested
       \/ pc = "post" /\ StepBad
       \/ pc = "post" /\ pipeline_stop_requested /\ step < Len(Steps)
    /\ pc' = "conclude"
    /\ UNCHANGED <<process_status, queue, task, cur, step, pipeline_stop_requested>>
    /\ WorkerOnly

\* The pipeline's finally block after its last broadcast.
PipelineReturns ==
    /\ server # "down" /\ pc = "final"
    /\ pipeline_stop_requested' = FALSE
    /\ task' = None /\ cur' = None /\ pc' = "idle"
    /\ UNCHANGED <<process_status, queue, step>> /\ WorkerOnly

\* Writing full_pipeline_log.txt raises between two steps.
PipelineFails ==
    /\ "stream" \in Faults /\ server # "down" /\ task = Pipeline
    /\ pc \in {"enter", "announce", "post", "conclude", "final"}
    /\ process_status' = [process_status EXCEPT ![Pipeline] = "error"]
    /\ pipeline_stop_requested' = FALSE
    /\ task' = None /\ cur' = None /\ pc' = "idle"
    /\ UNCHANGED <<queue, step>> /\ WorkerOnly

Worker ==
    \/ Dequeue \/ DequeuePipeline \/ ScriptMissing \/ Spawn \/ SpawnFails
    \/ Register \/ Finish \/ StreamFails \/ Return
    \/ NextStep \/ BeginStep \/ BreakOff \/ Conclude
    \/ PipelineReturns \/ PipelineFails

-----------------------------------------------------------------------------
(* POST /api/stop/{key} *)

StopOnly == UNCHANGED <<queue, worker_vars, registry, exit, orphan, checkpoint, server>>

\* The endpoint writes the flag to its working directory, the script and
\* clear_stop_flag look in APP_DATA_DIR.
Flagged(S) == [k \in Script |-> flag[k] \/ (k \in S /\ FlagShared)]

\* Variant that writes the flag before it looks for the process.
StopJobAnyway(h, k) ==
    /\ server = "up" /\ stop[h].pc = "idle" /\ k \in Stoppable
    /\ flag' = Flagged({k})
    /\ stop' = IF running[k] /\ Alive(k)
               THEN [stop EXCEPT ![h] = [pc |-> "wait", key |-> k, target |-> k]]
               ELSE stop
    /\ UNCHANGED <<process_status, pipeline_stop_requested, child>> /\ StopOnly

\* A script: "not_running" (no change) unless its process is registered and alive.
StopJob(h, k) ==
    /\ server = "up" /\ stop[h].pc = "idle" /\ k \in Stoppable
    /\ running[k] /\ Alive(k)
    /\ flag' = Flagged({k})
    /\ stop' = [stop EXCEPT ![h] = [pc |-> "wait", key |-> k, target |-> k]]
    /\ UNCHANGED <<process_status, pipeline_stop_requested, child>> /\ StopOnly

\* The pipeline: the request is noted whether or not a step is running.
StopPipeline(h) ==
    /\ server = "up" /\ stop[h].pc = "idle" /\ Pipeline \in Stoppable
    /\ pipeline_stop_requested' = TRUE
    /\ flag' = Flagged({active_pipeline_key})
    /\ IF active_pipeline_key # None /\ Alive(active_pipeline_key)
       THEN /\ stop' = [stop EXCEPT ![h] = [pc |-> "wait", key |-> Pipeline,
                                            target |-> active_pipeline_key]]
            /\ UNCHANGED process_status
       ELSE /\ process_status' = [process_status EXCEPT ![Pipeline] = "stopped"]
            /\ UNCHANGED stop
    /\ UNCHANGED child /\ StopOnly

Answer(h) ==
    /\ process_status' = [process_status EXCEPT ![stop[h].key] = "stopped"]
    /\ stop' = [stop EXCEPT ![h] = IdleStop]
    /\ UNCHANGED <<pipeline_stop_requested, flag>> /\ StopOnly

\* proc.wait() returned within graceful_timeout.
StopWakes(h) ==
    /\ server = "up" /\ stop[h].pc = "woken"
    /\ Answer(h) /\ UNCHANGED child

\* Variant that answers without proc.terminate().
StopGivesUp(h) ==
    /\ server = "up" /\ stop[h].pc \in {"wait", "stale"}
    /\ Answer(h) /\ UNCHANGED child

\* graceful_timeout passed: proc.terminate().  A process left behind by
\* StreamFails may end at any time anyway.
StopTimesOut(h) ==
    /\ server = "up" /\ stop[h].pc \in {"wait", "stale"}
    /\ child' = IF stop[h].pc = "wait" THEN [child EXCEPT ![stop[h].target] = "term"]
                                       ELSE child
    /\ Answer(h)

StopRequests ==
    \E h \in Stopper :
        \/ \E k \in Script : StopJob(h, k)
        \/ StopPipeline(h) \/ StopWakes(h) \/ StopTimesOut(h)

-----------------------------------------------------------------------------
(* The scripts, seen from outside *)

ScriptOnly == UNCHANGED <<process_status, queue, worker_vars, registry,
                          pipeline_stop_requested, orphan, server>>

\* Variant of a script that trusts the flag it finds.
ChildBootsKeepingFlag(k) ==
    /\ child[k] = "boot"
    /\ child' = [child EXCEPT ![k] = "run"]
    /\ UNCHANGED <<exit, checkpoint, flag, stop>> /\ ScriptOnly

\* The script reaches its loop.
ChildBoots(k) ==
    /\ child[k] = "boot"
    /\ child' = [child EXCEPT ![k] = "run"]
    /\ flag' = [flag EXCEPT ![k] = @ /\ k \notin BootClears]
    /\ UNCHANGED <<exit, checkpoint, stop>> /\ ScriptOnly

\* The script records how far it got.
ChildSaves(k) ==
    /\ child[k] = "run" /\ k \in Checkpointing
    /\ checkpoint' = [checkpoint EXCEPT ![k] = TRUE]
    /\ UNCHANGED <<child, exit, flag, stop>> /\ ScriptOnly

\* The process ends, leaving the checkpoint as cp; the event loop sets
\* returncode and wakes the requests that wait for this process.
Ends(k, e, cp) ==
    /\ NoneReady
    /\ child' = [child EXCEPT ![k] = "none"]
    /\ exit' = [exit EXCEPT ![k] = e]
    /\ checkpoint' = [checkpoint EXCEPT ![k] = cp]
    /\ stop' = [h \in Stopper |-> IF stop[h].pc = "wait" /\ stop[h].target = k
                                  THEN [stop[h] EXCEPT !.pc = "woken"] ELSE stop[h]]
    /\ UNCHANGED flag /\ ScriptOnly

\* The last item is done; sync_kinopub with nothing to do returns before
\* clear_checkpoint.
ChildFinishes(k) ==
    /\ child[k] = "run"
    /\ Ends(k, "ok", FALSE) \/ Ends(k, "ok", checkpoint[k])

\* should_stop: the script saves, or (sync_kinopub, fix_posters) falls through
\* to the clear_checkpoint at its end, and exits with code 0.
ChildStops(k) ==
    /\ child[k] = "run" /\ k \in Polling /\ flag[k]
    /\ Ends(k, "graceful", k \in SavesOnStop)

\* An API limit: save_checkpoint, then sys.exit(2).
ChildHitsLimit(k) ==
    /\ child[k] = "run" /\ k \in Checkpointing
    /\ Ends(k, "limit", TRUE)

\* An uncaught exception.
ChildCrashes(k) ==
    /\ child[k] \in {"boot", "run"}
    /\ Ends(k, "crash", checkpoint[k])

\* SIGTERM has its default effect.
ChildDies(k) ==
    /\ child[k] = "term"
    /\ Ends(k, "term", checkpoint[k])

\* What a process without a runner still does to the files, and its end.
OrphanWrites(k) ==
    /\ k \in orphan
    /\ \/ /\ k \in Checkpointing /\ UNCHANGED flag
          /\ \E cp \in BOOLEAN : checkpoint' = [checkpoint EXCEPT ![k] = cp]
       \/ /\ k \in BootClears /\ UNCHANGED checkpoint
          /\ flag' = [flag EXCEPT ![k] = FALSE]
    /\ UNCHANGED <<child, exit, stop>> /\ ScriptOnly

OrphanExits(k) ==
    /\ k \in orphan
    /\ orphan' = orphan \ {k}
    /\ UNCHANGED <<process_status, queue, worker_vars, registry,
                   pipeline_stop_requested, child, exit, files, stop, server>>

ChildEnds(k) == \/ ChildFinishes(k) \/ ChildStops(k) \/ ChildHitsLimit(k)
                \/ ChildCrashes(k) \/ ChildDies(k)

Scripts ==
    \E k \in Script :
        ChildBoots(k) \/ ChildSaves(k) \/ ChildEnds(k) \/ OrphanWrites(k) \/ OrphanExits(k)

\* POST /api/clear_checkpoint/{key}, which looks at nothing else.
ClearCheckpoint(k) ==
    /\ server = "up" /\ checkpoint[k]
    /\ checkpoint' = [checkpoint EXCEPT ![k] = FALSE]
    /\ UNCHANGED <<process_status, queue, worker_vars, registry,
                   pipeline_stop_requested, os_vars, flag, stop, server>>

-----------------------------------------------------------------------------
(* Server lifecycle *)

InTry == pc \in {"spawned", "wait"}

\* task_queue.stop() cancels the worker.  A runner inside its try block executes
\* its finally block on the way out, run_script_with_args with the initial
\* status = "completed"; run_pipeline_task resets the stop request.
CancelWorker ==
    LET done(k) == InTry /\ k = cur IN
    /\ server' = "down" /\ pc' = "off"
    /\ child' = [k \in Script |-> IF done(k) /\ Alive(k) THEN "term" ELSE child[k]]
    /\ running' = [k \in Script |-> running[k] /\ ~done(k)]
    /\ active_pipeline_key' = IF InTry THEN None ELSE active_pipeline_key
    /\ process_status' = [k \in Key |-> IF done(k) /\ k \notin Plain THEN "completed"
                                        ELSE process_status[k]]
    /\ flag' = [k \in Script |-> flag[k] /\ ~done(k)]
    /\ checkpoint' = [k \in Script |-> checkpoint[k] /\ ~(done(k) /\ k \notin Plain)]
    /\ pipeline_stop_requested' = (pipeline_stop_requested /\ task # Pipeline)
    /\ UNCHANGED <<queue, task, cur, step, exit, orphan, stop>>

Registered == {k \in Script : running[k] /\ Alive(k)}

\* Requests have drained.  Jobs get a stop flag, in APP_DATA_DIR this time.
BeginShutdown ==
    /\ "shutdown" \in Faults /\ server = "up"
    /\ \A h \in Stopper : stop[h].pc = "idle"
    /\ IF Registered # {}
       THEN /\ flag' = [k \in Script |-> flag[k] \/ k \in Registered]
            /\ server' = "draining"
            /\ UNCHANGED <<process_status, queue, worker_vars, registry,
                           pipeline_stop_requested, os_vars, checkpoint, stop>>
       ELSE CancelWorker

\* At most two seconds later what still runs is terminated.
EndShutdown == server = "draining" /\ CancelWorker

\* The server process is killed: nothing of the code runs.
Crash ==
    /\ "crash" \in Faults /\ server # "down"
    /\ server' = "down" /\ pc' = "off"
    /\ stop' = [h \in Stopper |-> IdleStop]
    /\ UNCHANGED <<process_status, queue, task, cur, step, registry,
                   pipeline_stop_requested, os_vars, files>>

\* A new server process: module state as imported, files and processes as left.
Restart ==
    /\ server = "down" /\ server' = "up"
    /\ process_status' = [k \in Key |-> "idle"]
    /\ queue' = <<>>
    /\ task' = None /\ cur' = None /\ step' = 0 /\ pc' = "idle"
    /\ running' = [k \in Script |-> FALSE]
    /\ active_pipeline_key' = None
    /\ pipeline_stop_requested' = FALSE
    /\ child' = [k \in Script |-> "none"]
    /\ orphan' = orphan \cup {k \in Script : Alive(k)}
    /\ UNCHANGED <<exit, files, stop>>

Lifecycle == BeginShutdown \/ EndShutdown \/ Crash \/ Restart

-----------------------------------------------------------------------------

Next ==
    \/ \E k \in Key : Start(k) \/ Enqueue(k)
    \/ Worker
    \/ StopRequests
    \/ Scripts
    \/ \E k \in Script : ClearCheckpoint(k)
    \/ Lifecycle

Spec == Init /\ [][Next]_vars

\* The event loop serves the worker and the stop requests, the timer of
\* wait_for expires, and the operating system runs new processes and delivers
\* SIGTERM.
Fairness ==
    /\ WF_vars(Worker)
    /\ \A h \in Stopper : WF_vars(StopWakes(h) \/ StopTimesOut(h))
    /\ \A k \in Script : WF_vars(ChildBoots(k)) /\ WF_vars(ChildDies(k))

FairSpec == Spec /\ Fairness

-----------------------------------------------------------------------------
(* Properties *)

LiveProcesses == {k \in Script : Alive(k)} \cup orphan

\* TaskQueue's single worker: scripts never race each other on the database.
\* At no time do two script processes live.
AtMostOneChild ==
    /\ \A k, l \in LiveProcesses : k = l
    /\ \A k \in orphan : ~Alive(k)

\* The status a client sees is backed by the worker: "queued" by a task on the
\* queue, "running" by the task or the script the worker is at.  No path through
\* stops, failures and shutdown leaves a key busy for ever, which would make
\* check_any_running refuse every later start.
BusyIsReal ==
    \A k \in Key :
        /\ process_status[k] = "queued" => Queued(k)
        /\ process_status[k] = "running" => k \in {task, cur} /\ pc # "idle"

\* A stop flag exists only while the runner of its key holds the process: none
\* is left for the next run of the key, whatever the order of the stop request,
\* the script's end, the timeout and the runner's clear_stop_flag.
FlagOnlyWhileRunning ==
    server # "down" => \A k \in Script : flag[k] => running[k] /\ cur = k

\* Even a flag that outlived a killed server does not stop the next run of a
\* script that removes its flag as it starts.
StaleFlagIgnored ==
    server # "down" =>
        \A k \in BootClears : child[k] = "run" /\ flag[k] => running[k]

\* "completed" is only ever reported of a script whose last process returned 0,
\* whatever stop requests and later runs interleave with the runner.
HonestCompleted ==
    \A k \in Script : process_status[k] = "completed" => exit[k] \in {"ok", "graceful"}

\* run_pipeline_task: "short-circuits the rest of the chain so a partial DB state
\* doesn't get cleaned up by the next pass".  A step is under way only if every
\* earlier step of this pipeline returned 0, although other requests write the
\* status the loop looks at.
PipelineShortCircuits ==
    task = Pipeline /\ pc \in {"announce", "start", "spawned", "wait"} =>
        \A i \in 1 .. (step - 1) : exit[Steps[i]] \in {"ok", "graceful"}

\* The checkpoint of a run that exhausted its API limit stays until a new run of
\* the script or the user removes it.
LimitCheckpointKept ==
    [][\A k \in Script :
         exit[k] = "limit" /\ checkpoint[k] => checkpoint'[k] \/ ClearCheckpoint(k)
                                              \/ Alive(k)]_vars

\* A request that waits for a script's end gets it, though the script may never
\* look at its flag, may have removed it while starting, or may hang.
StopKills ==
    \A h \in Stopper, k \in Script :
        stop[h].pc = "wait" /\ stop[h].target = k ~> child[k] = "none"

\* If every script ends some day (their loops are over finite lists and their
\* HTTP calls have timeouts), every accepted start is executed, whatever stops and
\* failures come before it.
AcceptedRuns ==
    (\A k \in Script : Alive(k) ~> ~Alive(k)) => \A k \in Key : Queued(k) ~> task = k

-----------------------------------------------------------------------------
(* What the repository says and the code does not do; AtMostOneChild joins    *)
(* them when log writes fail.                                                 *)

Guarded == Key \ Unguarded

\* check_any_running, "raise 400 if any background job is already running or
\* queued", sees the guarded jobs that are: when it lets a start through, none
\* waits and no script of one lives.
BusyVisible ==
    NothingBusy => /\ \A k \in Guarded : ~Queued(k)
                   /\ LiveProcesses \cap Guarded = {}

\* sync_job.py: "[STOP] Graceful shutdown. Checkpoint saved."  A checkpoint that
\* a script saved on its stop flag stays until the next run or the user.
GracefulStopKeepsCheckpoint ==
    [][\A k \in SavesOnStop :
         exit[k] = "graceful" /\ checkpoint[k] => checkpoint'[k] \/ ClearCheckpoint(k)
                                                 \/ Alive(k)]_vars

\* script_utils: the checkpoint is the resume point that makes a job restartable.
\* Stopping the server takes none away.
ShutdownKeepsCheckpoint ==
    [][server # "down" /\ server' = "down" =>
        \A k \in Script : checkpoint[k] => checkpoint'[k]]_vars

=============================================================================
