----------------------------- MODULE JobsProofs -----------------------------
(***************************************************************************)
(* Theorems about Jobs, for any scripts, pipeline, number of concurrent    *)
(* stop requests and length of the queue.  Each names the faults it needs  *)
(* to be absent.                                                           *)
(***************************************************************************)
EXTENDS Jobs, TLAPS

-----------------------------------------------------------------------------
(* Types *)

LEMMA ClassifyType == \A k, code : Classify(k, code) \in {"completed", "stopped", "error"}
BY DEF Classify

LEMMA InitType == Init => TypeOK
<1>. SUFFICES ASSUME Init PROVE TypeOK  OBVIOUS
<1>. USE DEF Init
<1>1. process_status \in [Key -> Status] /\ queue \in Seq(Key)  BY DEF Status
<1>2. /\ task \in Key \cup {None} /\ cur \in Script \cup {None} /\ step \in Nat
      /\ pc \in WorkerPC /\ active_pipeline_key \in Script \cup {None}
      /\ pipeline_stop_requested \in BOOLEAN /\ server \in {"up", "draining", "down"}
  BY DEF WorkerPC
<1>3. /\ running \in [Script -> BOOLEAN] /\ flag \in [Script -> BOOLEAN]
      /\ checkpoint \in [Script -> BOOLEAN]
  OBVIOUS
<1>4. /\ child \in [Script -> {"none", "boot", "run", "term"}]
      /\ exit \in [Script -> Exit \cup {"none"}] /\ orphan \subseteq Script
  OBVIOUS
<1>5. stop \in [Stopper -> StopRequest]  BY DEF IdleStop, StopRequest
<1>. QED  BY <1>1, <1>2, <1>3, <1>4, <1>5 DEF TypeOK

\* A step of the start endpoints.
LEMMA SubmitType == ASSUME NEW k \in Key, TypeOK, Start(k) \/ Enqueue(k) PROVE TypeOK'
<1>1. Submit(k)  BY DEF Start, Enqueue
<1>. QED  BY <1>1 DEF TypeOK, Submit, AddTask, worker_vars, registry, os_vars, files, Status

\* TypeOK is not inductive: the worker must be known to be at a script.
AtScript == pc \in {"announce", "start", "spawned", "wait", "post"} => cur \in Script

LEMMA WorkerType == ASSUME TypeOK, AtScript, Worker PROVE TypeOK'
<1>. USE JobsAssumption DEF TypeOK, Key, Status, WorkerPC, WorkerOnly, worker_vars,
         registry, os_vars, files
<1>0. ASSUME NEW s \in Status, Finalize(s), UNCHANGED os_vars  PROVE TypeOK'
  BY <1>0 DEF Finalize
<1>1. CASE Dequeue  BY <1>1 DEF Dequeue
<1>2. CASE DequeuePipeline
  <2>1. Pipeline \in Key /\ Tail(queue) \in Seq(Key)  BY <1>2 DEF DequeuePipeline
  <2>2. process_status' \in [Key -> Status]  BY <1>2 DEF DequeuePipeline
  <2>. QED  BY <1>2, <2>1, <2>2 DEF DequeuePipeline
<1>3. CASE ScriptMissing  BY <1>3 DEF ScriptMissing
<1>4. CASE Spawn  BY <1>4 DEF Spawn, Exit
<1>5. CASE SpawnFails  BY <1>5, <1>0 DEF SpawnFails
<1>6. CASE Register  BY <1>6 DEF Register
<1>7. CASE Finish  BY <1>7, <1>0, ClassifyType DEF Finish
<1>8. CASE StreamFails
  <2>1. stop' \in [Stopper -> StopRequest]
    <3>1. \A h \in Stopper : stop[h] \in StopRequest  OBVIOUS
    <3>2. \A h \in Stopper : [stop[h] EXCEPT !.pc = "stale"] \in StopRequest
      BY <3>1 DEF StopRequest
    <3>. QED  BY <1>8, <3>1, <3>2 DEF StreamFails
  <2>2. orphan' \subseteq Script
    <3>1. orphan' \subseteq orphan \cup {cur} /\ cur \in Script
      BY <1>8 DEF StreamFails, AtScript
    <3>. QED  BY <3>1
  <2>3. process_status' \in [Key -> Status]  BY <1>8 DEF StreamFails
  <2>. QED  BY <1>8, <2>1, <2>2, <2>3 DEF StreamFails
<1>9. CASE Return  BY <1>9 DEF Return
<1>10. CASE NextStep  BY <1>10 DEF NextStep
<1>11. CASE BeginStep  BY <1>11 DEF BeginStep
<1>12. CASE BreakOff  BY <1>12 DEF BreakOff
<1>13. CASE Conclude
  <2>1. CASE ConcludeStopped  BY <2>1 DEF ConcludeStopped
  <2>2. CASE ConcludeCompleted  BY <2>2 DEF ConcludeCompleted
  <2>. QED  BY <1>13, <2>1, <2>2 DEF Conclude
<1>14. CASE PipelineReturns  BY <1>14 DEF PipelineReturns
<1>15. CASE PipelineFails  BY <1>15 DEF PipelineFails
<1>. QED  BY <1>1, <1>2, <1>3, <1>4, <1>5, <1>6, <1>7, <1>8, <1>9, <1>10, <1>11,
            <1>12, <1>13, <1>14, <1>15 DEF Worker

LEMMA StopType == ASSUME TypeOK, StopRequests PROVE TypeOK'
<1>. USE JobsAssumption DEF TypeOK, Key, Status, StopOnly, worker_vars, registry,
         StopRequest, Flagged, IdleStop
<1>. PICK h \in Stopper : \/ \E k \in Script : StopJob(h, k)
                          \/ StopPipeline(h) \/ StopWakes(h) \/ StopTimesOut(h)
  BY DEF StopRequests
<1>1. ASSUME NEW k \in Script, StopJob(h, k)  PROVE TypeOK'
  BY <1>1 DEF StopJob
<1>2. CASE StopPipeline(h)
  <2>1. stop' \in [Stopper -> StopRequest]  BY <1>2 DEF StopPipeline
  <2>. QED  BY <1>2, <2>1 DEF StopPipeline
<1>3. CASE StopWakes(h)  BY <1>3 DEF StopWakes, Answer
<1>4. CASE StopTimesOut(h)  BY <1>4 DEF StopTimesOut, Answer
<1>. QED  BY <1>1, <1>2, <1>3, <1>4

LEMMA EndsType ==
    ASSUME TypeOK, NEW k \in Script, NEW e \in Exit, NEW cp \in BOOLEAN, Ends(k, e, cp)
    PROVE  TypeOK'
BY DEF Ends, TypeOK, ScriptOnly, worker_vars, registry, StopRequest, Exit

\* However a script ends, it was alive and Ends says the rest.
LEMMA ChildEndsIsEnds ==
    ASSUME TypeOK, NEW k \in Script, ChildEnds(k)
    PROVE  child[k] # "none" /\ \E e \in Exit, cp \in BOOLEAN : Ends(k, e, cp)
<1>1. checkpoint[k] \in BOOLEAN /\ (k \in SavesOnStop) \in BOOLEAN
  BY DEF TypeOK
<1>. QED
  BY <1>1 DEF ChildEnds, ChildFinishes, ChildStops, ChildHitsLimit, ChildCrashes,
              ChildDies, Exit

LEMMA ScriptsType == ASSUME TypeOK, Scripts PROVE TypeOK'
<1>. PICK k \in Script : ChildBoots(k) \/ ChildSaves(k) \/ ChildEnds(k)
                         \/ OrphanWrites(k) \/ OrphanExits(k)
  BY DEF Scripts
<1>. USE DEF ScriptOnly, worker_vars, registry, files
<1>1. CASE ChildBoots(k)  BY <1>1 DEF ChildBoots, TypeOK
<1>2. CASE ChildSaves(k)  BY <1>2 DEF ChildSaves, TypeOK
<1>3. CASE ChildEnds(k)
  BY <1>3, ChildEndsIsEnds, EndsType
<1>4. CASE OrphanWrites(k)  BY <1>4 DEF OrphanWrites, TypeOK
<1>5. CASE OrphanExits(k)  BY <1>5 DEF OrphanExits, TypeOK
<1>. QED  BY <1>1, <1>2, <1>3, <1>4, <1>5

LEMMA CancelType == ASSUME TypeOK, CancelWorker PROVE TypeOK'
<1>. USE DEF TypeOK, CancelWorker, Status, WorkerPC, Key
<1>1. process_status' \in [Key -> Status]  OBVIOUS
<1>2. child' \in [Script -> {"none", "boot", "run", "term"}]  OBVIOUS
<1>3. running' \in [Script -> BOOLEAN] /\ flag' \in [Script -> BOOLEAN]
      /\ checkpoint' \in [Script -> BOOLEAN]  OBVIOUS
<1>4. active_pipeline_key' \in Script \cup {None}
      /\ pipeline_stop_requested' \in BOOLEAN  OBVIOUS
<1>. QED  BY <1>1, <1>2, <1>3, <1>4

LEMMA LifecycleType == ASSUME TypeOK, Lifecycle PROVE TypeOK'
<1>. USE DEF TypeOK, worker_vars, registry, os_vars, files
<1>1. CASE BeginShutdown
  <2>1. CASE CancelWorker  BY <2>1, CancelType
  <2>2. CASE ~CancelWorker  BY <1>1, <2>2 DEF BeginShutdown, Registered
  <2>. QED  BY <2>1, <2>2
<1>2. CASE EndShutdown  BY <1>2, CancelType DEF EndShutdown
<1>3. CASE Crash  BY <1>3, JobsAssumption DEF Crash, IdleStop, StopRequest, WorkerPC, Key
<1>4. CASE Restart
  <2>1. process_status' \in [Key -> Status] /\ queue' \in Seq(Key)
    BY <1>4 DEF Restart, Status
  <2>2. child' \in [Script -> {"none", "boot", "run", "term"}] /\ orphan' \subseteq Script
        /\ running' \in [Script -> BOOLEAN]
    BY <1>4 DEF Restart
  <2>. QED  BY <1>4, <2>1, <2>2 DEF Restart, WorkerPC
<1>. QED  BY <1>1, <1>2, <1>3, <1>4 DEF Lifecycle

LEMMA NextType == ASSUME TypeOK, AtScript, [Next]_vars PROVE TypeOK'
<1>. USE DEF TypeOK
<1>1. CASE UNCHANGED vars
  BY <1>1 DEF vars, worker_vars, registry, os_vars, files
<1>2. ASSUME NEW k \in Script, ClearCheckpoint(k)  PROVE TypeOK'
  BY <1>2 DEF ClearCheckpoint, worker_vars, registry, os_vars
<1>. QED  BY <1>1, <1>2, SubmitType, WorkerType, StopType, ScriptsType, LifecycleType
          DEF Next

LEMMA StepsAreScripts == ASSUME NEW i \in Nat, i < Len(Steps) PROVE Steps[i + 1] \in Script
BY JobsAssumption

\* What the actions other than the worker's leave alone.
LEMMA OthersLeaveWorker ==
    ASSUME [Next]_vars, ~Worker, ~Lifecycle
    PROVE  /\ UNCHANGED <<task, cur, step, pc, running, active_pipeline_key, server>>
           /\ UNCHANGED queue \/ \E k \in Key : Start(k) \/ Enqueue(k)
<1>. USE DEF worker_vars, registry
<1>1. CASE UNCHANGED vars  BY <1>1 DEF vars
<1>2. ASSUME NEW k \in Key, Start(k) \/ Enqueue(k)
      PROVE  UNCHANGED <<task, cur, step, pc, running, active_pipeline_key, server>>
  BY <1>2 DEF Start, Enqueue, Submit
<1>3. CASE StopRequests
  BY <1>3 DEF StopRequests, StopJob, StopPipeline, StopWakes, StopTimesOut, Answer, StopOnly
<1>4. CASE Scripts
  BY <1>4 DEF Scripts, ChildBoots, ChildSaves, ChildEnds, ChildFinishes, ChildStops,
              ChildHitsLimit, ChildCrashes, ChildDies, Ends, OrphanWrites, OrphanExits,
              ScriptOnly
<1>5. ASSUME NEW k \in Script, ClearCheckpoint(k)
      PROVE  UNCHANGED <<task, cur, step, pc, running, active_pipeline_key, server, queue>>
  BY <1>5 DEF ClearCheckpoint
<1>. QED  BY <1>1, <1>2, <1>3, <1>4, <1>5 DEF Next

LEMMA NextAtScript == ASSUME TypeOK, AtScript, [Next]_vars PROVE AtScript'
<1>1. CASE ~Worker /\ ~Lifecycle  BY <1>1, OthersLeaveWorker DEF AtScript
<1>2. CASE Lifecycle
  BY <1>2 DEF Lifecycle, BeginShutdown, EndShutdown, CancelWorker, Crash, Restart, AtScript,
              worker_vars
<1>3. CASE Worker
  <2>. USE DEF AtScript, WorkerOnly
  <2>1. CASE Dequeue \/ DequeuePipeline
    BY <2>1 DEF Dequeue, DequeuePipeline
  <2>2. CASE ScriptMissing \/ Spawn \/ SpawnFails \/ Register \/ Finish \/ StreamFails
    BY <2>2 DEF ScriptMissing, Spawn, SpawnFails, Register, Finish, Finalize, StreamFails
  <2>3. CASE Return \/ BeginStep \/ BreakOff \/ PipelineReturns \/ PipelineFails
    BY <2>3 DEF Return, BeginStep, BreakOff, PipelineReturns, PipelineFails
  <2>4. CASE NextStep  BY <2>4, StepsAreScripts DEF NextStep, TypeOK
  <2>5. CASE Conclude  BY <2>5 DEF Conclude, ConcludeStopped, ConcludeCompleted
  <2>. QED  BY <1>3, <2>1, <2>2, <2>3, <2>4, <2>5 DEF Worker
<1>. QED  BY <1>1, <1>2, <1>3

\* Every reachable state has its types.
THEOREM TypeCorrect == Spec => []TypeOK
<1>1. Init => TypeOK /\ AtScript  BY InitType DEF Init, AtScript
<1>2. TypeOK /\ AtScript /\ [Next]_vars => (TypeOK /\ AtScript)'
  BY NextType, NextAtScript
<1>. QED  BY <1>1, <1>2, PTL DEF Spec

-----------------------------------------------------------------------------
(* Who holds a process *)

\* The inductive core of the safety theorems.  While the server lives, a script
\* process lives only while the worker is between starting it and seeing its end,
\* running_processes holds no other, active_pipeline_key names it only inside the
\* pipeline, and a stop request waits only for a live process.
WaitsForLive ==
    \A h \in Stopper :
        stop[h].pc = "wait" => /\ server = "up"
                               /\ stop[h].target \in Script /\ Alive(stop[h].target)
LiveIsHeld ==
    \A k \in Script : Alive(k) => k = cur /\ pc \in {"spawned", "wait"}
RegisteredIsHeld ==
    /\ \A k \in Script : running[k] => k = cur /\ pc = "wait"
    /\ active_pipeline_key # None => /\ active_pipeline_key \in Script
                                     /\ running[active_pipeline_key]
                                     /\ task = Pipeline
EndedHasExit ==
    pc \in {"spawned", "wait"} /\ ~Alive(cur) => exit[cur] \in Exit
Held == WaitsForLive /\ (server # "down" => LiveIsHeld /\ RegisteredIsHeld /\ EndedHasExit)

TypeInv == TypeOK /\ AtScript

LEMMA InitHeld == Init => Held
BY DEF Init, Held, WaitsForLive, LiveIsHeld, RegisteredIsHeld, EndedHasExit, Alive, IdleStop

LEMMA StopHeld == ASSUME TypeInv, Held, StopRequests PROVE Held'
<1>. USE DEF TypeInv, TypeOK, Held, WaitsForLive, LiveIsHeld, RegisteredIsHeld, EndedHasExit, Alive,
         StopOnly, worker_vars, registry
<1>. PICK h \in Stopper : \/ \E k \in Script : StopJob(h, k)
                          \/ StopPipeline(h) \/ StopWakes(h) \/ StopTimesOut(h)
  BY DEF StopRequests
<1>1. ASSUME NEW k \in Script, StopJob(h, k)  PROVE Held'
  BY <1>1 DEF StopJob
<1>2. CASE StopPipeline(h)  BY <1>2 DEF StopPipeline
<1>3. CASE StopWakes(h)  BY <1>3 DEF StopWakes, Answer, IdleStop
<1>4. CASE StopTimesOut(h)
  <2>1. \A k \in Script : Alive(k) <=> Alive(k)'  BY <1>4 DEF StopTimesOut
  <2>2. WaitsForLive'  BY <1>4, <2>1 DEF StopTimesOut, Answer, IdleStop
  <2>. QED  BY <1>4, <2>1, <2>2 DEF StopTimesOut, Answer
<1>. QED  BY <1>1, <1>2, <1>3, <1>4

LEMMA EndsHeld ==
    ASSUME TypeInv, Held, NEW k \in Script, NEW e \in Exit, NEW cp, Ends(k, e, cp)
    PROVE  Held'
<1>. USE DEF TypeInv, TypeOK, Held, Alive, ScriptOnly, worker_vars, registry, Ends
<1>1. WaitsForLive'
  <2>. SUFFICES ASSUME NEW h \in Stopper, stop'[h].pc = "wait"
                PROVE  /\ server' = "up" /\ stop'[h].target \in Script
                       /\ child'[stop'[h].target] # "none"
    BY DEF WaitsForLive
  <2>1. stop'[h] = stop[h] /\ stop[h].target # k
    BY DEF StopRequest
  <2>2. server = "up" /\ stop[h].target \in Script /\ Alive(stop[h].target)
    BY <2>1 DEF WaitsForLive
  <2>3. child'[stop[h].target] = child[stop[h].target]  BY <2>1, <2>2
  <2>. QED  BY <2>1, <2>2, <2>3
<1>2. LiveIsHeld /\ server # "down" => LiveIsHeld'  BY DEF LiveIsHeld
<1>3. RegisteredIsHeld => RegisteredIsHeld'  BY DEF RegisteredIsHeld
<1>4. EndedHasExit /\ AtScript => EndedHasExit'
  BY DEF EndedHasExit, AtScript, Exit
<1>. QED  BY <1>1, <1>2, <1>3, <1>4

LEMMA ScriptsHeld == ASSUME TypeInv, Held, Scripts PROVE Held'
<1>. PICK k \in Script : ChildBoots(k) \/ ChildSaves(k) \/ ChildEnds(k)
                         \/ OrphanWrites(k) \/ OrphanExits(k)
  BY DEF Scripts
<1>1. CASE ChildBoots(k)
  BY <1>1 DEF ChildBoots, TypeInv, TypeOK, Held, WaitsForLive, LiveIsHeld,
              RegisteredIsHeld, EndedHasExit, Alive, ScriptOnly, worker_vars, registry
<1>2. CASE ChildSaves(k) \/ OrphanWrites(k) \/ OrphanExits(k)
  BY <1>2 DEF ChildSaves, OrphanWrites, OrphanExits, Held, WaitsForLive, LiveIsHeld,
              RegisteredIsHeld, EndedHasExit, Alive, ScriptOnly, worker_vars, registry
<1>3. CASE ChildEnds(k)
  BY <1>3, ChildEndsIsEnds, EndsHeld DEF TypeInv
<1>. QED  BY <1>1, <1>2, <1>3

LEMMA WorkerHeld == ASSUME TypeInv, Held, Worker PROVE Held'
<1>. USE JobsAssumption DEF TypeInv, TypeOK, AtScript, Held, Alive, WaitsForLive,
         LiveIsHeld, RegisteredIsHeld, EndedHasExit, WorkerOnly, registry, os_vars, files
<1>1. ASSUME NEW s, Finalize(s), UNCHANGED os_vars, ~Alive(cur), server # "down",
             pc \in {"start", "wait"}
      PROVE  Held'
  BY <1>1 DEF Finalize
<1>2. CASE Dequeue \/ DequeuePipeline
  BY <1>2 DEF Dequeue, DequeuePipeline
<1>3. CASE ScriptMissing  BY <1>3 DEF ScriptMissing
<1>4. CASE Spawn  BY <1>4 DEF Spawn
<1>5. CASE SpawnFails  BY <1>1, <1>5 DEF SpawnFails
<1>6. CASE Register  BY <1>6 DEF Register
<1>7. CASE Finish  BY <1>1, <1>7 DEF Finish
<1>8. CASE StreamFails
  <2>1. WaitsForLive'
    <3>. SUFFICES ASSUME NEW h \in Stopper, stop'[h].pc = "wait" PROVE FALSE
      OBVIOUS
    <3>1. stop'[h] = stop[h] /\ stop[h].target # cur
      BY <1>8 DEF StreamFails, StopRequest
    <3>. QED  BY <1>8, <3>1 DEF StreamFails
  <2>. QED  BY <1>8, <2>1 DEF StreamFails
<1>9. CASE Return \/ BeginStep \/ BreakOff \/ PipelineReturns \/ PipelineFails
  BY <1>9 DEF Return, BeginStep, BreakOff, PipelineReturns, PipelineFails
<1>10. CASE NextStep  BY <1>10 DEF NextStep
<1>11. CASE Conclude
  BY <1>11 DEF Conclude, LoopDone, ConcludeStopped, ConcludeCompleted
<1>. QED  BY <1>2, <1>3, <1>4, <1>5, <1>6, <1>7, <1>8, <1>9, <1>10, <1>11 DEF Worker

LEMMA LifecycleHeld == ASSUME TypeInv, Held, Lifecycle PROVE Held'
<1>. USE DEF TypeInv, TypeOK, Held, WaitsForLive, Alive, worker_vars, registry, os_vars
<1>1. CASE CancelWorker /\ \A h \in Stopper : stop[h].pc # "wait"
  BY <1>1 DEF CancelWorker
<1>2. CASE BeginShutdown
  <2>1. CASE Registered = {}  BY <1>1, <1>2, <2>1 DEF BeginShutdown
  <2>2. CASE Registered # {}
    BY <1>2, <2>2 DEF BeginShutdown, LiveIsHeld, RegisteredIsHeld, EndedHasExit
  <2>. QED  BY <2>1, <2>2
<1>3. CASE EndShutdown  BY <1>1, <1>3 DEF EndShutdown
<1>4. CASE Crash  BY <1>4 DEF Crash, IdleStop
<1>5. CASE Restart  BY <1>5 DEF Restart, LiveIsHeld, RegisteredIsHeld, EndedHasExit
<1>. QED  BY <1>2, <1>3, <1>4, <1>5 DEF Lifecycle

LEMMA NextHeld == ASSUME TypeInv, Held, [Next]_vars PROVE Held'
<1>1. CASE UNCHANGED vars
  BY <1>1 DEF Held, WaitsForLive, LiveIsHeld, RegisteredIsHeld, EndedHasExit, Alive, vars, worker_vars,
              registry, os_vars
<1>2. ASSUME NEW k \in Key, Start(k) \/ Enqueue(k)  PROVE Held'
  BY <1>2 DEF Start, Enqueue, Submit, Held, WaitsForLive, LiveIsHeld, RegisteredIsHeld,
              EndedHasExit,
              Alive, worker_vars, registry, os_vars
<1>3. ASSUME NEW k \in Script, ClearCheckpoint(k)  PROVE Held'
  BY <1>3 DEF ClearCheckpoint, Held, WaitsForLive, LiveIsHeld, RegisteredIsHeld, EndedHasExit, Alive,
              worker_vars, registry, os_vars
<1>. QED  BY <1>1, <1>2, <1>3, StopHeld, ScriptsHeld, WorkerHeld, LifecycleHeld DEF Next

LEMMA TypeInvHeld == Spec => [](TypeInv /\ Held)
<1>1. Init => TypeInv /\ Held  BY InitType, InitHeld DEF Init, TypeInv, AtScript
<1>2. TypeInv /\ Held /\ [Next]_vars => (TypeInv /\ Held)'
  BY NextType, NextAtScript, NextHeld DEF TypeInv
<1>. QED  BY <1>1, <1>2, PTL DEF Spec

-----------------------------------------------------------------------------
(* Mutual exclusion of scripts *)

NoLoss == orphan = {} /\ server = "up"

LEMMA NoLossHolds ==
    ASSUME Faults \cap {"stream", "shutdown", "crash"} = {}
    PROVE  Spec => []NoLoss
<1>1. Init => NoLoss  BY DEF Init, NoLoss
<1>2. ASSUME NoLoss, [Next]_vars  PROVE NoLoss'
  <2>. USE <1>2 DEF NoLoss, os_vars, ScriptOnly, StopOnly, WorkerOnly
  <2>1. CASE UNCHANGED vars  BY <2>1 DEF vars
  <2>2. ASSUME NEW k \in Key, Start(k) \/ Enqueue(k)  PROVE NoLoss'
    BY <2>2 DEF Start, Enqueue, Submit
  <2>3. CASE StopRequests
    BY <2>3 DEF StopRequests, StopJob, StopPipeline, StopWakes, StopTimesOut, Answer
  <2>4. CASE Scripts
    BY <2>4 DEF Scripts, ChildBoots, ChildSaves, ChildEnds, ChildFinishes, ChildStops,
                ChildHitsLimit, ChildCrashes, ChildDies, Ends, OrphanWrites, OrphanExits
  <2>5. ASSUME NEW k \in Script, ClearCheckpoint(k)  PROVE NoLoss'
    BY <2>5 DEF ClearCheckpoint
  <2>6. CASE Worker
    BY <2>6 DEF Worker, Dequeue, DequeuePipeline, ScriptMissing, Spawn, SpawnFails, Register,
                Finish, Finalize, StreamFails, Return, NextStep, BeginStep, BreakOff,
                Conclude, ConcludeStopped, ConcludeCompleted, PipelineReturns, PipelineFails
  <2>7. CASE Lifecycle
    BY <2>7 DEF Lifecycle, BeginShutdown, EndShutdown, Crash, Restart
  <2>. QED  BY <1>2, <2>1, <2>2, <2>3, <2>4, <2>5, <2>6, <2>7 DEF Next
<1>. QED  BY <1>1, <1>2, PTL DEF Spec

\* If the log can be written and the server is not stopped, no two script
\* processes ever live at once: the queue's worker holds them all.
THEOREM MutualExclusion ==
    ASSUME Faults \cap {"stream", "shutdown", "crash"} = {}
    PROVE  Spec => []AtMostOneChild
<1>1. NoLoss /\ TypeInv /\ Held => AtMostOneChild
  BY DEF NoLoss, Held, LiveIsHeld, AtMostOneChild, LiveProcesses
<1>. QED  BY <1>1, NoLossHolds, TypeInvHeld, PTL

-----------------------------------------------------------------------------
(* Stop flags *)

FlagInv == \A k \in Script : flag[k] => running[k] /\ server # "down"

\* Unless the server is killed, no stop flag outlives the run it was written for,
\* also across an orderly shutdown and restart.
THEOREM FlagsAreFresh ==
    ASSUME "crash" \notin Faults
    PROVE  Spec => []FlagOnlyWhileRunning
<1>1. Init => FlagInv  BY DEF Init, FlagInv
<1>2. ASSUME TypeInv, Held, FlagInv, [Next]_vars  PROVE FlagInv'
  <2>. USE <1>2 DEF FlagInv, TypeInv, TypeOK, Held, files, registry
  <2>1. CASE UNCHANGED vars  BY <2>1 DEF vars
  <2>2. ASSUME NEW k \in Key, Start(k) \/ Enqueue(k)  PROVE FlagInv'
    BY <2>2 DEF Start, Enqueue, Submit
  <2>3. CASE StopRequests
    <3>. PICK h \in Stopper : \/ \E k \in Script : StopJob(h, k)
                              \/ StopPipeline(h) \/ StopWakes(h) \/ StopTimesOut(h)
      BY <2>3 DEF StopRequests
    <3>1. ASSUME NEW k \in Script, StopJob(h, k)  PROVE FlagInv'
      BY <3>1 DEF StopJob, Flagged, StopOnly
    <3>2. CASE StopPipeline(h)
      BY <3>2, JobsAssumption DEF StopPipeline, Flagged, StopOnly, RegisteredIsHeld, Key
    <3>3. CASE StopWakes(h) \/ StopTimesOut(h)
      BY <3>3 DEF StopWakes, StopTimesOut, Answer, StopOnly
    <3>. QED  BY <3>1, <3>2, <3>3
  <2>4. CASE Scripts
    BY <2>4 DEF Scripts, ChildBoots, ChildSaves, ChildEnds, ChildFinishes, ChildStops,
                ChildHitsLimit, ChildCrashes, ChildDies, Ends, OrphanWrites, OrphanExits,
                ScriptOnly
  <2>5. ASSUME NEW k \in Script, ClearCheckpoint(k)  PROVE FlagInv'
    BY <2>5 DEF ClearCheckpoint
  <2>6. CASE Worker
    <3>1. CASE SpawnFails \/ Finish \/ StreamFails \/ Register
      BY <3>1 DEF SpawnFails, Finish, Finalize, StreamFails, Register
    <3>2. CASE ~(SpawnFails \/ Finish \/ StreamFails \/ Register)
      BY <2>6, <3>2 DEF Worker, WorkerOnly, Dequeue, DequeuePipeline, ScriptMissing, Spawn,
         Return, NextStep, BeginStep, BreakOff, Conclude, ConcludeStopped,
         ConcludeCompleted, PipelineReturns, PipelineFails
    <3>. QED  BY <3>1, <3>2
  <2>7. CASE Lifecycle
    <3>1. CASE CancelWorker /\ server # "down"
      BY <3>1 DEF CancelWorker, RegisteredIsHeld, InTry
    <3>2. CASE BeginShutdown
      BY <3>1, <3>2 DEF BeginShutdown, Registered
    <3>3. CASE EndShutdown  BY <3>1, <3>3 DEF EndShutdown
    <3>4. CASE Restart  BY <3>4 DEF Restart
    <3>. QED  BY <2>7, <3>2, <3>3, <3>4 DEF Lifecycle, Crash
  <2>. QED  BY <1>2, <2>1, <2>2, <2>3, <2>4, <2>5, <2>6, <2>7 DEF Next
<1>3. FlagInv /\ Held => FlagOnlyWhileRunning
  BY DEF FlagInv, Held, RegisteredIsHeld, FlagOnlyWhileRunning
<1>. QED  BY <1>1, <1>2, <1>3, TypeInvHeld, PTL DEF Spec

\* Whatever fails, and although a killed server leaves its flags behind, a script
\* that removes its flag as it starts runs under a flag only if a stop request
\* was made for the process the runner holds.
THEOREM StaleFlagsAreIgnored == Spec => []StaleFlagIgnored
<1>1. Init => StaleFlagIgnored  BY JobsAssumption DEF Init, StaleFlagIgnored
<1>2. ASSUME TypeInv, Held, StaleFlagIgnored, [Next]_vars  PROVE StaleFlagIgnored'
  <2>. USE <1>2, JobsAssumption
       DEF StaleFlagIgnored, TypeInv, TypeOK, Held, files, registry, os_vars
  <2>1. CASE UNCHANGED vars  BY <2>1 DEF vars
  <2>2. ASSUME NEW k \in Key, Start(k) \/ Enqueue(k)  PROVE StaleFlagIgnored'
    BY <2>2 DEF Start, Enqueue, Submit
  <2>3. CASE StopRequests
    <3>. PICK h \in Stopper : \/ \E k \in Script : StopJob(h, k)
                              \/ StopPipeline(h) \/ StopWakes(h) \/ StopTimesOut(h)
      BY <2>3 DEF StopRequests
    <3>1. ASSUME NEW k \in Script, StopJob(h, k)  PROVE StaleFlagIgnored'
      BY <3>1 DEF StopJob, Flagged, StopOnly
    <3>2. CASE StopPipeline(h)
      BY <3>2 DEF StopPipeline, Flagged, StopOnly, RegisteredIsHeld, Key
    <3>3. CASE StopWakes(h) \/ StopTimesOut(h)
      BY <3>3 DEF StopWakes, StopTimesOut, Answer, StopOnly
    <3>. QED  BY <3>1, <3>2, <3>3
  <2>4. CASE Scripts
    BY <2>4 DEF Scripts, ChildBoots, ChildSaves, ChildEnds, ChildFinishes, ChildStops,
                ChildHitsLimit, ChildCrashes, ChildDies, Ends, OrphanWrites, OrphanExits,
                ScriptOnly
  <2>5. ASSUME NEW k \in Script, ClearCheckpoint(k)  PROVE StaleFlagIgnored'
    BY <2>5 DEF ClearCheckpoint
  <2>6. CASE Worker
    <3>1. CASE SpawnFails \/ Finish
      BY <3>1 DEF SpawnFails, Finish, Finalize, LiveIsHeld, Alive
    <3>2. CASE StreamFails  BY <3>2 DEF StreamFails
    <3>3. CASE Register \/ Spawn  BY <3>3 DEF Register, Spawn
    <3>4. CASE ~(SpawnFails \/ Finish \/ StreamFails \/ Register \/ Spawn)
      BY <2>6, <3>4 DEF Worker, WorkerOnly, Dequeue, DequeuePipeline, ScriptMissing,
         Return, NextStep, BeginStep, BreakOff, Conclude, ConcludeStopped,
         ConcludeCompleted, PipelineReturns, PipelineFails
    <3>. QED  BY <3>1, <3>2, <3>3, <3>4
  <2>7. CASE Lifecycle
    BY <2>7 DEF Lifecycle, BeginShutdown, EndShutdown, CancelWorker, Crash, Restart, Registered
  <2>. QED  BY <1>2, <2>1, <2>2, <2>3, <2>4, <2>5, <2>6, <2>7 DEF Next
<1>. QED  BY <1>1, <1>2, TypeInvHeld, PTL DEF Spec

-----------------------------------------------------------------------------
(* Reported results *)

\* A key whose process lives, or is about to, does not read "completed" yet.
NotYetCompleted ==
    /\ \A k \in Script : Alive(k) => process_status[k] # "completed"
    /\ pc \in {"start", "spawned", "wait"} => process_status[cur] # "completed"

\* While nobody shuts the server down, a script that reads "completed" returned 0
\* when it last ran.
THEOREM CompletedIsHonest ==
    ASSUME "shutdown" \notin Faults
    PROVE  Spec => []HonestCompleted
<1>. DEFINE Inv == HonestCompleted /\ NotYetCompleted /\ server # "draining"
<1>1. Init => Inv  BY DEF Init, HonestCompleted, NotYetCompleted, Key, Alive
<1>2. ASSUME TypeInv, Held, Inv, [Next]_vars  PROVE Inv'
  <2>. USE <1>2, JobsAssumption DEF HonestCompleted, NotYetCompleted, Alive, TypeInv, TypeOK,
           AtScript, Key, os_vars, worker_vars
  <2>1. CASE UNCHANGED vars  BY <2>1 DEF vars
  <2>2. ASSUME NEW k \in Key, Start(k) \/ Enqueue(k)  PROVE Inv'
    BY <2>2 DEF Start, Enqueue, Submit, AddTask
  <2>3. CASE StopRequests
    <3>. PICK h \in Stopper : \/ \E k \in Script : StopJob(h, k)
                              \/ StopPipeline(h) \/ StopWakes(h) \/ StopTimesOut(h)
      BY <2>3 DEF StopRequests
    <3>1. CASE \E k \in Script : StopJob(h, k)  BY <3>1 DEF StopJob, StopOnly
    <3>2. CASE StopPipeline(h)  BY <3>2 DEF StopPipeline, StopOnly
    <3>3. CASE StopWakes(h)  BY <3>3 DEF StopWakes, Answer, StopOnly
    <3>4. CASE StopTimesOut(h)
      <4>1. \A k \in Script : Alive(k)' => Alive(k)
        BY <3>4 DEF StopTimesOut, Held, WaitsForLive
      <4>. QED  BY <3>4, <4>1 DEF StopTimesOut, Answer, StopOnly
    <3>. QED  BY <3>1, <3>2, <3>3, <3>4
  <2>4. CASE Scripts
    <3>. PICK k \in Script : ChildBoots(k) \/ ChildSaves(k) \/ ChildEnds(k)
                             \/ OrphanWrites(k) \/ OrphanExits(k)
      BY <2>4 DEF Scripts
    <3>1. CASE ChildEnds(k)
      <4>1. PICK e \in Exit, cp \in BOOLEAN : child[k] # "none" /\ Ends(k, e, cp)
        BY <3>1, ChildEndsIsEnds
      <4>. QED  BY <4>1 DEF Ends, ScriptOnly
    <3>2. CASE ~ChildEnds(k)
      BY <3>2 DEF ChildBoots, ChildSaves, OrphanWrites, OrphanExits, ScriptOnly
    <3>. QED  BY <3>1, <3>2
  <2>5. ASSUME NEW k \in Script, ClearCheckpoint(k)  PROVE Inv'
    BY <2>5 DEF ClearCheckpoint
  <2>6. CASE Worker
    <3>1. CASE SpawnFails  BY <3>1 DEF SpawnFails, Finalize
    <3>2. CASE Finish
      <4>1. Classify(cur, ReturnCode(exit[cur])) = "completed" => exit[cur] \in {"ok", "graceful"}
        BY <3>2 DEF Finish, Held, EndedHasExit, Exit, Classify, ReturnCode
      <4>. QED  BY <3>2, <4>1 DEF Finish, Finalize
    <3>3. CASE StreamFails  BY <3>3 DEF StreamFails
    <3>4. CASE Spawn \/ Register  BY <3>4 DEF Spawn, Register
    <3>5. CASE ~(SpawnFails \/ Finish \/ StreamFails \/ Spawn \/ Register)
      BY <2>6, <3>5 DEF Worker, WorkerOnly, Dequeue, DequeuePipeline, ScriptMissing,
         Return, NextStep, BeginStep, BreakOff, Conclude, LoopDone, ConcludeStopped,
         ConcludeCompleted, PipelineReturns, PipelineFails
    <3>. QED  BY <3>1, <3>2, <3>3, <3>4, <3>5
  <2>7. CASE Lifecycle
    BY <2>7 DEF Lifecycle, BeginShutdown, EndShutdown, Crash, Restart
  <2>. QED  BY <1>2, <2>1, <2>2, <2>3, <2>4, <2>5, <2>6, <2>7 DEF Next
<1>3. Inv => HonestCompleted  OBVIOUS
<1>. QED  BY <1>1, <1>2, <1>3, TypeInvHeld, PTL DEF Spec

-----------------------------------------------------------------------------
(* Busy keys *)

LEMMA QueuedAppend ==
    ASSUME TypeOK, NEW k \in Key, NEW l, queue' = Append(queue, k), Queued(l) \/ l = k
    PROVE  Queued(l)'
<1>1. CASE l = k
  <2>1. Len(queue) + 1 \in DOMAIN queue' /\ queue'[Len(queue) + 1] = k  BY DEF TypeOK
  <2>. QED  BY <1>1, <2>1 DEF Queued
<1>2. CASE Queued(l)
  <2>1. PICK i \in DOMAIN queue : queue[i] = l  BY <1>2 DEF Queued
  <2>2. i \in DOMAIN queue' /\ queue'[i] = l  BY <2>1 DEF TypeOK
  <2>. QED  BY <2>2 DEF Queued
<1>. QED  BY <1>1, <1>2

LEMMA QueuedTail ==
    ASSUME TypeOK, queue # <<>>, queue' = Tail(queue), NEW l, Queued(l), l # Head(queue)
    PROVE  Queued(l)'
<1>1. PICK i \in DOMAIN queue : queue[i] = l  BY DEF Queued
<1>2. i # 1 /\ i - 1 \in DOMAIN queue' /\ queue'[i - 1] = l  BY <1>1 DEF TypeOK
<1>. QED  BY <1>2 DEF Queued

\* Where the worker is when a key reads "running".
RunningAt(k) ==
    \/ k = Pipeline /\ task = Pipeline /\ pc \notin {"idle", "final"}
    \/ k = cur /\ pc \in {"start", "spawned", "wait", "off"}
BusyInv ==
    /\ \A k \in Key : process_status[k] = "queued" => Queued(k)
    /\ \A k \in Key : process_status[k] = "running" => RunningAt(k)

\* Under every fault, a key that reads queued or running is one the worker will
\* execute or is executing: no history leaves check_any_running refusing for ever.
THEOREM BusyKeysAreReal == Spec => []BusyIsReal
<1>1. Init => BusyInv  BY DEF Init, BusyInv
<1>2. ASSUME TypeInv, Held, BusyInv, [Next]_vars  PROVE BusyInv'
  <2>. USE <1>2 DEF BusyInv, RunningAt, TypeInv, TypeOK, AtScript
  <2>1. ASSUME UNCHANGED queue  PROVE \A k : Queued(k) => Queued(k)'
    BY <2>1 DEF Queued
  <2>2. ASSUME NEW k \in Key, Start(k) \/ Enqueue(k)  PROVE BusyInv'
    <3>1. Submit(k)  BY <2>2 DEF Start, Enqueue
    <3>2. \A l \in Key : Queued(l) \/ l = k => Queued(l)'
      BY <3>1, QueuedAppend DEF Submit, AddTask
    <3>. QED  BY <3>1, <3>2 DEF Submit, AddTask, worker_vars
  <2>3. CASE StopRequests
    BY <2>1, <2>3 DEF StopRequests, StopJob, StopPipeline, StopWakes, StopTimesOut, Answer,
                      StopOnly, worker_vars
  <2>4. CASE Scripts
    BY <2>1, <2>4 DEF Scripts, ChildBoots, ChildSaves, ChildEnds, ChildFinishes, ChildStops,
                ChildHitsLimit, ChildCrashes, ChildDies, Ends, OrphanWrites, OrphanExits,
                ScriptOnly, worker_vars
  <2>5. ASSUME NEW k \in Script, ClearCheckpoint(k)  PROVE BusyInv'
    BY <2>1, <2>5 DEF ClearCheckpoint, worker_vars
  <2>6. CASE Worker
    <3>1. CASE Dequeue
      <4>1. \A k \in Key : Queued(k) /\ k # Head(queue) => Queued(k)'
        BY <3>1, QueuedTail DEF Dequeue
      <4>. QED  BY <3>1, <4>1 DEF Dequeue
    <3>2. CASE DequeuePipeline
      <4>1. \A k \in Key : Queued(k) /\ k # Head(queue) => Queued(k)'
        BY <3>2, QueuedTail DEF DequeuePipeline
      <4>. QED  BY <3>2, <4>1, JobsAssumption DEF DequeuePipeline
    <3>3. CASE SpawnFails \/ Finish
      BY <2>1, <3>3, ClassifyType DEF SpawnFails, Finish, Finalize
    <3>4. CASE StreamFails  BY <2>1, <3>4 DEF StreamFails
    <3>5. CASE ScriptMissing  BY <2>1, <3>5 DEF ScriptMissing
    <3>6. CASE Spawn \/ Register  BY <2>1, <3>6 DEF Spawn, Register
    <3>7. CASE NextStep  BY <2>1, <3>7 DEF NextStep
    <3>8. CASE Return \/ BreakOff \/ PipelineReturns
      BY <2>1, <3>8 DEF Return, BreakOff, PipelineReturns
    <3>9. CASE BeginStep  BY <2>1, <3>9 DEF BeginStep
    <3>10. CASE Conclude
      BY <2>1, <3>10 DEF Conclude, LoopDone, ConcludeStopped, ConcludeCompleted
    <3>11. CASE PipelineFails  BY <2>1, <3>11 DEF PipelineFails
    <3>. QED  BY <2>6, <3>1, <3>2, <3>3, <3>4, <3>5, <3>6, <3>7, <3>8, <3>9, <3>10, <3>11
              DEF Worker
  <2>7. CASE Lifecycle
    <3>1. CASE CancelWorker  BY <2>1, <3>1 DEF CancelWorker, InTry
    <3>2. CASE BeginShutdown  BY <2>1, <3>1, <3>2 DEF BeginShutdown, worker_vars
    <3>3. CASE EndShutdown  BY <3>1, <3>3 DEF EndShutdown
    <3>4. CASE Crash  BY <2>1, <3>4 DEF Crash
    <3>5. CASE Restart  BY <3>5 DEF Restart
    <3>. QED  BY <2>7, <3>2, <3>3, <3>4, <3>5 DEF Lifecycle
  <2>8. CASE UNCHANGED vars  BY <2>1, <2>8 DEF vars, worker_vars
  <2>. QED  BY <1>2, <2>2, <2>3, <2>4, <2>5, <2>6, <2>7, <2>8 DEF Next
<1>3. BusyInv => BusyIsReal  BY DEF BusyInv, RunningAt, BusyIsReal
<1>. QED  BY <1>1, <1>2, <1>3, TypeInvHeld, PTL DEF Spec

-----------------------------------------------------------------------------
(* The pipeline *)

Succeeded(k) == exit[k] \in {"ok", "graceful"}
InStep == pc \in {"announce", "start", "spawned", "wait", "post"}

\* While the pipeline runs and is not to stop its key reads "running", which keeps
\* every start of a step's script out; so what the loop reads of a finished step is
\* what the runner wrote, or "stopped".
ChainInv ==
    /\ pc = "idle" => task = None
    /\ server = "down" => pc = "off"
    /\ server # "down" /\ task = Pipeline =>
        /\ pc # "final" /\ ~pipeline_stop_requested => process_status[Pipeline] = "running"
        /\ pc = "enter" => step = 0
        /\ InStep => /\ step \in DOMAIN Steps /\ cur = Steps[step]
                     /\ \A i \in 1 .. (step - 1) : Succeeded(Steps[i])
        /\ pc = "post" /\ ~StepBad /\ ~pipeline_stop_requested => Succeeded(cur)

\* No stop request is still to be answered when the next pipeline begins: its answer
\* would write "stopped" over the status of one that nobody stopped.
AnsweredBefore ==
    task = Pipeline /\ ~pipeline_stop_requested => \A h \in Stopper : stop[h].key # Pipeline

LEMMA ChainStep ==
    ASSUME TypeInv, Held, ChainInv, AnsweredBefore, [Next]_vars
    PROVE  ChainInv'
<1>. USE JobsAssumption DEF ChainInv, AnsweredBefore, InStep, Succeeded, StepBad, TypeInv, TypeOK,
         AtScript, Key, worker_vars, os_vars
<1>1. CASE UNCHANGED vars  BY <1>1 DEF vars
<1>2. ASSUME NEW k \in Key, Start(k) \/ Enqueue(k)  PROVE ChainInv'
  <2>1. Submit(k)  BY <1>2 DEF Start, Enqueue
  <2>2. server # "down" /\ task = Pipeline /\ pc # "final" /\ ~pipeline_stop_requested
          => k \in Unguarded
    BY <1>2 DEF Start, Enqueue, NothingBusy, Busy
  <2>3. server # "down" /\ task = Pipeline /\ InStep => cur \notin Unguarded
    OBVIOUS
  <2>. QED  BY <2>1, <2>2, <2>3 DEF Submit, AddTask, Failed
<1>3. CASE StopRequests
  <2>. PICK h \in Stopper : \/ \E k \in Script : StopJob(h, k)
                            \/ StopPipeline(h) \/ StopWakes(h) \/ StopTimesOut(h)
    BY <1>3 DEF StopRequests
  <2>1. CASE \E k \in Script : StopJob(h, k)  BY <2>1 DEF StopJob, StopOnly
  <2>2. CASE StopPipeline(h)
    <3>1. /\ pipeline_stop_requested'
          /\ UNCHANGED <<task, cur, step, pc, exit, server>>
      BY <2>2 DEF StopPipeline, StopOnly
    <3>2. task = Pipeline /\ pc = "post" => cur # Pipeline
      OBVIOUS
    <3>. QED  BY <3>1, <3>2
  <2>3. CASE StopWakes(h) \/ StopTimesOut(h)
    <3>1. Answer(h)  BY <2>3 DEF StopWakes, StopTimesOut
    <3>2. task = Pipeline /\ ~pipeline_stop_requested => stop[h].key # Pipeline
      OBVIOUS
    <3>. QED  BY <3>1, <3>2 DEF Answer, StopOnly, Failed
  <2>. QED  BY <2>1, <2>2, <2>3
<1>4. CASE Scripts
  <2>. PICK k \in Script : ChildBoots(k) \/ ChildSaves(k) \/ ChildEnds(k)
                           \/ OrphanWrites(k) \/ OrphanExits(k)
    BY <1>4 DEF Scripts
  <2>1. CASE ChildEnds(k)
    <3>1. PICK e \in Exit, cp \in BOOLEAN : Alive(k) /\ Ends(k, e, cp)
      BY <2>1, ChildEndsIsEnds DEF Alive
    <3>2. \A h \in Stopper : stop'[h].key = stop[h].key
      BY <3>1 DEF Ends, StopRequest
    <3>3. server # "down" => k = cur /\ pc \in {"spawned", "wait"}
      BY <3>1 DEF Held, LiveIsHeld
    <3>4. \A l \in Script : l # k => exit'[l] = exit[l]
      BY <3>1 DEF Ends
    <3>5. server # "down" /\ task = Pipeline =>
              \A i \in 1 .. (step - 1) : Steps[i] # k /\ Steps[i] \in Script
      BY <3>3
    <3>. QED  BY <3>1, <3>2, <3>3, <3>4, <3>5 DEF Ends, ScriptOnly
  <2>2. CASE ~ChildEnds(k)
    BY <2>2 DEF ChildBoots, ChildSaves, OrphanWrites, OrphanExits, ScriptOnly
  <2>. QED  BY <2>1, <2>2
<1>5. ASSUME NEW k \in Script, ClearCheckpoint(k)  PROVE ChainInv'
  BY <1>5 DEF ClearCheckpoint
<1>6. CASE Worker
  <2>. USE DEF WorkerOnly
  <2>1. CASE Dequeue  BY <2>1 DEF Dequeue
  <2>2. CASE DequeuePipeline  BY <2>2 DEF DequeuePipeline
  <2>3. CASE ScriptMissing  BY <2>3 DEF ScriptMissing, Failed
  <2>4. CASE Spawn
    <3>1. task = Pipeline => \A i \in 1 .. (step - 1) : Steps[i] # cur /\ Steps[i] \in Script
      BY <2>4 DEF Spawn
    <3>. QED  BY <2>4, <3>1 DEF Spawn
  <2>5. CASE SpawnFails  BY <2>5 DEF SpawnFails, Finalize, Failed
  <2>6. CASE Register  BY <2>6 DEF Register
  <2>7. CASE Finish
    <3>1. Classify(cur, ReturnCode(exit[cur])) \notin Failed => Succeeded(cur)
      BY <2>7 DEF Finish, Held, EndedHasExit, Exit, Classify, ReturnCode, Failed
    <3>. QED  BY <2>7, <3>1 DEF Finish, Finalize
  <2>8. CASE StreamFails
    <3>1. \A h \in Stopper : stop'[h].key = stop[h].key
      BY <2>8 DEF StreamFails, StopRequest
    <3>. QED  BY <2>8, <3>1 DEF StreamFails, Failed
  <2>9. CASE Return  BY <2>9 DEF Return
  <2>10. CASE NextStep
    <3>1. step + 1 \in DOMAIN Steps  BY <2>10 DEF NextStep
    <3>2. \A i \in 1 .. step : Succeeded(Steps[i])
      <4>1. CASE pc = "enter"  BY <2>10, <4>1 DEF NextStep
      <4>2. CASE pc = "post"  BY <2>10, <4>2 DEF NextStep
      <4>. QED  BY <2>10, <4>1, <4>2 DEF NextStep
    <3>. QED  BY <2>10, <3>1, <3>2 DEF NextStep
  <2>11. CASE BeginStep  BY <2>11 DEF BeginStep
  <2>12. CASE BreakOff  BY <2>12 DEF BreakOff
  <2>13. CASE Conclude
    BY <2>13 DEF Conclude, LoopDone, ConcludeStopped, ConcludeCompleted
  <2>14. CASE PipelineReturns  BY <2>14 DEF PipelineReturns
  <2>15. CASE PipelineFails  BY <2>15 DEF PipelineFails
  <2>. QED  BY <1>6, <2>1, <2>2, <2>3, <2>4, <2>5, <2>6, <2>7, <2>8, <2>9, <2>10, <2>11,
            <2>12, <2>13, <2>14, <2>15 DEF Worker
<1>7. CASE Lifecycle
  BY <1>7 DEF Lifecycle, BeginShutdown, EndShutdown, CancelWorker, Crash, Restart, IdleStop
<1>. QED  BY <1>1, <1>2, <1>3, <1>4, <1>5, <1>6, <1>7 DEF Next

LEMMA ChainInit == Init => ChainInv
BY JobsAssumption DEF Init, ChainInv, Key

LEMMA ChainMeans == ChainInv => PipelineShortCircuits
BY DEF ChainInv, PipelineShortCircuits, InStep, Succeeded

\* A step is under way only after every earlier one succeeded, whatever stops of the
\* pipeline and of its steps, failures and restarts interleave, as long as every stop
\* is answered before the pipeline is run again.
THEOREM ShortCircuit == Spec /\ []AnsweredBefore => []PipelineShortCircuits
<1>1. TypeInv /\ Held /\ ChainInv /\ AnsweredBefore /\ [Next]_vars => ChainInv'
  BY ChainStep
<1>. QED  BY <1>1, ChainInit, ChainMeans, TypeInvHeld, PTL DEF Spec

\* Where only single scripts are stopped the same holds without a condition.
THEOREM ShortCircuitOfSteps ==
    ASSUME Pipeline \notin Stoppable
    PROVE  Spec => []PipelineShortCircuits
<1>. DEFINE NotAsked == \A h \in Stopper : stop[h].key # Pipeline
<1>1. Init => NotAsked  BY JobsAssumption DEF Init, IdleStop, Key
<1>2. ASSUME TypeInv, NotAsked, [Next]_vars  PROVE NotAsked'
  <2>. USE <1>2, JobsAssumption DEF Key, TypeInv, TypeOK
  <2>1. CASE UNCHANGED stop  BY <2>1
  <2>2. CASE StreamFails
    <3>1. \A h \in Stopper : stop'[h].key = stop[h].key  BY <2>2 DEF StreamFails, StopRequest
    <3>. QED  BY <3>1
  <2>3. CASE StopRequests
    <3>1. PICK h \in Stopper : \/ \E k \in Script : StopJob(h, k)
                               \/ StopWakes(h) \/ StopTimesOut(h)
      BY <2>3 DEF StopRequests, StopPipeline
    <3>2. \E r : r.key \in Script \cup {None} /\ stop' = [stop EXCEPT ![h] = r]
      <4>1. CASE \E k \in Script : StopJob(h, k)  BY <4>1 DEF StopJob
      <4>2. CASE StopWakes(h) \/ StopTimesOut(h)
        BY <4>2 DEF StopWakes, StopTimesOut, Answer, IdleStop
      <4>. QED  BY <3>1, <4>1, <4>2
    <3>. QED  BY <3>2
  <2>4. ASSUME NEW k \in Script, ChildEnds(k)  PROVE NotAsked'
    <3>1. PICK e \in Exit, cp \in BOOLEAN : Ends(k, e, cp)  BY <2>4, ChildEndsIsEnds
    <3>2. \A h \in Stopper : stop'[h].key = stop[h].key  BY <3>1 DEF Ends, StopRequest
    <3>. QED  BY <3>2
  <2>5. CASE Crash  BY <2>5 DEF Crash, IdleStop
  <2>6. UNCHANGED vars => UNCHANGED stop  BY DEF vars
  <2>7. \A k \in Key : Start(k) \/ Enqueue(k) => UNCHANGED stop  BY DEF Start, Enqueue, Submit
  <2>8. Worker => StreamFails \/ UNCHANGED stop
    BY DEF Worker, Dequeue, DequeuePipeline, ScriptMissing, Spawn, SpawnFails, Register, Finish,
           Return, NextStep, BeginStep, BreakOff, Conclude, ConcludeStopped, ConcludeCompleted,
           PipelineReturns, PipelineFails, WorkerOnly, Finalize
  <2>9. Scripts => (\E k \in Script : ChildEnds(k)) \/ UNCHANGED stop
    BY DEF Scripts, ChildBoots, ChildSaves, OrphanWrites, OrphanExits
  <2>10. Lifecycle => Crash \/ UNCHANGED stop
    BY DEF Lifecycle, BeginShutdown, EndShutdown, CancelWorker, Restart
  <2>11. \A k \in Script : ClearCheckpoint(k) => UNCHANGED stop  BY DEF ClearCheckpoint
  <2>. HIDE DEF NotAsked
  <2>. QED  BY <2>1, <2>2, <2>3, <2>4, <2>5, <2>6, <2>7, <2>8, <2>9, <2>10, <2>11 DEF Next
<1>3. NotAsked => AnsweredBefore  BY DEF AnsweredBefore
<1>4. Spec => []NotAsked
  <2>1. TypeInv /\ NotAsked /\ [Next]_vars => NotAsked'  BY <1>2
  <2>. HIDE DEF NotAsked
  <2>. QED  BY <1>1, <2>1, TypeInvHeld, PTL DEF Spec
<1>. HIDE DEF NotAsked
<1>. QED  BY <1>3, <1>4, ShortCircuit, PTL

-----------------------------------------------------------------------------
(* Checkpoints *)

\* What a script saved before it gave up on an API limit is there for the next
\* run: of all steps only the user's clear_checkpoint removes it.
THEOREM LimitKeepsCheckpoint ==
    ASSUME Faults \cap {"stream", "shutdown", "crash"} = {}
    PROVE  Spec => LimitCheckpointKept
<1>1. ASSUME TypeInv, Held, NoLoss, [Next]_vars, NEW k \in Script,
             exit[k] = "limit", checkpoint[k], ~Alive(k), ~ClearCheckpoint(k)
      PROVE  checkpoint'[k]
  <2>. USE <1>1 DEF TypeInv, TypeOK, NoLoss, files, Alive
  <2>1. CASE UNCHANGED vars  BY <2>1 DEF vars
  <2>2. ASSUME NEW l \in Key, Start(l) \/ Enqueue(l)  PROVE checkpoint'[k]
    BY <2>2 DEF Start, Enqueue, Submit
  <2>3. CASE StopRequests
    BY <2>3 DEF StopRequests, StopJob, StopPipeline, StopWakes, StopTimesOut, Answer, StopOnly
  <2>4. CASE Scripts
    <3>1. ASSUME NEW l \in Script, NEW e, NEW cp, Alive(l), Ends(l, e, cp)
          PROVE  checkpoint'[k]
      BY <3>1 DEF Ends
    <3>2. ASSUME NEW l \in Script, ChildEnds(l)  PROVE checkpoint'[k]
      BY <3>1, <3>2 DEF ChildEnds, ChildFinishes, ChildStops, ChildHitsLimit, ChildCrashes,
                        ChildDies
    <3>3. ASSUME NEW l \in Script, ChildBoots(l) \/ ChildSaves(l) \/ OrphanWrites(l)
                                    \/ OrphanExits(l)
          PROVE  checkpoint'[k]
      BY <3>3 DEF ChildBoots, ChildSaves, OrphanWrites, OrphanExits
    <3>. QED  BY <2>4, <3>2, <3>3 DEF Scripts
  <2>5. ASSUME NEW l \in Script, ClearCheckpoint(l)  PROVE checkpoint'[k]
    BY <2>5 DEF ClearCheckpoint
  <2>6. CASE Worker
    <3>1. CASE SpawnFails  BY <3>1 DEF SpawnFails, Finalize
    <3>2. CASE Finish
      <4>1. k = cur => Classify(cur, ReturnCode(exit[cur])) # "completed"
        BY DEF Classify, ReturnCode
      <4>. QED  BY <3>2, <4>1 DEF Finish, Finalize
    <3>3. CASE ~(SpawnFails \/ Finish)
      BY <2>6, <3>3 DEF Worker, WorkerOnly, Dequeue, DequeuePipeline, ScriptMissing, Spawn,
         Register, StreamFails, Return, NextStep, BeginStep, BreakOff, Conclude,
         ConcludeStopped, ConcludeCompleted, PipelineReturns, PipelineFails
    <3>. QED  BY <3>1, <3>2, <3>3
  <2>7. CASE Lifecycle
    BY <2>7 DEF Lifecycle, BeginShutdown, EndShutdown, Crash, Restart
  <2>. QED  BY <1>1, <2>1, <2>2, <2>3, <2>4, <2>5, <2>6, <2>7 DEF Next
<1>2. TypeInv /\ Held /\ NoLoss /\ [Next]_vars
      => [\A k \in Script :
            exit[k] = "limit" /\ checkpoint[k] => checkpoint'[k] \/ ClearCheckpoint(k)
                                                 \/ Alive(k)]_vars
  BY <1>1
<1>. QED  BY <1>2, NoLossHolds, TypeInvHeld, PTL DEF Spec, LimitCheckpointKept

=============================================================================
