----------------------------- MODULE CloudSync ------------------------------
(***************************************************************************)
(* Whole-database mirror to a Turso / libSQL remote: cloud_sync.py.        *)
(*                                                                         *)
(* A controller thread of the server (_run_in_subprocess) starts a worker  *)
(* process (_cloud_worker_main), polls it, and ends it on a cancel or a    *)
(* timeout; they share a cancel file and a result file.  The remote        *)
(* connection autocommits, so every statement of a push is durable by      *)
(* itself.  Local writers (requests, jobs) interleave with both.           *)
(*                                                                         *)
(* A database maps its tables to sets of rows.  The local one is in WAL    *)
(* mode: a commit goes to the log, table by table, until a checkpoint      *)
(* takes it over into the file.  The cloud_sync_log row the controller     *)
(* writes at the end is not part of the data.                              *)
(***************************************************************************)
EXTENDS Naturals, Sequences, FiniteSets

CONSTANTS
    Order,          \* the mirrored tables in sqlite_master order
    Items,          \* the table items, which _local_has_data looks at
    Row,            \* rows
    BatchRows,      \* rows of one multi-row INSERT, at least 1
    WritesInSync,   \* local writers run during a sync too
    Faults,         \* environment faults that can happen, a subset of FaultKind
    None            \* Python's None

FaultKind == {"spawn", "io", "held"}
Table == {Order[i] : i \in DOMAIN Order}

ASSUME CloudAssumption ==
    /\ Order \in Seq(Table)
    /\ \A i, j \in DOMAIN Order : Order[i] = Order[j] => i = j
    /\ Items \in Table
    /\ BatchRows \in Nat \ {0}
    /\ WritesInSync \in BOOLEAN
    /\ Faults \subseteq FaultKind
    /\ None \notin {"push", "pull", "success", "skipped", "cancelled", "error"}

VARIABLES
    local,          \* app_data.db, the main file
    wal,            \* app_data.db-wal: the tables with commits since the last checkpoint
    held,           \* connections are open to a main file that a pull replaced
    remote,         \* the Turso database
    running,        \* _progress.running
    direction,      \* of the sync in flight, or None
    cancel,         \* the _cancel event
    thread,         \* where the controller thread is
    timed_out,
    cancel_file,    \* cancel.flag in the sync's working directory
    result,         \* status in result.json, or None
    worker,         \* where the worker process is, "none" when there is none
    todo,           \* tables the worker's present phase has still to handle
    src,            \* rows the worker has still to copy
    tmp,            \* app_data.db.cloudpull.tmp
    snap,           \* history: the source as the worker first saw it
    before,         \* history: the remote when the sync began
    blind           \* history: the look at the local database failed and hid its items

controller == <<running, direction, cancel, thread, timed_out>>
process    == <<cancel_file, result, worker, todo, src, tmp>>
databases  == <<local, wal, held, remote>>
history    == <<snap, before, blind>>
vars == <<databases, controller, process, history>>

-----------------------------------------------------------------------------
(* Databases *)

Db == UNION {[S -> SUBSET Row] : S \in SUBSET Table}
EmptyDb == [t \in {} |-> {}]
RowsOf(db) == UNION {{t} \X db[t] : t \in DOMAIN db}
HasData(db) == Items \in DOMAIN db /\ db[Items] # {}
Without(db, t) == [u \in DOMAIN db \ {t} |-> db[u]]
WithRows(db, t, rows) == [u \in DOMAIN db \cup {t} |-> IF u = t THEN rows ELSE db[u]]
WithTable(db, t) == WithRows(db, t, {})

\* What a connection reads of a file and its log; Seen is what one opened now reads.
Overlay(db, log) ==
    [t \in DOMAIN db \cup DOMAIN log |-> IF t \in DOMAIN log THEN log[t] ELSE db[t]]
Seen == Overlay(local, wal)

\* t is the first of the tables S in Order.
IsFirst(t, S) ==
    \E i \in DOMAIN Order :
        Order[i] = t /\ \A j \in DOMAIN Order : Order[j] \in S => i <= j

Direction == {"push", "pull"}
Result == {"success", "skipped", "cancelled", "error"}
WorkerPC == {"none", "start", "drop", "create", "copy", "guard", "replace", "report"}
Copying == {"start", "drop", "create", "copy"}

TypeOK ==
    /\ local \in Db /\ wal \in Db /\ remote \in Db
    /\ running \in BOOLEAN /\ cancel \in BOOLEAN /\ timed_out \in BOOLEAN
    /\ cancel_file \in BOOLEAN
    /\ direction \in Direction \cup {None}
    /\ thread \in {"off", "begun", "poll", "reap"}
    /\ result \in Result \cup {None}
    /\ worker \in WorkerPC
    /\ todo \subseteq Table
    /\ src \in Db /\ tmp \in Db /\ snap \in Db
    /\ before \in Db /\ blind \in BOOLEAN /\ held \in BOOLEAN

\* A populated or blank installation; the remote is new or was pushed to.
Init ==
    /\ local \in [Table -> SUBSET Row]
    /\ remote \in {EmptyDb, local}
    /\ wal = EmptyDb /\ held = FALSE
    /\ running = FALSE /\ direction = None /\ cancel = FALSE /\ thread = "off"
    /\ timed_out = FALSE
    /\ cancel_file = FALSE /\ result = None /\ worker = "none"
    /\ todo = {} /\ src = EmptyDb /\ tmp = EmptyDb
    /\ snap = EmptyDb /\ before = EmptyDb /\ blind = FALSE

-----------------------------------------------------------------------------
(* Local writers *)

WriterMayRun == WritesInSync \/ thread = "off"

\* A commit of a table's rows, into the log.
Commits(t, rows) ==
    /\ wal' = WithRows(wal, t, rows)
    /\ UNCHANGED <<local, held, remote, controller, process, history>>

Save(t, r) ==
    /\ WriterMayRun
    /\ t \in DOMAIN Seen /\ r \notin Seen[t]
    /\ Commits(t, Seen[t] \cup {r})

Delete(t, r) ==
    /\ WriterMayRun
    /\ t \in DOMAIN Seen /\ r \in Seen[t]
    /\ Commits(t, Seen[t] \ {r})

\* A connection opened before a pull replaced the file has that one open, and the
\* log of the new one: it commits rows that come of the old file, whatever they are.
SaveThroughOld(t, rows) ==
    /\ WriterMayRun
    /\ held
    /\ Commits(t, rows)

\* The last of these connections closes.
CloseOld ==
    /\ held /\ held' = FALSE
    /\ UNCHANGED <<local, wal, remote, controller, process, history>>

\* wal_checkpoint, SQLite's own, or the last connection closes.
Checkpoint ==
    /\ wal # EmptyDb
    /\ local' = Seen /\ wal' = EmptyDb
    /\ UNCHANGED <<held, remote, controller, process, history>>

-----------------------------------------------------------------------------
(* The controller *)

\* push() or pull(), from the endpoints, the startup task, the periodic loop or
\* the shutdown; while a sync runs the answer is "busy".
BeginOp(d) ==
    /\ ~running
    /\ running' = TRUE /\ direction' = d /\ cancel' = FALSE
    /\ thread' = "begun" /\ before' = remote
    /\ UNCHANGED <<databases, timed_out, process, snap, blind>>

\* mkdtemp stands after _begin_op and outside the try: when it raises, the call is
\* over and running stays set.
WorkdirFails ==
    /\ "spawn" \in Faults /\ thread = "begun" /\ thread' = "off"
    /\ UNCHANGED <<databases, running, direction, cancel, timed_out, process, history>>

Lost == running /\ thread = "off"

\* The server is started anew.
Restart ==
    /\ Lost
    /\ running' = FALSE /\ direction' = None /\ cancel' = FALSE /\ before' = EmptyDb
    /\ UNCHANGED <<databases, thread, timed_out, process, snap, blind>>

Spawn ==
    /\ thread = "begun" /\ thread' = "poll"
    /\ worker' = "start"
    /\ UNCHANGED <<databases, running, direction, cancel, timed_out,
                   cancel_file, result, todo, src, tmp, history>>

\* _end_op; the working directory and the call's variables go.
EndOp ==
    /\ running' = FALSE /\ thread' = "off"
    /\ direction' = None /\ timed_out' = FALSE
    /\ cancel_file' = FALSE /\ result' = None
    /\ snap' = EmptyDb /\ before' = EmptyDb /\ blind' = FALSE
    /\ UNCHANGED <<databases, cancel, worker, todo, src, tmp>>

SpawnFails == "spawn" \in Faults /\ thread = "begun" /\ EndOp

\* The worker's memory goes with it.
WorkerGone == worker' = "none" /\ todo' = {} /\ src' = EmptyDb

\* POST /api/cloud/cancel
RequestCancel ==
    /\ running /\ ~cancel /\ cancel' = TRUE
    /\ UNCHANGED <<databases, running, direction, thread, timed_out, process,
                   history>>

WriteCancelFile ==
    /\ thread = "poll" /\ cancel /\ ~cancel_file
    /\ cancel_file' = TRUE
    /\ UNCHANGED <<databases, controller, result, worker, todo, src, tmp, history>>

\* Variant that leaves the loop without ending the worker.
Abandon(late) ==
    /\ thread' = "reap" /\ timed_out' = late
    /\ UNCHANGED <<databases, running, direction, cancel, process, history>>

\* _terminate_proc, and out of the polling loop; the worker may have ended since
\* the poll.
Terminate(late) ==
    /\ thread' = "reap" /\ timed_out' = late
    /\ WorkerGone
    /\ UNCHANGED <<databases, running, direction, cancel, cancel_file, result, tmp,
                   history>>

\* CANCEL_GRACE_SECONDS after the cancel file was written.
GraceExpires == thread = "poll" /\ cancel_file /\ Terminate(FALSE)

\* Variant that waits for a cancel.
StallsAfterCancel == thread = "poll" /\ cancel_file /\ Terminate(TRUE)

\* SYNC_STALL_SECONDS without progress, or SYNC_MAX_SECONDS in all.
Stalls == thread = "poll" /\ Terminate(TRUE)

\* The poll sees that the worker has ended.
WorkerEnded ==
    /\ thread = "poll" /\ worker = "none"
    /\ thread' = "reap"
    /\ UNCHANGED <<databases, running, direction, cancel, timed_out, process,
                   history>>

\* What the call returns and logs.
Outcome == IF timed_out THEN "error"
           ELSE IF result # None THEN result
           ELSE IF cancel THEN "cancelled" ELSE "error"

Reap == thread = "reap" /\ EndOp

Controller ==
    \/ WorkdirFails \/ Spawn \/ SpawnFails \/ WriteCancelFile \/ GraceExpires \/ Stalls
    \/ WorkerEnded \/ Reap

-----------------------------------------------------------------------------
(* The worker *)

WorkerOnly == UNCHANGED <<controller, cancel_file, before, blind>>

\* The worker leaves its result and ends.
Exits(r) ==
    /\ WorkerGone /\ result' = r
    /\ WorkerOnly

\* A pull removes its temporary file, a push leaves the remote as it is.
Discard == tmp' = IF direction = "pull" THEN EmptyDb ELSE tmp

\* check_cancel, before every statement of the two copying phases.
Cancelled ==
    /\ worker \in Copying /\ cancel_file
    /\ Discard
    /\ Exits("cancelled")
    /\ UNCHANGED <<databases, snap>>

\* Variant with a status the controller does not know.
FailsUnknown ==
    /\ "io" \in Faults
    /\ worker \in {"start", "create", "copy", "replace"}
    /\ Discard
    /\ Exits("failed")
    /\ UNCHANGED <<databases, snap>>

\* An exception in a statement other than DROP, in the connection or in os.replace.
Fails ==
    /\ "io" \in Faults
    /\ worker \in {"start", "create", "copy", "replace"}
    /\ Discard
    /\ Exits("error")
    /\ UNCHANGED <<databases, snap>>

Phase(pc, tables) == worker' = pc /\ todo' = tables

\* The source database: app_data.db under BEGIN, or the remote.
Source  == IF direction = "push" THEN Seen ELSE remote
Target  == IF direction = "push" THEN remote ELSE tmp
Write(db) == IF direction = "push" THEN remote' = db /\ UNCHANGED tmp
                                   ELSE tmp' = db /\ UNCHANGED remote
Copies == UNCHANGED <<local, wal, held, result>> /\ WorkerOnly

\* The source's objects and row counts are read, and the target's objects; a
\* pull's target is a new file.
Connect ==
    /\ worker = "start" /\ ~cancel_file
    /\ src' = Source /\ snap' = Source
    /\ Phase("drop", IF direction = "push" THEN DOMAIN remote ELSE {})
    /\ Discard
    /\ UNCHANGED remote /\ Copies

\* One DROP; when some of them fail the order is any, for there are three passes.
DropTable ==
    /\ worker = "drop" /\ ~cancel_file
    /\ \E t \in todo :
        /\ IsFirst(t, todo) \/ "io" \in Faults
        /\ Write(Without(Target, t))
        /\ Phase("drop", todo \ {t})
    /\ UNCHANGED <<src, snap>> /\ Copies

\* No object is left to drop, or three passes could not drop the rest.
DropsDone ==
    /\ worker = "drop" /\ (todo = {} \/ "io" \in Faults)
    /\ Phase("create", DOMAIN src)
    /\ UNCHANGED <<remote, tmp, src, snap>> /\ Copies

CreateTable ==
    /\ worker = "create" /\ ~cancel_file
    /\ \E t \in todo :
        /\ IsFirst(t, todo) /\ t \notin DOMAIN Target
        /\ Write(WithTable(Target, t))
        /\ Phase("create", todo \ {t})
    /\ UNCHANGED <<src, snap>> /\ Copies

\* "table already exists"
CreateFails ==
    /\ worker = "create" /\ ~cancel_file
    /\ \E t \in todo : IsFirst(t, todo) /\ t \in DOMAIN Target
    /\ Discard
    /\ Exits("error")
    /\ UNCHANGED <<databases, snap>>

CreatesDone ==
    /\ worker = "create" /\ todo = {}
    /\ Phase("copy", DOMAIN src)
    /\ UNCHANGED <<remote, tmp, src, snap>> /\ Copies

\* Variant that reads the live table.
InsertLive ==
    /\ worker = "copy" /\ ~cancel_file
    /\ \E t \in todo :
        /\ IsFirst(t, todo) /\ src[t] # {} /\ t \in DOMAIN Source
        /\ Write([Target EXCEPT ![t] = Source[t]])
        /\ src' = [src EXCEPT ![t] = {}]
    /\ UNCHANGED <<worker, todo, snap>> /\ Copies

\* One multi-row INSERT of BatchRows rows, or of what is left.
InsertBatch ==
    /\ worker = "copy" /\ ~cancel_file
    /\ \E t \in todo :
        \E batch \in SUBSET src[t] :
            /\ IsFirst(t, todo)
            /\ batch # {} /\ (Cardinality(batch) = BatchRows \/ batch = src[t])
            /\ Cardinality(batch) <= BatchRows
            /\ Write([Target EXCEPT ![t] = @ \cup batch])
            /\ src' = [src EXCEPT ![t] = @ \ batch]
    /\ UNCHANGED <<worker, todo, snap>> /\ Copies

\* Variant that gives up a last, short batch.
TableDoneEarly ==
    /\ worker = "copy"
    /\ \E t \in todo :
        /\ IsFirst(t, todo) /\ Cardinality(src[t]) <= BatchRows
        /\ Phase("copy", todo \ {t})
    /\ UNCHANGED <<remote, tmp, src, snap>> /\ Copies

TableDone ==
    /\ worker = "copy"
    /\ \E t \in todo :
        /\ IsFirst(t, todo) /\ src[t] = {}
        /\ Phase("copy", todo \ {t})
    /\ UNCHANGED <<remote, tmp, src, snap>> /\ Copies

\* A push is done; a pull goes on with the downloaded file.
CopyDone ==
    /\ worker = "copy" /\ todo = {}
    /\ worker' = IF direction = "push" THEN "report" ELSE "guard"
    /\ UNCHANGED <<remote, tmp, todo, src, snap>> /\ Copies

\* Variant that trusts the remote.
AcceptAny ==
    /\ worker = "guard" /\ worker' = "replace"
    /\ UNCHANGED <<remote, tmp, todo, src, snap>> /\ Copies

\* No rows came and the local database holds items: skipped.
Refuse ==
    /\ worker = "guard" /\ RowsOf(tmp) = {} /\ HasData(Seen)
    /\ tmp' = EmptyDb
    /\ Exits("skipped")
    /\ UNCHANGED <<databases, snap>>

\* _local_has_data answers False to any exception of its own: a database locked for
\* 30 seconds, or damaged, counts as one without items.  What is accepted replaces
\* the database next, when the main file has been copied to app_data.db.prepull.bak,
\* which nothing reads.
Accept ==
    /\ worker = "guard" /\ worker' = "replace"
    /\ RowsOf(tmp) # {} \/ ~HasData(Seen) \/ "io" \in Faults
    /\ blind' = (RowsOf(tmp) = {} /\ HasData(Seen))
    /\ UNCHANGED <<databases, controller, cancel_file, result, todo, src, tmp, snap, before>>

\* os.replace of the main file: the log stays and is read with the new file.
Replace ==
    /\ worker = "replace" /\ worker' = "report"
    /\ local' = tmp /\ tmp' = EmptyDb
    /\ \/ UNCHANGED held
       \/ "held" \in Faults /\ held' = TRUE
    /\ UNCHANGED <<wal, remote, result, todo, src, snap>> /\ WorkerOnly

Report ==
    /\ worker = "report" /\ Exits("success")
    /\ UNCHANGED <<databases, tmp, snap>>

Worker ==
    \/ Connect \/ DropTable \/ DropsDone \/ CreateTable \/ CreateFails \/ CreatesDone
    \/ InsertBatch \/ TableDone \/ CopyDone \/ Refuse \/ Accept \/ Replace \/ Report
    \/ Cancelled \/ Fails

-----------------------------------------------------------------------------

Next ==
    \/ \E t \in Table, r \in Row : Save(t, r) \/ Delete(t, r)
    \/ \E t \in Table, rows \in SUBSET Row : SaveThroughOld(t, rows)
    \/ CloseOld \/ Checkpoint
    \/ \E d \in Direction : BeginOp(d)
    \/ RequestCancel \/ Restart
    \/ Controller
    \/ Worker

Spec == Init /\ [][Next]_vars

\* The controller's thread runs and its timeouts expire; nothing is assumed of the
\* worker, whose network calls may hang for ever.
FairSpec == Spec /\ WF_vars(Controller)

-----------------------------------------------------------------------------
(* Properties *)

\* A push that reports success left the remote equal to the local database as it
\* was when the worker first read it, whatever was written locally meanwhile and
\* whatever an earlier, interrupted push had left behind.
PushIsMirror ==
    direction = "push" /\ (worker = "report" \/ result = "success") => remote = snap

\* The worker process does not outlive its sync: the next sync finds none that
\* still writes to the remote or to the local file.
NoOrphanWorker == worker # "none" => running /\ thread = "poll"

\* A pull changes what a new connection reads in one step, into the whole of what
\* the remote held, but for the tables whose commits are still in the log then:
\* os.replace swaps the main file alone.  Nothing else but a writer changes it.
PullIsWhole ==
    [][Seen' # Seen =>
         \/ \E t \in Table, r \in Row : Save(t, r) \/ Delete(t, r)
         \/ \E t \in Table, rows \in SUBSET Row : SaveThroughOld(t, rows)
         \/ direction = "pull" /\ Seen' = Overlay(remote, wal)]_vars

\* A blank remote does not replace a local database with items, unless the look at
\* that database failed.
BlankNeverReplaces ==
    [][worker = "replace" /\ worker' = "report" /\ RowsOf(tmp) = {}
         => ~HasData(Seen) \/ blind]_vars

\* A wedged network call cannot hold the controller: every sync ends and makes room
\* for the next one, but for a call whose mkdtemp raised.
SyncEnds == running ~> ~running \/ Lost

-----------------------------------------------------------------------------
(* What the repository says and the code does not do.                         *)

\* Module docstring: a cancel is "graceful, so the remote transaction rolls back".
CancelledPushRollsBack ==
    [][thread = "reap" /\ thread' = "off" /\ direction = "push" /\ Outcome = "cancelled"
         => remote = before]_vars

=============================================================================
