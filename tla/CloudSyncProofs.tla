--------------------------- MODULE CloudSyncProofs --------------------------
(***************************************************************************)
(* Theorems about CloudSync, for any tables, rows and batch size, with     *)
(* local writers at any time and with every fault of the model.            *)
(***************************************************************************)
EXTENDS CloudSync, TLAPS

-----------------------------------------------------------------------------
(* The inductive invariant *)

\* The worker lives only while the controller polls it.
WorkerOwned ==
    /\ worker # "none" => thread = "poll"
    /\ thread # "off" => running
    /\ running <=> direction # None
    /\ worker # "none" \/ thread \in {"off", "begun"} => result = None
    /\ worker \in {"guard", "replace"} => direction = "pull"

\* What the target holds at each phase of the copy.
Copied ==
    /\ worker \in {"drop", "create", "copy"} => DOMAIN src = DOMAIN snap
    /\ worker \in {"drop", "create"} => src = snap
    /\ worker \in {"drop", "create", "copy"} => DOMAIN Target \subseteq DOMAIN snap
    /\ worker \in {"create", "copy"} => todo \subseteq DOMAIN snap
    /\ worker = "create" =>
        \A t \in DOMAIN snap \ todo : t \in DOMAIN Target /\ Target[t] = {}
    /\ worker = "copy" =>
        \A t \in DOMAIN snap :
            /\ t \in DOMAIN Target /\ Target[t] \cup src[t] = snap[t]
            /\ t \notin todo => src[t] = {}
    /\ worker \in {"guard", "replace"} => tmp = snap
    /\ direction = "push" /\ worker = "report" => remote = snap
    /\ direction = "push" /\ result = "success" => remote = snap

\* The source of a copy keeps its tables, and a remote keeps its rows, meanwhile;
\* the remote has no table that the local database lacks.
SourceStable ==
    /\ DOMAIN remote \subseteq DOMAIN Seen
    /\ worker \in {"drop", "create", "copy"} /\ direction = "push"
         => DOMAIN snap \subseteq DOMAIN Seen
    /\ worker \in {"drop", "create", "copy", "guard", "replace"}
         /\ direction = "pull" => snap = remote

MirrorInv == TypeOK /\ WorkerOwned /\ Copied /\ SourceStable

\* With no local writer during a sync, what the guard saw is still so.
Guarded ==
    worker = "replace" => RowsOf(tmp) # {} \/ ~HasData(Seen) \/ blind

-----------------------------------------------------------------------------
(* Databases *)

LEMMA DbElim ==
    ASSUME NEW db \in Db
    PROVE  DOMAIN db \subseteq Table /\ db \in [DOMAIN db -> SUBSET Row]
BY DEF Db

LEMMA DbIntro ==
    ASSUME NEW S \in SUBSET Table, NEW db \in [S -> SUBSET Row]
    PROVE  db \in Db
BY DEF Db

LEMMA EmptyDbType == EmptyDb \in Db /\ DOMAIN EmptyDb = {}
<1>1. EmptyDb \in [{} -> SUBSET Row]  BY DEF EmptyDb
<1>. QED  BY <1>1, DbIntro DEF EmptyDb

LEMMA WithoutType ==
    ASSUME NEW db \in Db, NEW t
    PROVE  /\ Without(db, t) \in Db
           /\ DOMAIN Without(db, t) = DOMAIN db \ {t}
<1>1. DOMAIN db \subseteq Table /\ db \in [DOMAIN db -> SUBSET Row]  BY DbElim
<1>2. Without(db, t) \in [DOMAIN db \ {t} -> SUBSET Row]  BY <1>1 DEF Without
<1>. QED  BY <1>1, <1>2, DbIntro DEF Without

LEMMA WithRowsType ==
    ASSUME NEW db \in Db, NEW t \in Table, NEW rows \in SUBSET Row
    PROVE  /\ WithRows(db, t, rows) \in Db
           /\ DOMAIN WithRows(db, t, rows) = DOMAIN db \cup {t}
           /\ WithRows(db, t, rows)[t] = rows
           /\ \A u \in DOMAIN db \ {t} : WithRows(db, t, rows)[u] = db[u]
<1>1. DOMAIN db \subseteq Table /\ db \in [DOMAIN db -> SUBSET Row]  BY DbElim
<1>2. WithRows(db, t, rows) \in [DOMAIN db \cup {t} -> SUBSET Row]  BY <1>1 DEF WithRows
<1>3. DOMAIN db \cup {t} \in SUBSET Table  BY <1>1
<1>. QED  BY <1>2, <1>3, DbIntro DEF WithRows

LEMMA WithTableType ==
    ASSUME NEW db \in Db, NEW t \in Table
    PROVE  /\ WithTable(db, t) \in Db
           /\ DOMAIN WithTable(db, t) = DOMAIN db \cup {t}
           /\ WithTable(db, t)[t] = {}
           /\ \A u \in DOMAIN db \ {t} : WithTable(db, t)[u] = db[u]
<1>1. {} \in SUBSET Row  OBVIOUS
<1>. QED  BY <1>1, WithRowsType DEF WithTable

\* What is read of a file and its log; an empty log hides nothing.
LEMMA OverlayType ==
    ASSUME NEW db \in Db, NEW log \in Db
    PROVE  /\ Overlay(db, log) \in Db
           /\ DOMAIN Overlay(db, log) = DOMAIN db \cup DOMAIN log
<1>1. /\ DOMAIN db \subseteq Table /\ db \in [DOMAIN db -> SUBSET Row]
      /\ DOMAIN log \subseteq Table /\ log \in [DOMAIN log -> SUBSET Row]
  BY DbElim
<1>2. Overlay(db, log) \in [DOMAIN db \cup DOMAIN log -> SUBSET Row]
  BY <1>1 DEF Overlay
<1>3. DOMAIN db \cup DOMAIN log \in SUBSET Table  BY <1>1
<1>. QED  BY <1>2, <1>3, DbIntro DEF Overlay

LEMMA OverlayEmpty == ASSUME NEW db \in Db PROVE Overlay(db, EmptyDb) = db
<1>1. db \in [DOMAIN db -> SUBSET Row]  BY DbElim
<1>. QED  BY <1>1 DEF Overlay, EmptyDb

LEMMA SeenType == ASSUME TypeOK PROVE Seen \in Db
BY OverlayType DEF TypeOK, Seen

\* Rows added to a table or taken from it.
LEMMA UpdateType ==
    ASSUME NEW db \in Db, NEW t, NEW rows \in SUBSET Row
    PROVE  /\ [db EXCEPT ![t] = rows] \in Db
           /\ DOMAIN [db EXCEPT ![t] = rows] = DOMAIN db
           /\ t \in DOMAIN db => [db EXCEPT ![t] = rows][t] = rows
           /\ \A u \in DOMAIN db : u # t => [db EXCEPT ![t] = rows][u] = db[u]
<1>1. DOMAIN db \subseteq Table /\ db \in [DOMAIN db -> SUBSET Row]  BY DbElim
<1>2. [db EXCEPT ![t] = rows] \in [DOMAIN db -> SUBSET Row]  BY <1>1
<1>3. DOMAIN db \in SUBSET Table  BY <1>1
<1>. QED  BY <1>1, <1>2, <1>3, DbIntro

-----------------------------------------------------------------------------
(* Types *)

LEMMA InitType == Init => TypeOK
<1>. SUFFICES ASSUME Init PROVE TypeOK  OBVIOUS
<1>1. local \in Db  BY DbIntro DEF Init
<1>2. remote \in Db /\ wal \in Db /\ src \in Db /\ tmp \in Db /\ snap \in Db /\ before \in Db
  BY <1>1, EmptyDbType DEF Init
<1>. QED  BY <1>1, <1>2 DEF Init, TypeOK, WorkerPC

\* A commit adds the table to those of the log, and removes none.
LEMMA CommitType ==
    ASSUME TypeOK, NEW t \in Table, NEW rows \in SUBSET Row, Commits(t, rows)
    PROVE  /\ TypeOK' /\ DOMAIN Seen \subseteq DOMAIN Seen'
           /\ UNCHANGED <<remote, controller, process, history>>
<1>1. UNCHANGED <<local, held, remote, controller, process, history>>  BY DEF Commits
<1>2. wal' \in Db /\ DOMAIN wal' = DOMAIN wal \cup {t}
  BY WithRowsType DEF Commits, TypeOK
<1>3. DOMAIN Seen = DOMAIN local \cup DOMAIN wal  BY OverlayType DEF TypeOK, Seen
<1>4. DOMAIN Seen' = DOMAIN local \cup DOMAIN wal'
  BY <1>1, <1>2 DEF Seen, Overlay
<1>. QED  BY <1>1, <1>2, <1>3, <1>4 DEF TypeOK, controller, process, history

\* The writers: commits, through either file, checkpoints and closes.
Writer ==
    \/ \E t \in Table, r \in Row : Save(t, r) \/ Delete(t, r)
    \/ \E t \in Table, rows \in SUBSET Row : SaveThroughOld(t, rows)
    \/ CloseOld \/ Checkpoint

LEMMA WriterType ==
    ASSUME TypeOK, Writer
    PROVE  /\ TypeOK' /\ DOMAIN Seen \subseteq DOMAIN Seen'
           /\ UNCHANGED <<remote, controller, process, history>>
<1>1. ASSUME NEW t \in Table, NEW r \in Row, Save(t, r) \/ Delete(t, r)
      PROVE  \E rows \in SUBSET Row : Commits(t, rows)
  <2>1. t \in DOMAIN Seen  BY <1>1 DEF Save, Delete
  <2>2. Seen[t] \subseteq Row  BY <2>1, SeenType, DbElim
  <2>3. Seen[t] \cup {r} \in SUBSET Row /\ Seen[t] \ {r} \in SUBSET Row  BY <2>2
  <2>. QED  BY <1>1, <2>3 DEF Save, Delete
<1>2. ASSUME NEW t \in Table, NEW rows \in SUBSET Row, SaveThroughOld(t, rows)
      PROVE  Commits(t, rows)
  BY <1>2 DEF SaveThroughOld
<1>3. CASE CloseOld
  <2>1. Seen' = Seen  BY <1>3 DEF CloseOld, Seen, Overlay
  <2>. QED  BY <1>3, <2>1 DEF CloseOld, TypeOK, controller, process, history
<1>4. CASE Checkpoint
  <2>1. Seen \in Db  BY SeenType
  <2>2. Seen' = Seen  BY <1>4, <2>1, OverlayEmpty DEF Checkpoint, Seen
  <2>. QED  BY <1>4, <2>1, <2>2, EmptyDbType
       DEF Checkpoint, TypeOK, controller, process, history
<1>. QED  BY <1>1, <1>2, <1>3, <1>4, CommitType DEF Writer

\* The controller and its callers.
Caller == Controller \/ RequestCancel \/ Restart \/ \E d \in Direction : BeginOp(d)

LEMMA CallerLeavesLocal == ASSUME Caller PROVE UNCHANGED databases
BY DEF Caller, Controller, RequestCancel, Restart, BeginOp, WorkdirFails, Spawn, SpawnFails,
       EndOp, WriteCancelFile, GraceExpires, Stalls, Terminate, WorkerEnded, Reap, databases

LEMMA NextSplits == Next <=> Writer \/ Caller \/ Worker
BY DEF Next, Writer, Caller

LEMMA ControllerType ==
    ASSUME TypeOK, Caller
    PROVE  TypeOK'
<1>. USE EmptyDbType
     DEF TypeOK, Direction, WorkerPC, databases, controller, process, history
<1>0. ASSUME EndOp  PROVE TypeOK'  BY <1>0 DEF EndOp
<1>1. ASSUME NEW late \in BOOLEAN, Terminate(late)  PROVE TypeOK'
  BY <1>1 DEF Terminate, WorkerGone
<1>2. CASE RequestCancel  BY <1>2 DEF RequestCancel
<1>3. CASE \E d \in Direction : BeginOp(d)  BY <1>3 DEF BeginOp
<1>4. CASE Spawn  BY <1>4 DEF Spawn
<1>5. CASE SpawnFails  BY <1>5, <1>0 DEF SpawnFails
<1>6. CASE WriteCancelFile  BY <1>6 DEF WriteCancelFile
<1>7. CASE GraceExpires  BY <1>7, <1>1 DEF GraceExpires
<1>8. CASE Stalls  BY <1>8, <1>1 DEF Stalls
<1>9. CASE WorkerEnded  BY <1>9 DEF WorkerEnded
<1>10. CASE Reap  BY <1>10, <1>0 DEF Reap
<1>11. CASE WorkdirFails  BY <1>11 DEF WorkdirFails
<1>12. CASE Restart  BY <1>12 DEF Restart
<1>. QED  BY <1>2, <1>3, <1>4, <1>5, <1>6, <1>7, <1>8, <1>9, <1>10, <1>11, <1>12
       DEF Caller, Controller

LEMMA WorkerType == ASSUME TypeOK, Copied, Worker PROVE TypeOK'
<1>. USE EmptyDbType DEF TypeOK, WorkerOnly, controller, databases, Copies, Phase
<1>0. Source \in Db /\ Target \in Db  BY SeenType DEF Source, Target
<1>a. ASSUME NEW db \in Db, Write(db)  PROVE remote' \in Db /\ tmp' \in Db
  BY <1>a DEF Write
<1>b. ASSUME NEW s \in Result, Exits(s), UNCHANGED <<databases, snap>>, tmp' \in Db
      PROVE  TypeOK'
  BY <1>b DEF Exits, WorkerGone, WorkerPC
<1>c. ASSUME Discard  PROVE tmp' \in Db  BY <1>c DEF Discard
<1>1. CASE Connect
  <2>1. DOMAIN remote \subseteq Table  BY DbElim
  <2>. QED  BY <1>1, <1>0, <1>c, <2>1 DEF Connect, WorkerPC
<1>2. CASE DropTable
  <2>1. PICK t \in todo : Write(Without(Target, t)) /\ Phase("drop", todo \ {t})
    BY <1>2 DEF DropTable
  <2>2. remote' \in Db /\ tmp' \in Db  BY <2>1, <1>0, <1>a, WithoutType
  <2>. QED  BY <1>2, <2>1, <2>2 DEF DropTable, WorkerPC
<1>3. CASE DropsDone
  <2>1. DOMAIN src \subseteq Table  BY DbElim
  <2>. QED  BY <1>3, <2>1 DEF DropsDone, WorkerPC
<1>4. CASE CreateTable
  <2>1. PICK t \in todo : Write(WithTable(Target, t)) /\ Phase("create", todo \ {t})
    BY <1>4 DEF CreateTable
  <2>2. remote' \in Db /\ tmp' \in Db  BY <2>1, <1>0, <1>a, WithTableType
  <2>. QED  BY <1>4, <2>1, <2>2 DEF CreateTable, WorkerPC
<1>5. CASE CreateFails  BY <1>5, <1>b, <1>c DEF CreateFails, Result
<1>6. CASE CreatesDone
  <2>1. DOMAIN src \subseteq Table  BY DbElim
  <2>. QED  BY <1>6, <2>1 DEF CreatesDone, WorkerPC
<1>7. CASE InsertBatch
  <2>1. PICK t \in todo : \E batch \in SUBSET src[t] :
           /\ Write([Target EXCEPT ![t] = @ \cup batch])
           /\ src' = [src EXCEPT ![t] = @ \ batch]
    BY <1>7 DEF InsertBatch
  <2>2. PICK batch \in SUBSET src[t] :
           /\ Write([Target EXCEPT ![t] = @ \cup batch])
           /\ src' = [src EXCEPT ![t] = @ \ batch]
    BY <2>1
  <2>3. t \in DOMAIN src /\ t \in DOMAIN Target
    BY <1>7 DEF InsertBatch, Copied
  <2>4. src[t] \subseteq Row /\ Target[t] \subseteq Row  BY <1>0, <2>3, DbElim
  <2>5. /\ [Target EXCEPT ![t] = @ \cup batch] \in Db
        /\ [src EXCEPT ![t] = @ \ batch] \in Db
    BY <1>0, <2>4, UpdateType
  <2>6. remote' \in Db /\ tmp' \in Db /\ src' \in Db  BY <2>2, <2>5, <1>a
  <2>. QED  BY <1>7, <2>6 DEF InsertBatch
<1>8. CASE TableDone  BY <1>8 DEF TableDone, WorkerPC
<1>9. CASE CopyDone  BY <1>9 DEF CopyDone, WorkerPC
<1>10. CASE Refuse  BY <1>10, <1>b DEF Refuse, Result
<1>11. CASE Accept  BY <1>11 DEF Accept, WorkerPC
<1>13. CASE Replace  BY <1>13 DEF Replace, WorkerPC
<1>14. CASE Report  BY <1>14, <1>b DEF Report, Result
<1>15. CASE Cancelled  BY <1>15, <1>b, <1>c DEF Cancelled, Result
<1>16. CASE Fails  BY <1>16, <1>b, <1>c DEF Fails, Result
<1>. QED  BY <1>1, <1>2, <1>3, <1>4, <1>5, <1>6, <1>7, <1>8, <1>9, <1>10, <1>11,
            <1>13, <1>14, <1>15, <1>16 DEF Worker

-----------------------------------------------------------------------------
(* The controller owns the worker *)

LEMMA OwnedStep == ASSUME TypeOK, WorkerOwned, [Next]_vars PROVE WorkerOwned'
<1>. USE CloudAssumption
     DEF WorkerOwned, WorkerOnly, controller, process, databases, history, Copies, Phase,
         WorkerGone
<1>0. ASSUME EndOp, thread # "poll"  PROVE WorkerOwned'  BY <1>0 DEF EndOp
<1>1. ASSUME NEW late, Terminate(late), thread = "poll"  PROVE WorkerOwned'
  BY <1>1 DEF Terminate
<1>2. ASSUME NEW s, Exits(s), worker # "none"  PROVE WorkerOwned'  BY <1>2 DEF Exits
<1>3. CASE UNCHANGED vars  BY <1>3 DEF vars
<1>4. CASE Writer
  BY <1>4, WriterType
<1>5. CASE \E d \in Direction : BeginOp(d)  BY <1>5 DEF BeginOp, Direction
<1>6. CASE RequestCancel \/ Restart  BY <1>6 DEF RequestCancel, Restart, Lost
<1>7. CASE Controller
  <2>1. CASE Spawn  BY <2>1 DEF Spawn
  <2>2. CASE SpawnFails  BY <2>2, <1>0 DEF SpawnFails
  <2>3. CASE WriteCancelFile  BY <2>3 DEF WriteCancelFile
  <2>4. CASE GraceExpires  BY <2>4, <1>1 DEF GraceExpires
  <2>5. CASE Stalls  BY <2>5, <1>1 DEF Stalls
  <2>6. CASE WorkerEnded  BY <2>6 DEF WorkerEnded
  <2>7. CASE Reap  BY <2>7, <1>0 DEF Reap
  <2>8. CASE WorkdirFails  BY <2>8 DEF WorkdirFails
  <2>. QED  BY <1>7, <2>1, <2>2, <2>3, <2>4, <2>5, <2>6, <2>7, <2>8 DEF Controller
<1>8. CASE Worker
  <2>1. CASE Connect  BY <2>1 DEF Connect
  <2>2. CASE DropTable  BY <2>2 DEF DropTable
  <2>3. CASE DropsDone  BY <2>3 DEF DropsDone
  <2>4. CASE CreateTable  BY <2>4 DEF CreateTable
  <2>5. CASE CreateFails  BY <2>5, <1>2 DEF CreateFails
  <2>6. CASE CreatesDone  BY <2>6 DEF CreatesDone
  <2>7. CASE InsertBatch  BY <2>7 DEF InsertBatch
  <2>8. CASE TableDone  BY <2>8 DEF TableDone
  <2>9. CASE CopyDone
    <3>1. direction \in Direction  BY <2>9 DEF CopyDone, TypeOK
    <3>. QED  BY <2>9, <3>1 DEF CopyDone, Direction
  <2>10. CASE Refuse  BY <2>10, <1>2 DEF Refuse
  <2>11. CASE Accept  BY <2>11 DEF Accept
  <2>13. CASE Replace  BY <2>13 DEF Replace
  <2>14. CASE Report  BY <2>14, <1>2 DEF Report
  <2>15. CASE Cancelled  BY <2>15, <1>2 DEF Cancelled, Copying
  <2>16. CASE Fails  BY <2>16, <1>2 DEF Fails
  <2>. QED  BY <1>8, <2>1, <2>2, <2>3, <2>4, <2>5, <2>6, <2>7, <2>8, <2>9, <2>10,
              <2>11, <2>13, <2>14, <2>15, <2>16 DEF Worker
<1>. QED  BY <1>3, <1>4, <1>5, <1>6, <1>7, <1>8, NextSplits DEF Caller

-----------------------------------------------------------------------------
(* The copy *)

\* Copied and SourceStable are not touched by a step that leaves the worker, the
\* databases and their histories alone, or that ends the worker.
LEMMA IdleStep ==
    ASSUME Copied, SourceStable, UNCHANGED databases,
           \/ UNCHANGED <<direction, result, worker, todo, src, tmp, snap>>
           \/ /\ worker' = "none" /\ UNCHANGED <<direction, result, snap>>
           \/ worker' \in {"none", "start"} /\ result' # "success"
    PROVE  Copied' /\ SourceStable'
<1>1. Seen' = Seen  BY DEF databases, Seen, Overlay
<1>. QED  BY <1>1 DEF Copied, SourceStable, databases, Target

LEMMA ControllerStep ==
    ASSUME MirrorInv, Caller
    PROVE  Copied' /\ SourceStable'
<1>. USE CloudAssumption
     DEF MirrorInv, WorkerOwned, databases, controller, process, history, WorkerGone
<1>0. ASSUME EndOp, thread # "poll"  PROVE Copied' /\ SourceStable'
  BY <1>0, IdleStep DEF EndOp
<1>1. ASSUME NEW late, Terminate(late)  PROVE Copied' /\ SourceStable'
  BY <1>1, IdleStep DEF Terminate
<1>2. CASE RequestCancel  BY <1>2, IdleStep DEF RequestCancel
<1>3. CASE \E d \in Direction : BeginOp(d)  BY <1>3, IdleStep DEF BeginOp
<1>4. CASE Spawn  BY <1>4, IdleStep DEF Spawn
<1>5. CASE SpawnFails  BY <1>5, <1>0 DEF SpawnFails
<1>6. CASE WriteCancelFile  BY <1>6, IdleStep DEF WriteCancelFile
<1>7. CASE GraceExpires  BY <1>7, <1>1 DEF GraceExpires
<1>8. CASE Stalls  BY <1>8, <1>1 DEF Stalls
<1>9. CASE WorkerEnded  BY <1>9, IdleStep DEF WorkerEnded
<1>10. CASE Reap  BY <1>10, <1>0 DEF Reap
<1>11. CASE WorkdirFails  BY <1>11, IdleStep DEF WorkdirFails
<1>12. CASE Restart  BY <1>12, IdleStep DEF Restart, Lost
<1>. QED  BY <1>2, <1>3, <1>4, <1>5, <1>6, <1>7, <1>8, <1>9, <1>10, <1>11, <1>12
       DEF Caller, Controller

LEMMA WriterStep == ASSUME MirrorInv, Writer PROVE Copied' /\ SourceStable'
<1>1. /\ DOMAIN Seen \subseteq DOMAIN Seen'
      /\ UNCHANGED <<remote, controller, process, history>>
  BY WriterType DEF MirrorInv
<1>. QED  BY <1>1 DEF MirrorInv, Copied, SourceStable, Target, controller, process,
                       history

\* A statement of the worker on its target: what is left to show is what the
\* target then holds.
LEMMA WriteStep ==
    ASSUME MirrorInv, worker \in {"drop", "create", "copy"}, NEW db, Write(db), Copies,
           UNCHANGED snap
    PROVE  /\ Target' = db
           /\ direction \in Direction
           /\ result' = None
           /\ direction = "push" => remote' = db /\ DOMAIN snap \subseteq DOMAIN Seen
           /\ direction = "pull" => UNCHANGED remote /\ snap = remote
           /\ UNCHANGED <<local, direction>> /\ Seen' = Seen
BY CloudAssumption DEF MirrorInv, WorkerOwned, SourceStable, TypeOK, Direction, Write,
                       Target, Copies, WorkerOnly, controller, Seen, Overlay

LEMMA DropStep == ASSUME MirrorInv, DropTable PROVE Copied' /\ SourceStable'
<1>1. PICK t \in todo : Write(Without(Target, t)) /\ Phase("drop", todo \ {t})
  BY DEF DropTable
<1>2. Target \in Db  BY DEF MirrorInv, TypeOK, Target
<1>3. DOMAIN Without(Target, t) \subseteq DOMAIN Target  BY <1>2, WithoutType
<1>4. worker = "drop" /\ Copies /\ UNCHANGED <<src, snap>>  BY DEF DropTable
<1>5. /\ Target' = Without(Target, t) /\ result' = None
      /\ direction = "push" => remote' = Without(Target, t) /\ DOMAIN snap \subseteq DOMAIN Seen
      /\ direction = "pull" => UNCHANGED remote /\ snap = remote
      /\ UNCHANGED <<local, direction>> /\ direction \in Direction /\ Seen' = Seen
  BY <1>1, <1>4, WriteStep
<1>6. DOMAIN Target \subseteq DOMAIN snap /\ src = snap
  BY <1>4 DEF MirrorInv, Copied
<1>7. Copied'  BY CloudAssumption, <1>1, <1>3, <1>4, <1>5, <1>6 DEF Phase, Copied
<1>8. SourceStable'
  BY <1>1, <1>3, <1>4, <1>5, <1>6 DEF Phase, MirrorInv, SourceStable, Direction
<1>. QED  BY <1>7, <1>8

LEMMA CreateStep == ASSUME MirrorInv, CreateTable PROVE Copied' /\ SourceStable'
<1>1. PICK t \in todo : Write(WithTable(Target, t)) /\ Phase("create", todo \ {t})
  BY DEF CreateTable
<1>2. Target \in Db /\ t \in Table  BY DEF MirrorInv, TypeOK, Target
<1>3. worker = "create" /\ Copies /\ UNCHANGED <<src, snap>>  BY DEF CreateTable
<1>4. /\ Target' = WithTable(Target, t) /\ result' = None
      /\ direction = "push" => remote' = WithTable(Target, t) /\ DOMAIN snap \subseteq DOMAIN Seen
      /\ direction = "pull" => UNCHANGED remote /\ snap = remote
      /\ UNCHANGED <<local, direction>> /\ direction \in Direction /\ Seen' = Seen
  BY <1>1, <1>3, WriteStep
<1>5. /\ DOMAIN Target \subseteq DOMAIN snap /\ src = snap /\ todo \subseteq DOMAIN snap
      /\ \A u \in DOMAIN snap \ todo : u \in DOMAIN Target /\ Target[u] = {}
  BY <1>3 DEF MirrorInv, Copied
<1>6. /\ DOMAIN WithTable(Target, t) = DOMAIN Target \cup {t}
      /\ WithTable(Target, t)[t] = {}
      /\ \A u \in DOMAIN Target \ {t} : WithTable(Target, t)[u] = Target[u]
  BY <1>2, WithTableType
<1>7. \A u \in DOMAIN snap \ (todo \ {t}) : u \in DOMAIN Target' /\ Target'[u] = {}
  BY <1>4, <1>5, <1>6
<1>8. DOMAIN Target' \subseteq DOMAIN snap  BY <1>4, <1>5, <1>6
<1>9. Copied'  BY CloudAssumption, <1>1, <1>3, <1>4, <1>5, <1>7, <1>8 DEF Phase, Copied
<1>10. SourceStable'
  BY <1>1, <1>3, <1>4, <1>8 DEF Phase, MirrorInv, SourceStable, Direction
<1>. QED  BY <1>9, <1>10

LEMMA InsertStep == ASSUME MirrorInv, InsertBatch PROVE Copied' /\ SourceStable'
<1>1. PICK t \in todo : \E batch \in SUBSET src[t] :
           /\ Write([Target EXCEPT ![t] = @ \cup batch])
           /\ src' = [src EXCEPT ![t] = @ \ batch]
  BY DEF InsertBatch
<1>2. PICK batch \in SUBSET src[t] :
           /\ Write([Target EXCEPT ![t] = @ \cup batch])
           /\ src' = [src EXCEPT ![t] = @ \ batch]
  BY <1>1
<1>. DEFINE new == [Target EXCEPT ![t] = @ \cup batch]
<1>. HIDE DEF new
<1>3. worker = "copy" /\ UNCHANGED <<worker, todo, snap>> /\ Copies  BY DEF InsertBatch
<1>4. /\ Target' = new /\ result' = None
      /\ direction = "push" => remote' = new /\ DOMAIN snap \subseteq DOMAIN Seen
      /\ direction = "pull" => UNCHANGED remote /\ snap = remote
      /\ UNCHANGED <<local, direction>> /\ direction \in Direction /\ Seen' = Seen
  BY <1>2, <1>3, WriteStep DEF new
<1>5. /\ DOMAIN Target \subseteq DOMAIN snap /\ DOMAIN src = DOMAIN snap
      /\ todo \subseteq DOMAIN snap
      /\ \A u \in DOMAIN snap : /\ u \in DOMAIN Target /\ Target[u] \cup src[u] = snap[u]
                                /\ u \notin todo => src[u] = {}
  BY <1>3 DEF MirrorInv, Copied
<1>6. /\ DOMAIN new = DOMAIN Target /\ DOMAIN src' = DOMAIN src
      /\ new[t] = Target[t] \cup batch /\ src'[t] = src[t] \ batch
      /\ \A u \in DOMAIN snap \ {t} : new[u] = Target[u] /\ src'[u] = src[u]
  <2>1. Target \in Db /\ src \in Db  BY DEF MirrorInv, TypeOK, Target
  <2>2. Target \in [DOMAIN Target -> SUBSET Row] /\ src \in [DOMAIN src -> SUBSET Row]
    BY <2>1, DbElim
  <2>3. DOMAIN new = DOMAIN Target /\ \A u \in DOMAIN Target :
          new[u] = IF u = t THEN Target[t] \cup batch ELSE Target[u]
    BY <2>2 DEF new
  <2>4. DOMAIN src' = DOMAIN src /\ \A u \in DOMAIN src :
          src'[u] = IF u = t THEN src[t] \ batch ELSE src[u]
    BY <1>2, <2>2
  <2>. QED  BY <1>1, <1>5, <2>3, <2>4
<1>7. \A u \in DOMAIN snap : /\ u \in DOMAIN new /\ new[u] \cup src'[u] = snap[u]
                             /\ u \notin todo => src'[u] = {}
  <2>1. new[t] \cup src'[t] = snap[t]  BY <1>1, <1>2, <1>5, <1>6
  <2>. QED  BY <1>5, <1>6, <2>1
<1>8. Copied'
  <2>1. /\ worker' = "copy" /\ todo' = todo /\ snap' = snap
        /\ DOMAIN Target' \subseteq DOMAIN snap' /\ DOMAIN src' = DOMAIN snap'
        /\ result' # "success"
    BY CloudAssumption, <1>3, <1>4, <1>5, <1>6
  <2>2. \A u \in DOMAIN snap' : /\ u \in DOMAIN Target' /\ Target'[u] \cup src'[u] = snap'[u]
                                /\ u \notin todo' => src'[u] = {}
    BY <1>4, <1>7, <2>1
  <2>. QED  BY <1>5, <2>1, <2>2 DEF Copied
<1>9. SourceStable'
  BY <1>3, <1>4, <1>5, <1>6 DEF MirrorInv, SourceStable, Direction
<1>. QED  BY <1>8, <1>9

LEMMA WorkerStep == ASSUME MirrorInv, Worker PROVE Copied' /\ SourceStable'
<1>. USE CloudAssumption
     DEF WorkerOnly, controller, databases, Copies, Phase, WorkerGone
<1>s. ASSUME UNCHANGED <<local, wal>> PROVE Seen' = Seen  BY <1>s DEF Seen, Overlay
<1>0. ASSUME NEW s, Exits(s), s # "success", UNCHANGED <<databases, snap>>
      PROVE  Copied' /\ SourceStable'
  BY <1>0, IdleStep DEF Exits, MirrorInv
<1>1. CASE Connect
  <2>1. /\ worker' = "drop" /\ src' = Source /\ snap' = Source /\ result' = None
        /\ UNCHANGED <<local, remote, direction>> /\ direction \in Direction
    BY <1>1 DEF Connect, MirrorInv, WorkerOwned, TypeOK
  <2>2. DOMAIN Target' \subseteq DOMAIN Source
    <3>1. CASE direction = "push"
      BY <2>1, <3>1 DEF Target, Source, MirrorInv, SourceStable
    <3>2. CASE direction = "pull"
      BY <1>1, <2>1, <3>2, EmptyDbType DEF Connect, Discard, Target
    <3>. QED  BY <2>1, <3>1, <3>2 DEF Direction
  <2>3. Copied'  BY <2>1, <2>2 DEF Copied
  <2>4. SourceStable'  BY <1>1, <1>s, <2>1 DEF Connect, MirrorInv, SourceStable, Source, Direction
  <2>. QED  BY <2>3, <2>4
<1>2. CASE DropTable  BY <1>2, DropStep
<1>3. CASE DropsDone
  <2>1. /\ worker = "drop" /\ worker' = "create" /\ todo' = DOMAIN src /\ result' = None
        /\ UNCHANGED <<local, remote, tmp, direction, src, snap>>
    BY <1>3 DEF DropsDone, MirrorInv, WorkerOwned
  <2>2. Target' = Target  BY <2>1 DEF Target
  <2>3. Seen' = Seen  BY <1>3, <1>s DEF DropsDone
  <2>. QED  BY <2>1, <2>2, <2>3 DEF MirrorInv, Copied, SourceStable
<1>4. CASE CreateTable  BY <1>4, CreateStep
<1>5. CASE CreateFails  BY <1>5, <1>0 DEF CreateFails
<1>6. CASE CreatesDone
  <2>1. /\ worker = "create" /\ worker' = "copy" /\ todo = {} /\ todo' = DOMAIN src
        /\ result' = None /\ UNCHANGED <<local, remote, tmp, direction, src, snap>>
    BY <1>6 DEF CreatesDone, MirrorInv, WorkerOwned
  <2>2. Target' = Target  BY <2>1 DEF Target
  <2>3. Seen' = Seen  BY <1>6, <1>s DEF CreatesDone
  <2>. QED  BY <2>1, <2>2, <2>3 DEF MirrorInv, Copied, SourceStable
<1>7. CASE InsertBatch  BY <1>7, InsertStep
<1>8. CASE TableDone
  <2>1. PICK t \in todo : src[t] = {} /\ todo' = todo \ {t}  BY <1>8 DEF TableDone
  <2>2. /\ worker = "copy" /\ worker' = "copy" /\ result' = None
        /\ UNCHANGED <<local, remote, tmp, direction, src, snap>>
    BY <1>8 DEF TableDone, MirrorInv, WorkerOwned
  <2>3. Target' = Target  BY <2>2 DEF Target
  <2>4. Seen' = Seen  BY <1>8, <1>s DEF TableDone
  <2>. QED  BY <2>1, <2>2, <2>3, <2>4 DEF MirrorInv, Copied, SourceStable
<1>9. CASE CopyDone
  <2>1. /\ worker = "copy" /\ todo = {} /\ result' = None /\ direction \in Direction
        /\ worker' = IF direction = "push" THEN "report" ELSE "guard"
        /\ UNCHANGED <<local, remote, tmp, direction, src, snap>>
    BY <1>9 DEF CopyDone, MirrorInv, WorkerOwned, TypeOK
  <2>2. Target = snap
    <3>1. /\ Target \in Db /\ snap \in Db /\ DOMAIN Target = DOMAIN snap
          /\ \A t \in DOMAIN snap : Target[t] = snap[t]
      BY <2>1 DEF MirrorInv, TypeOK, Copied, Target
    <3>2. Target \in [DOMAIN snap -> SUBSET Row] /\ snap \in [DOMAIN snap -> SUBSET Row]
      BY <3>1, DbElim
    <3>. QED  BY <3>1, <3>2
  <2>3. Seen' = Seen  BY <1>9, <1>s DEF CopyDone
  <2>. QED  BY <2>1, <2>2, <2>3 DEF MirrorInv, Copied, SourceStable, Target, Direction
<1>10. CASE Refuse  BY <1>10, <1>0 DEF Refuse
<1>11. CASE Accept
  BY <1>11, <1>s DEF Accept, MirrorInv, WorkerOwned, Copied, SourceStable
<1>13. CASE Replace
  <2>1. /\ direction = "pull" /\ result' = None /\ worker' = "report" /\ local' = remote
        /\ UNCHANGED <<remote, direction, snap>>
    BY <1>13 DEF Replace, MirrorInv, WorkerOwned, Copied, SourceStable
  <2>2. DOMAIN remote \subseteq DOMAIN Seen'  BY <2>1 DEF Seen, Overlay
  <2>. QED  BY <2>1, <2>2 DEF Copied, SourceStable
<1>14. CASE Report
  BY <1>14, <1>s DEF Report, Exits, MirrorInv, Copied, SourceStable
<1>15. CASE Cancelled  BY <1>15, <1>0 DEF Cancelled
<1>16. CASE Fails  BY <1>16, <1>0 DEF Fails
<1>. QED  BY <1>1, <1>2, <1>3, <1>4, <1>5, <1>6, <1>7, <1>8, <1>9, <1>10, <1>11,
            <1>13, <1>14, <1>15, <1>16 DEF Worker

-----------------------------------------------------------------------------
(* Theorems *)

LEMMA MirrorInvHolds == Spec => []MirrorInv
<1>1. Init => MirrorInv
  <2>1. Init => TypeOK  BY InitType
  <2>2. ASSUME Init PROVE WorkerOwned /\ Copied /\ SourceStable
    <3>1. DOMAIN Seen = DOMAIN local  BY <2>2, EmptyDbType DEF Init, Seen, Overlay
    <3>. QED  BY <2>2, <3>1, CloudAssumption, EmptyDbType
         DEF Init, WorkerOwned, Copied, SourceStable
  <2>. QED  BY <2>1, <2>2 DEF MirrorInv
<1>2. MirrorInv /\ [Next]_vars => MirrorInv'
  <2>. SUFFICES ASSUME MirrorInv, [Next]_vars PROVE MirrorInv'  OBVIOUS
  <2>1. WorkerOwned'  BY OwnedStep DEF MirrorInv
  <2>2. CASE UNCHANGED vars
    BY <2>2 DEF vars, databases, controller, process, history, MirrorInv, TypeOK,
                WorkerOwned, Copied, SourceStable, Target, Seen, Overlay
  <2>3. CASE Writer  BY <2>1, <2>3, WriterType, WriterStep DEF MirrorInv
  <2>4. CASE Caller  BY <2>1, <2>4, ControllerType, ControllerStep DEF MirrorInv
  <2>5. CASE Worker  BY <2>1, <2>5, WorkerType, WorkerStep DEF MirrorInv
  <2>. QED  BY <2>2, <2>3, <2>4, <2>5, NextSplits
<1>. QED  BY <1>1, <1>2, PTL DEF Spec

\* The variables of cloud_sync.py keep their types.
THEOREM CloudTypeCorrect == Spec => []TypeOK
<1>1. MirrorInv => TypeOK  BY DEF MirrorInv
<1>. QED  BY <1>1, MirrorInvHolds, PTL

\* No worker process outlives the sync that started it, whatever the cancels and
\* the timeouts: _run_in_subprocess reports only after it has seen the worker end
\* or has ended it.
THEOREM WorkerDoesNotOutlive == Spec => []NoOrphanWorker
<1>1. MirrorInv => NoOrphanWorker
  BY CloudAssumption DEF MirrorInv, WorkerOwned, NoOrphanWorker
<1>. QED  BY <1>1, MirrorInvHolds, PTL

\* A push that reports success is an exact copy of the snapshot it pinned, for any
\* batch size, with local writes in between and over any remains on the remote.
THEOREM PushMirrors == Spec => []PushIsMirror
<1>1. MirrorInv => PushIsMirror  BY DEF MirrorInv, Copied, PushIsMirror
<1>. QED  BY <1>1, MirrorInvHolds, PTL

\* A pull changes what is read of the local database in one step, into all of the
\* remote but for what the log still held, for any tables, rows and batches, with
\* checkpoints, commits through either file and every fault: os.replace.
THEOREM PullReplacesWhole == Spec => PullIsWhole
<1>1. ASSUME MirrorInv, [Next]_vars, Seen' # Seen
      PROVE  \/ \E t \in Table, r \in Row : Save(t, r) \/ Delete(t, r)
             \/ \E t \in Table, rows \in SUBSET Row : SaveThroughOld(t, rows)
             \/ direction = "pull" /\ Seen' = Overlay(remote, wal)
  <2>0. ~UNCHANGED <<local, wal>>  BY <1>1 DEF Seen, Overlay
  <2>1. Next  BY <1>1, <2>0 DEF vars, databases
  <2>2. CASE Caller  BY <2>0, <2>2, CallerLeavesLocal DEF databases
  <2>3. CASE Worker
    <3>1. Replace
      BY <2>0, <2>3
      DEF Worker, Connect, DropTable, DropsDone, CreateTable, CreateFails, CreatesDone,
          InsertBatch, TableDone, CopyDone, Refuse, Accept, Report, Cancelled, Fails,
          Copies, databases
    <3>2. direction = "pull" /\ local' = remote /\ wal' = wal
      BY <1>1, <3>1 DEF Replace, MirrorInv, WorkerOwned, Copied, SourceStable
    <3>. QED  BY <3>2 DEF Seen, Overlay
  <2>4. CASE Writer
    <3>1. ~CloseOld  BY <2>0 DEF CloseOld
    <3>2. ~Checkpoint
      <4>1. Seen \in Db  BY <1>1, SeenType DEF MirrorInv
      <4>. QED  BY <1>1, <4>1, OverlayEmpty DEF Checkpoint, Seen
    <3>. QED  BY <2>4, <3>1, <3>2 DEF Writer
  <2>. QED  BY <2>1, <2>2, <2>3, <2>4, NextSplits
<1>2. MirrorInv /\ [Next]_vars
        => [Seen' # Seen =>
              \/ \E t \in Table, r \in Row : Save(t, r) \/ Delete(t, r)
              \/ \E t \in Table, rows \in SUBSET Row : SaveThroughOld(t, rows)
              \/ direction = "pull" /\ Seen' = Overlay(remote, wal)]_vars
  BY <1>1
<1>. QED  BY <1>2, MirrorInvHolds, PTL DEF Spec, PullIsWhole

LEMMA GuardedStep ==
    ASSUME ~WritesInSync, MirrorInv, Guarded, [Next]_vars
    PROVE  Guarded'
<1>. USE DEF Guarded, WorkerOnly, WorkerGone, Copies, Phase, databases, controller,
             process, history
<1>s. ASSUME UNCHANGED <<local, wal>>  PROVE Seen' = Seen  BY <1>s DEF Seen, Overlay
<1>1. CASE UNCHANGED vars  BY <1>1, <1>s DEF vars, HasData, RowsOf
<1>2. CASE Writer
  <2>1. CASE CloseOld  BY <2>1, <1>s DEF CloseOld, HasData, RowsOf
  <2>2. CASE Checkpoint
    <3>1. Seen \in Db  BY SeenType DEF MirrorInv
    <3>2. Seen' = Seen  BY <2>2, <3>1, OverlayEmpty DEF Checkpoint, Seen
    <3>. QED  BY <2>2, <3>2 DEF Checkpoint, HasData, RowsOf
  <2>3. CASE ~CloseOld /\ ~Checkpoint
    <3>1. thread = "off"  BY <1>2, <2>3 DEF Writer, Save, Delete, SaveThroughOld, WriterMayRun
    <3>2. worker = "none"  BY <3>1 DEF MirrorInv, WorkerOwned
    <3>3. worker' = worker  BY <1>2, WriterType DEF MirrorInv
    <3>. QED  BY <3>2, <3>3
  <2>. QED  BY <2>1, <2>2, <2>3
<1>3. CASE Caller
  <2>1. \/ UNCHANGED <<local, wal, tmp, worker, blind>>
        \/ worker' \in {"none", "start"}
        \/ worker = "none" /\ worker' = worker
    BY <1>3
    DEF Caller, Controller, RequestCancel, Restart, BeginOp, WorkdirFails, Spawn,
        SpawnFails, EndOp, WriteCancelFile, GraceExpires, Stalls, Terminate, WorkerEnded,
        Reap, MirrorInv, WorkerOwned
  <2>. QED  BY <2>1, <1>s DEF HasData, RowsOf
<1>4. CASE Worker
  <2>1. CASE Accept
    <3>1. /\ UNCHANGED <<local, wal, tmp>>
          /\ RowsOf(tmp) # {} \/ ~HasData(Seen) \/ blind'
      BY <2>1 DEF Accept
    <3>. QED  BY <3>1, <1>s DEF HasData, RowsOf
  <2>2. CASE ~Accept
    <3>1. worker' # "replace"
      BY <1>4, <2>2
      DEF Worker, Connect, DropTable, DropsDone, CreateTable, CreateFails, CreatesDone,
          InsertBatch, TableDone, CopyDone, Refuse, Replace, Report, Cancelled, Fails,
          Exits
    <3>. QED  BY <3>1
  <2>. QED  BY <2>1, <2>2
<1>. QED  BY <1>1, <1>2, <1>3, <1>4, NextSplits

\* _local_has_data: with no local writer during a sync, a blank remote replaces a
\* database with items only when the look at that database raised, whatever else
\* fails.  With a writer, TLC finds that it can.
THEOREM BlankRemoteRefused == ~WritesInSync => (Spec => BlankNeverReplaces)
<1>. SUFFICES ASSUME ~WritesInSync PROVE Spec => BlankNeverReplaces  OBVIOUS
<1>1. Init => Guarded  BY DEF Init, Guarded
<1>2. MirrorInv /\ Guarded /\ [Next]_vars => Guarded'  BY GuardedStep
<1>3. Guarded
        => [worker = "replace" /\ worker' = "report" /\ RowsOf(tmp) = {}
              => ~HasData(Seen) \/ blind]_vars
  BY DEF Guarded
<1>. QED  BY <1>1, <1>2, <1>3, MirrorInvHolds, PTL DEF Spec, BlankNeverReplaces

=============================================================================
