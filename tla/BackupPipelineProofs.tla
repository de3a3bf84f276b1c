------------------------ MODULE BackupPipelineProofs ------------------------
(***************************************************************************)
(* Proofs about BackupPipeline for any number of processes, download       *)
(* requests and rows.                                                      *)
(*                                                                         *)
(* With every fault enabled: the inductive invariant IInv adds to the      *)
(* checked invariants what each step of a request knows about its own      *)
(* record (TaskShape, DlShape).  Where processes do not end in the middle, *)
(* the maintenance mode is that of a restore (RestoreShape), and where     *)
(* contexts do not end either, active rows have a request (AllLive).       *)
(***************************************************************************)
EXTENDS BackupPipeline, FiniteSetTheorems, TLAPS

BackupSteps == {"create", "start", "dump", "encrypt", "attach", "finish"}
DeleteSteps == {"busy", "find", "remove", "unlist"}
RestoreSteps == {"queue", "exec", "load", "open", "ready", "drop", "pgrestore",
                 "migrate", "exit", "unmaint", "cleanup", "record"}

\* Which request can be at a step, and the artifact and the file it has there.
ShapeOf(t) ==
  /\ t.pc \in BackupSteps => t.kind \in {"backup", "auto"}
  /\ t.pc = "write" => t.kind = "import"
  /\ t.pc = "artifact" => t.kind \in {"backup", "auto", "import"}
  /\ t.pc \in DeleteSteps => t.kind = "delete"
  /\ t.pc \in RestoreSteps => t.kind \in {"restore", "dryrun"}
  /\ t.kind \in {"delete", "restore", "dryrun"} => t.art \in ArtIds
  /\ t.pc \in {"encrypt", "remove", "open", "ready", "drop", "pgrestore"} => t.file \in Files

TaskShape == \A p \in Procs : ShapeOf(task[p])

\* A download in progress has an artifact.
DlShape == \A c \in Clients : dl[c].pc # "idle" => dl[c].art \in ArtIds

IInv == /\ TypeOK
        /\ TaskShape
        /\ DlShape
        /\ LockMatchesTask
        /\ DownloadsCounted
        /\ DeleteSparesDownloads

-----------------------------------------------------------------------------
(***************************************************************************)
(* The database keeps its shape under each of the service's statements.    *)
(***************************************************************************)
LEMMA SetStatusType ==
  ASSUME NEW I, NEW rows \in [I -> RowStatus], NEW i, NEW s \in RowStatus
  PROVE  SetStatus(rows, i, s) \in [I -> RowStatus]
BY DEF SetStatus

LEMMA ResetRowsType ==
  ASSUME NEW I, NEW rows \in [I -> RowStatus]
  PROVE  ResetRows(rows) \in [I -> RowStatus]
BY DEF ResetRows, RowStatus

LEMMA InsertArtifactType ==
  ASSUME NEW d \in Database, NEW f \in Files \cup {None}, d.aseq < MaxArts
  PROVE  InsertArtifact(d, f) \in Database
<1>1. /\ d.aseq \in 0 .. MaxArts
      /\ d.arts \in [ArtIds -> Files \cup {None}]
  BY DEF Database
<1>2. d.aseq + 1 \in 0 .. MaxArts
  BY <1>1, BoundsAssumption
<1>3. [d.arts EXCEPT ![d.aseq + 1] = f] \in [ArtIds -> Files \cup {None}]
  BY <1>1
<1> QED BY <1>2, <1>3 DEF InsertArtifact, Database

LEMMA EmptyDatabaseType == EmptyDatabase \in Database
BY BoundsAssumption DEF EmptyDatabase, Database, RowStatus, None

LEMMA AddRunType ==
  ASSUME NEW d \in Database, NEW n \in RunIds
  PROVE  [d EXCEPT !.rseq = n, !.runs[n] = "active"] \in Database
<1>1. n \in 0 .. MaxRuns
  BY BoundsAssumption DEF RunIds
<1>2. [d.runs EXCEPT ![n] = "active"] \in [RunIds -> RowStatus]
  BY DEF Database, RowStatus
<1> QED BY <1>1, <1>2 DEF Database

LEMMA AddRestType ==
  ASSUME NEW d \in Database, NEW n \in RestIds, NEW a \in ArtIds
  PROVE  [d EXCEPT !.sseq = n, !.rests[n] = "active", !.ref[n] = a] \in Database
<1>1. n \in 0 .. MaxRests
  BY BoundsAssumption DEF RestIds
<1>2. [d.rests EXCEPT ![n] = "active"] \in [RestIds -> RowStatus]
  BY DEF Database, RowStatus
<1>3. [d.ref EXCEPT ![n] = a] \in [RestIds -> ArtIds \cup {None}]
  BY DEF Database
<1> QED BY <1>1, <1>2, <1>3 DEF Database

LEMMA ForeignDumpType == ForeignDump \in Database
<1>1. 1 \in RunIds
  BY BoundsAssumption DEF RunIds
<1> QED BY <1>1, EmptyDatabaseType, AddRunType DEF ForeignDump

LEMMA RunStatusType ==
  ASSUME NEW d \in Database, NEW i, NEW s \in RowStatus
  PROVE  [d EXCEPT !.runs = SetStatus(@, i, s)] \in Database
<1>1. SetStatus(d.runs, i, s) \in [RunIds -> RowStatus]
  BY SetStatusType DEF Database
<1> QED BY <1>1 DEF Database

LEMMA RestStatusType ==
  ASSUME NEW d \in Database, NEW i, NEW s \in RowStatus
  PROVE  [d EXCEPT !.rests = SetStatus(@, i, s)] \in Database
<1>1. SetStatus(d.rests, i, s) \in [RestIds -> RowStatus]
  BY SetStatusType DEF Database
<1> QED BY <1>1 DEF Database

LEMMA MaintStatusType ==
  ASSUME NEW d \in Database, NEW i, NEW s \in RowStatus
  PROVE  [d EXCEPT !.maint = FALSE, !.rests = SetStatus(@, i, s)] \in Database
<1>1. SetStatus(d.rests, i, s) \in [RestIds -> RowStatus]
  BY SetStatusType DEF Database
<1> QED BY <1>1 DEF Database

LEMMA ResetType ==
  ASSUME NEW d \in Database
  PROVE  [d EXCEPT !.runs = ResetRows(@), !.rests = ResetRows(@)] \in Database
<1>1. /\ ResetRows(d.runs) \in [RunIds -> RowStatus]
      /\ ResetRows(d.rests) \in [RestIds -> RowStatus]
  BY ResetRowsType DEF Database
<1> QED BY <1>1 DEF Database

-----------------------------------------------------------------------------
(***************************************************************************)
(* Type correctness.                                                       *)
(***************************************************************************)
LEMMA IdleType == Idle \in Task
BY DEF Idle, Task, Steps, None

\* The updates of a request's record.
LEMMA TaskFields ==
  ASSUME NEW t \in Task, NEW pc \in Steps
  PROVE  /\ [t EXCEPT !.pc = pc] \in Task
         /\ [t EXCEPT !.live = FALSE] \in Task
         /\ [t EXCEPT !.chk = 3, !.pc = pc] \in Task
         /\ t.chk < 2 => [t EXCEPT !.chk = @ + 1] \in Task
         /\ \A n \in RunIds \cup RestIds : [t EXCEPT !.pc = pc, !.row = n] \in Task
         /\ \A i \in ArtIds : [t EXCEPT !.pc = pc, !.art = i] \in Task
         /\ \A f \in Files \cup {None} : [t EXCEPT !.pc = pc, !.file = f] \in Task
         /\ \A k \in Kinds, i \in ArtIds \cup {None} :
              [t EXCEPT !.kind = k, !.pc = pc, !.art = i] \in Task
<1>1. t.chk < 2 => t.chk + 1 \in 0 .. 3
  BY DEF Task
<1>2. t.chk < 2 => [t EXCEPT !.chk = @ + 1] \in Task
  BY <1>1 DEF Task
<1>3. [t EXCEPT !.pc = pc] \in Task
  BY DEF Task
<1>4. [t EXCEPT !.live = FALSE] \in Task
  BY DEF Task
<1>5. [t EXCEPT !.chk = 3, !.pc = pc] \in Task
  <2>1. 3 \in 0 .. 3
    OBVIOUS
  <2> QED BY <2>1 DEF Task
<1>6. \A n \in RunIds \cup RestIds : [t EXCEPT !.pc = pc, !.row = n] \in Task
  BY DEF Task
<1>7. \A i \in ArtIds : [t EXCEPT !.pc = pc, !.art = i] \in Task
  BY DEF Task
<1>8. \A f \in Files \cup {None} : [t EXCEPT !.pc = pc, !.file = f] \in Task
  BY DEF Task
<1>9. \A k \in Kinds, i \in ArtIds \cup {None} :
        [t EXCEPT !.kind = k, !.pc = pc, !.art = i] \in Task
  BY DEF Task
<1> QED BY <1>2, <1>3, <1>4, <1>5, <1>6, <1>7, <1>8, <1>9

LEMMA GotoType ==
  ASSUME TypeOK, NEW p \in Procs, NEW pc \in Steps, Goto(p, pc)
  PROVE  task' \in [Procs -> Task]
<1>1. task[p] \in Task
  BY DEF TypeOK
<1>2. [task[p] EXCEPT !.pc = pc] \in Task
  BY <1>1, TaskFields
<1> QED BY <1>2 DEF TypeOK, Goto

LEMMA AcquireType ==
  ASSUME TypeOK, NEW p \in Procs, slots[p] < MaxParallel, slots' = [slots EXCEPT ![p] = @ + 1]
  PROVE  slots' \in [Procs -> 0 .. MaxParallel]
<1>1. slots \in [Procs -> 0 .. MaxParallel]
  BY DEF TypeOK
<1>2. slots[p] + 1 \in 0 .. MaxParallel
  BY <1>1, LimitsAssumption
<1> QED BY <1>1, <1>2

LEMMA NewFileType ==
  ASSUME TypeOK, nfiles < MaxFiles
  PROVE  nfiles + 1 \in Files /\ nfiles + 1 \in 0 .. MaxFiles
<1>1. nfiles \in 0 .. MaxFiles
  BY DEF TypeOK
<1> QED BY <1>1, BoundsAssumption DEF Files

\* What a request that ends leaves behind: the lock and its token are given back.
LEMMA ReleaseType ==
  ASSUME TypeOK, LockMatchesTask, NEW p \in Procs, Release(p)
  PROVE  /\ op' \in [Procs -> {"", "backup", "delete", "restore"}]
         /\ slots' \in [Procs -> 0 .. MaxParallel]
         /\ task' \in [Procs -> Task]
<1>1. op' \in [Procs -> {"", "backup", "delete", "restore"}]
  BY DEF TypeOK, Release, EndOp
<1>2. slots \in [Procs -> 0 .. MaxParallel]
  BY DEF TypeOK
<1>3. slots' \in [Procs -> 0 .. MaxParallel]
  <2>1. CASE Holds(task[p])
    <3>1. slots[p] = 1
      BY <2>1 DEF LockMatchesTask
    <3>2. slots[p] - 1 \in 0 .. MaxParallel
      BY <3>1, LimitsAssumption
    <3> QED BY <1>2, <2>1, <3>2 DEF Release, EndSlot
  <2>2. CASE ~Holds(task[p])
    BY <1>2, <2>2 DEF Release, EndSlot
  <2> QED BY <2>1, <2>2
<1>4. task' \in [Procs -> Task]
  BY IdleType DEF TypeOK, Release
<1> QED BY <1>1, <1>3, <1>4

LEMMA RequestsType ==
  ASSUME TypeOK, LockMatchesTask, TaskShape, NEW p \in Procs,
         \/ \E kind \in Kinds, id \in ArtIds \cup {None} : Request(p, kind, id)
         \/ Check(p) \/ CheckRefuses(p) \/ Cancel(p)
  PROVE  TypeOK'
<1>1. ASSUME NEW kind \in Kinds, NEW id \in ArtIds \cup {None}, Request(p, kind, id)
      PROVE  TypeOK'
  <2>1. LockName(kind) \in {"", "backup", "delete", "restore"}
    BY DEF Kinds, LockName
  <2>2. op' \in [Procs -> {"", "backup", "delete", "restore"}]
    BY <1>1, <2>1 DEF TypeOK, Request, BeginPipeline
  <2>3. [Idle EXCEPT !.kind = kind, !.pc = "check", !.art = id] \in Task
    BY IdleType, TaskFields DEF Steps
  <2>4. task' \in [Procs -> Task]
    BY <1>1, <2>3 DEF TypeOK, Request
  <2> QED BY <1>1, <2>2, <2>4 DEF TypeOK, Request, dbVars, fileVars
<1>2. CASE Check(p)
  <2>1. /\ task[p] \in Task
        /\ FirstStep(task[p].kind) \in Steps
    <3>1. task[p] \in Task
      BY DEF TypeOK
    <3>2. task[p].kind \in Kinds
      BY <1>2, <3>1 DEF Check, LockMatchesTask, Task
    <3> QED BY <3>1, <3>2 DEF FirstStep, Kinds, Steps
  <2>2. task' \in [Procs -> Task]
    <3>1. CASE task[p].chk < 2
      <4>1. [task[p] EXCEPT !.chk = @ + 1] \in Task
        BY <2>1, <3>1, TaskFields
      <4> QED BY <1>2, <3>1, <4>1 DEF Check, TypeOK
    <3>2. CASE ~(task[p].chk < 2)
      <4>1. [task[p] EXCEPT !.chk = 3, !.pc = FirstStep(task[p].kind)] \in Task
        BY <2>1, TaskFields
      <4> QED BY <1>2, <3>2, <4>1 DEF Check, TypeOK
    <3> QED BY <3>1, <3>2
  <2> QED BY <1>2, <2>2 DEF TypeOK, Check, dbVars, fileVars, lockVars
<1>3. CASE CheckRefuses(p)
  <2>1. Release(p)
    BY <1>3 DEF CheckRefuses
  <2> QED BY <1>3, <2>1, ReleaseType DEF TypeOK, CheckRefuses, dbVars, fileVars
<1>4. CASE Cancel(p)
  <2>1. [task[p] EXCEPT !.live = FALSE] \in Task
    <3>1. task[p] \in Task /\ "check" \in Steps
      BY DEF TypeOK, Steps
    <3> QED BY <3>1, TaskFields
  <2>2. task' \in [Procs -> Task]
    BY <1>4, <2>1 DEF TypeOK, Cancel
  <2> QED BY <1>4, <2>2 DEF TypeOK, Cancel, dbVars, fileVars, lockVars
<1> QED BY <1>1, <1>2, <1>3, <1>4

LEMMA BackupType ==
  ASSUME TypeOK, LockMatchesTask, TaskShape, NEW p \in Procs, BackupStep(p)
  PROVE  TypeOK'
<1>a. task[p] \in Task /\ db \in Database
  BY DEF TypeOK
<1>1. CASE CreateRun(p)
  <2>1. db.rseq + 1 \in RunIds
    <3>1. db.rseq \in 0 .. MaxRuns
      BY <1>a DEF Database
    <3> QED BY <1>1, <3>1, BoundsAssumption DEF CreateRun, RunIds
  <2>2. task' \in [Procs -> Task]
    <3>1. [task[p] EXCEPT !.pc = "start", !.row = db.rseq + 1] \in Task
      BY <1>a, <2>1, TaskFields DEF Steps
    <3> QED BY <1>1, <3>1 DEF CreateRun, TypeOK
  <2>3. db' \in Database
    BY <1>1, <1>a, <2>1, AddRunType DEF CreateRun
  <2>4. slots' \in [Procs -> 0 .. MaxParallel]
    BY <1>1, AcquireType DEF CreateRun
  <2> QED BY <1>1, <2>2, <2>3, <2>4 DEF TypeOK, CreateRun, fileVars
<1>2. CASE CreateRunRefused(p)
  <2>1. Release(p)
    BY <1>2 DEF CreateRunRefused
  <2> QED BY <1>2, <2>1, ReleaseType DEF TypeOK, CreateRunRefused, dbVars, fileVars
<1>3. CASE StartRun(p)
  <2>1. db' \in Database
    BY <1>3, <1>a, RunStatusType DEF StartRun, RowStatus
  <2>2. task' \in [Procs -> Task]
    BY <1>3, GotoType DEF StartRun, Steps
  <2> QED BY <1>3, <2>1, <2>2 DEF TypeOK, StartRun, fileVars, lockVars
<1>4. CASE Dump(p)
  <2>1. nfiles + 1 \in Files /\ nfiles' \in 0 .. MaxFiles
    BY <1>4, NewFileType DEF Dump
  <2>2. [task[p] EXCEPT !.pc = "encrypt", !.file = nfiles + 1] \in Task
    BY <1>a, <2>1, TaskFields DEF Steps
  <2>3. task' \in [Procs -> Task]
    BY <1>4, <2>2 DEF Dump, TypeOK
  <2>4. content' \in [Files -> Database]
    BY <1>4 DEF Dump, TypeOK
  <2> QED BY <1>4, <2>1, <2>3, <2>4 DEF TypeOK, Dump, dbVars, lockVars
<1>5. CASE Encrypt(p)
  <2>1. files' \in SUBSET Files
    BY <1>5 DEF Encrypt, TypeOK, TaskShape, ShapeOf
  <2>2. task' \in [Procs -> Task]
    BY <1>5, GotoType DEF Encrypt, Steps
  <2> QED BY <1>5, <2>1, <2>2 DEF TypeOK, Encrypt, dbVars, lockVars
<1>6. CASE CreateArtifact(p)
  <2>1. task[p].file \in Files \cup {None}
    BY <1>a DEF Task
  <2>2. db' \in Database
    BY <1>6, <1>a, <2>1, InsertArtifactType DEF CreateArtifact
  <2>3. [task[p] EXCEPT !.pc = "attach", !.art = db.aseq + 1] \in Task
    <3>1. db.aseq \in 0 .. MaxArts
      BY <1>a DEF Database
    <3>2. db.aseq + 1 \in ArtIds
      BY <1>6, <3>1, BoundsAssumption DEF CreateArtifact, ArtIds
    <3> QED BY <1>a, <3>2, TaskFields DEF Steps
  <2>4. task' \in [Procs -> Task]
    BY <1>6, <2>3 DEF CreateArtifact, TypeOK
  <2> QED BY <1>6, <2>2, <2>4 DEF TypeOK, CreateArtifact, fileVars, lockVars
<1>7. CASE FinishBackup(p)
  <2>1. db' \in Database
    BY <1>7, <1>a, RunStatusType DEF FinishBackup, RowStatus
  <2>2. Release(p)
    BY <1>7 DEF FinishBackup
  <2>3. [RetIdle EXCEPT !.pc = "list"] \in
          [pc : {"idle", "list", "remove", "unlist"}, todo : SUBSET (ArtIds \X Files),
           art : ArtIds \cup {None}, file : Files \cup {None}]
    BY DEF RetIdle, None
  <2> QED BY <1>7, <2>1, <2>2, <2>3, ReleaseType DEF TypeOK, FinishBackup, fileVars
<1>8. CASE BackupFails(p)
  <2>1. db' \in Database
    BY <1>8, <1>a, RunStatusType DEF BackupFails, RowStatus
  <2>2. Release(p)
    BY <1>8 DEF BackupFails
  <2> QED BY <1>8, <2>1, <2>2, ReleaseType DEF TypeOK, BackupFails, fileVars
<1>9. CASE AttachArtifact(p)
  <2>1. task' \in [Procs -> Task]
    BY <1>9, GotoType DEF AttachArtifact, Steps
  <2> QED BY <1>9, <2>1 DEF TypeOK, AttachArtifact, dbVars, fileVars, lockVars
<1>10. CASE FinishFails(p)
  <2>1. Release(p)
    BY <1>10 DEF FinishFails
  <2> QED BY <1>10, <2>1, ReleaseType DEF TypeOK, FinishFails, dbVars, fileVars
<1> QED BY <1>1, <1>2, <1>3, <1>4, <1>5, <1>6, <1>7, <1>8, <1>9, <1>10 DEF BackupStep

LEMMA ImportType ==
  ASSUME TypeOK, LockMatchesTask, TaskShape, NEW p \in Procs, ImportStep(p)
  PROVE  TypeOK'
<1>a. task[p] \in Task /\ db \in Database
  BY DEF TypeOK
<1>1. CASE ImportWrite(p)
  <2>1. nfiles + 1 \in Files /\ nfiles' \in 0 .. MaxFiles
    BY <1>1, NewFileType DEF ImportWrite
  <2>2. [task[p] EXCEPT !.pc = "artifact", !.file = nfiles + 1] \in Task
    BY <1>a, <2>1, TaskFields DEF Steps
  <2>3. task' \in [Procs -> Task]
    BY <1>1, <2>2 DEF ImportWrite, TypeOK
  <2>4. PICK c \in {ForeignDump} \cup {content[f] : f \in 1 .. nfiles} :
          content' = [content EXCEPT ![nfiles + 1] = c]
    BY <1>1 DEF ImportWrite
  <2>5. c \in Database
    <3>1. nfiles \in 0 .. MaxFiles
      BY DEF TypeOK
    <3>2. \A f \in 1 .. nfiles : f \in Files
      BY <3>1, BoundsAssumption DEF Files
    <3>3. \A f \in Files : content[f] \in Database
      BY DEF TypeOK
    <3> QED BY <3>2, <3>3, ForeignDumpType
  <2>6. content' \in [Files -> Database]
    BY <2>4, <2>5 DEF TypeOK
  <2>7. files' \in SUBSET Files
    BY <1>1, <2>1 DEF ImportWrite, TypeOK
  <2> QED BY <1>1, <2>1, <2>3, <2>6, <2>7 DEF TypeOK, ImportWrite, dbVars, lockVars
<1>2. CASE ImportArtifact(p)
  <2>1. task[p].file \in Files \cup {None}
    BY <1>a DEF Task
  <2>2. db' \in Database
    BY <1>2, <1>a, <2>1, InsertArtifactType DEF ImportArtifact
  <2>3. Release(p)
    BY <1>2 DEF ImportArtifact
  <2> QED BY <1>2, <2>2, <2>3, ReleaseType DEF TypeOK, ImportArtifact, fileVars
<1>3. CASE ImportFails(p)
  <2>1. Release(p)
    BY <1>3 DEF ImportFails
  <2> QED BY <1>3, <2>1, ReleaseType DEF TypeOK, ImportFails, dbVars, fileVars
<1> QED BY <1>1, <1>2, <1>3 DEF ImportStep

LEMMA DeleteType ==
  ASSUME TypeOK, LockMatchesTask, TaskShape, NEW p \in Procs, DeleteStep(p)
  PROVE  TypeOK'
<1>a. task[p] \in Task /\ db \in Database
  BY DEF TypeOK
<1>1. CASE DeleteBusy(p)
  <2>1. CASE downloads[p][task[p].art] > 0
    <3>1. Release(p)
      BY <1>1, <2>1 DEF DeleteBusy
    <3> QED BY <1>1, <3>1, ReleaseType DEF TypeOK, DeleteBusy, dbVars, fileVars
  <2>2. CASE ~(downloads[p][task[p].art] > 0)
    <3>1. task' \in [Procs -> Task]
      BY <1>1, <2>2, GotoType DEF DeleteBusy, Steps
    <3> QED BY <1>1, <2>2, <3>1 DEF TypeOK, DeleteBusy, dbVars, fileVars, lockVars
  <2> QED BY <2>1, <2>2
<1>2. CASE DeleteFind(p)
  <2>1. CASE Reaches(p) /\ db.arts[task[p].art] # None
    <3>1. task[p].art \in ArtIds
      BY <1>2, <1>a DEF DeleteFind, TaskShape, ShapeOf, DeleteSteps
    <3>2. db.arts[task[p].art] \in Files \cup {None}
      BY <1>a, <3>1 DEF Database
    <3>3. [task[p] EXCEPT !.pc = "remove", !.file = db.arts[task[p].art]] \in Task
      BY <1>a, <3>2, TaskFields DEF Steps
    <3>4. task' \in [Procs -> Task]
      BY <1>2, <2>1, <3>3 DEF DeleteFind, TypeOK
    <3> QED BY <1>2, <2>1, <3>4 DEF TypeOK, DeleteFind, dbVars, fileVars, lockVars
  <2>2. CASE ~(Reaches(p) /\ db.arts[task[p].art] # None)
    <3>1. Release(p)
      BY <1>2, <2>2 DEF DeleteFind
    <3> QED BY <1>2, <3>1, ReleaseType DEF TypeOK, DeleteFind, dbVars, fileVars
  <2> QED BY <2>1, <2>2
<1>3. CASE DeleteRemove(p)
  <2>1. files' \in SUBSET Files
    BY <1>3 DEF DeleteRemove, TypeOK
  <2>2. task' \in [Procs -> Task]
    BY <1>3, GotoType DEF DeleteRemove, Steps
  <2> QED BY <1>3, <2>1, <2>2 DEF TypeOK, DeleteRemove, dbVars, lockVars
<1>4. CASE DeleteUnlist(p)
  <2>1. db' \in Database
    BY <1>4, <1>a DEF DeleteUnlist, DeleteArtifact, Database
  <2>2. Release(p)
    BY <1>4 DEF DeleteUnlist
  <2> QED BY <1>4, <2>1, <2>2, ReleaseType DEF TypeOK, DeleteUnlist, fileVars
<1>5. CASE DeleteFails(p)
  <2>1. Release(p)
    BY <1>5 DEF DeleteFails
  <2> QED BY <1>5, <2>1, ReleaseType DEF TypeOK, DeleteFails, dbVars, fileVars
<1> QED BY <1>1, <1>2, <1>3, <1>4, <1>5 DEF DeleteStep

LEMMA RestoreType ==
  ASSUME TypeOK, LockMatchesTask, TaskShape, NEW p \in Procs, RestoreStep(p)
  PROVE  TypeOK'
<1>a. task[p] \in Task /\ db \in Database
  BY DEF TypeOK
<1>b. {"failed", "success", "active"} \subseteq RowStatus
  BY DEF RowStatus
<1>1. CASE QueueRestore(p)
  <2>1. task[p].art \in ArtIds
    BY <1>1 DEF QueueRestore, TaskShape, ShapeOf, RestoreSteps
  <2>2. db.sseq + 1 \in RestIds
    <3>1. db.sseq \in 0 .. MaxRests
      BY <1>a DEF Database
    <3> QED BY <1>1, <3>1, BoundsAssumption DEF QueueRestore, RestIds
  <2>3. db' \in Database
    BY <1>1, <1>a, <2>1, <2>2, AddRestType DEF QueueRestore
  <2>4. [task[p] EXCEPT !.pc = "exec", !.row = db.sseq + 1] \in Task
    BY <1>a, <2>2, TaskFields DEF Steps
  <2>5. task' \in [Procs -> Task]
    BY <1>1, <2>4 DEF QueueRestore, TypeOK
  <2> QED BY <1>1, <2>3, <2>5 DEF TypeOK, QueueRestore, fileVars, lockVars
<1>2. CASE QueueRestoreRefused(p)
  <2>1. Release(p)
    BY <1>2 DEF QueueRestoreRefused
  <2> QED BY <1>2, <2>1, ReleaseType DEF TypeOK, QueueRestoreRefused, dbVars, fileVars
<1>3. CASE ExecRestore(p)
  <2>1. CASE up /\ db.rests[task[p].row] # "none"
    <3>1. [db EXCEPT !.rests[task[p].row] = "active"] \in Database
      BY <1>a, <1>b DEF Database
    <3>2. slots' \in [Procs -> 0 .. MaxParallel]
      BY <1>3, <2>1, AcquireType DEF ExecRestore
    <3>3. task' \in [Procs -> Task]
      BY <1>3, <2>1, GotoType DEF ExecRestore, Steps
    <3> QED BY <1>3, <2>1, <3>1, <3>2, <3>3 DEF TypeOK, ExecRestore, fileVars
  <2>2. CASE ~(up /\ db.rests[task[p].row] # "none")
    <3>1. Release(p)
      BY <1>3, <2>2 DEF ExecRestore
    <3> QED BY <1>3, <2>2, <3>1, ReleaseType DEF TypeOK, ExecRestore, fileVars
  <2> QED BY <2>1, <2>2
<1>4. CASE RestoreLoad(p)
  <2>1. task[p].art \in ArtIds
    BY <1>4 DEF RestoreLoad, TaskShape, ShapeOf, RestoreSteps
  <2>2. db.arts[task[p].art] \in Files \cup {None}
    BY <1>a, <2>1 DEF Database
  <2>3. [task[p] EXCEPT !.pc = "open", !.file = db.arts[task[p].art]] \in Task
    BY <1>a, <2>2, TaskFields DEF Steps
  <2>4. task' \in [Procs -> Task]
    BY <1>4, <2>3 DEF RestoreLoad, TypeOK
  <2> QED BY <1>4, <2>4 DEF TypeOK, RestoreLoad, dbVars, fileVars, lockVars
<1>5. CASE RestoreOpen(p)
  <2>1. task' \in [Procs -> Task]
    BY <1>5, GotoType DEF RestoreOpen, Steps
  <2> QED BY <1>5, <2>1 DEF TypeOK, RestoreOpen, dbVars, fileVars, lockVars
<1>6. CASE RestoreFails(p)
  <2>1. db' \in Database
    BY <1>6, <1>a, <1>b, RestStatusType DEF RestoreFails
  <2>2. CASE task[p].kind = "dryrun"
    <3>1. Release(p)
      BY <1>6, <2>2 DEF RestoreFails
    <3> QED BY <1>6, <2>1, <3>1, ReleaseType DEF TypeOK, RestoreFails, fileVars
  <2>3. CASE task[p].kind # "dryrun"
    <3>1. Goto(p, "cleanup") /\ UNCHANGED lockVars
      BY <1>6, <2>3 DEF RestoreFails
    <3>2. task' \in [Procs -> Task]
      BY <3>1, GotoType DEF Steps
    <3> QED BY <1>6, <2>1, <3>1, <3>2 DEF TypeOK, RestoreFails, fileVars, lockVars
  <2> QED BY <2>2, <2>3
<1>7. CASE DryRunDone(p)
  <2>1. db' \in Database
    BY <1>7, <1>a, <1>b, RestStatusType DEF DryRunDone
  <2>2. Release(p)
    BY <1>7 DEF DryRunDone
  <2> QED BY <1>7, <2>1, <2>2, ReleaseType DEF TypeOK, DryRunDone, fileVars
<1>8. CASE EnterMaintenance(p)
  <2>1. db' \in Database
    BY <1>8, <1>a DEF EnterMaintenance, Database
  <2>2. task' \in [Procs -> Task]
    BY <1>8, GotoType DEF EnterMaintenance, Steps
  <2> QED BY <1>8, <2>1, <2>2 DEF TypeOK, EnterMaintenance, fileVars, lockVars
<1>9. CASE DropSchema(p)
  <2>1. task' \in [Procs -> Task]
    BY <1>9, GotoType DEF DropSchema, Steps
  <2> QED BY <1>9, <2>1 DEF TypeOK, DropSchema, fileVars, lockVars
<1>10. CASE PgRestore(p)
  <2>1. task[p].file \in Files
    BY <1>10 DEF PgRestore, TaskShape, ShapeOf
  <2>2. db' \in Database
    BY <1>10, <2>1 DEF PgRestore, TypeOK
  <2>3. task' \in [Procs -> Task]
    BY <1>10, GotoType DEF PgRestore, Steps
  <2> QED BY <1>10, <2>2, <2>3 DEF TypeOK, PgRestore, fileVars, lockVars
<1>11. CASE Migrate(p)
  <2>1. db' \in Database
    BY <1>11, <1>a, <1>b, RestStatusType DEF Migrate
  <2>2. task' \in [Procs -> Task]
    BY <1>11, GotoType DEF Migrate, Steps
  <2> QED BY <1>11, <2>1, <2>2 DEF TypeOK, Migrate, fileVars, lockVars
<1>12. CASE ExitMaintenance(p)
  <2>1. db' \in Database
    BY <1>12, <1>a, <1>b, MaintStatusType DEF ExitMaintenance
  <2>2. task' \in [Procs -> Task]
    BY <1>12, GotoType DEF ExitMaintenance, Steps
  <2> QED BY <1>12, <2>1, <2>2 DEF TypeOK, ExitMaintenance, fileVars, lockVars
<1>13. CASE ReplaceFails(p)
  <2>1. db' \in Database
    BY <1>13, <1>a, <1>b, RestStatusType DEF ReplaceFails
  <2>2. task' \in [Procs -> Task]
    BY <1>13, GotoType DEF ReplaceFails, Steps
  <2> QED BY <1>13, <2>1, <2>2 DEF TypeOK, ReplaceFails, fileVars, lockVars
<1>14. CASE RestoreCleanup(p)
  <2>1. db' \in Database
    BY <1>14, <1>a, ResetType DEF RestoreCleanup
  <2>2. task' \in [Procs -> Task]
    BY <1>14, GotoType DEF RestoreCleanup, Steps
  <2> QED BY <1>14, <2>1, <2>2 DEF TypeOK, RestoreCleanup, fileVars, lockVars
<1>15. CASE RestoreRecord(p)
  <2>1. task[p].file \in Files \cup {None}
    BY <1>a DEF Task
  <2>2. db' \in Database
    BY <1>15, <1>a, <2>1, InsertArtifactType DEF RestoreRecord
  <2>3. Release(p)
    BY <1>15 DEF RestoreRecord
  <2> QED BY <1>15, <2>2, <2>3, ReleaseType DEF TypeOK, RestoreRecord, fileVars
<1>16. CASE LeaveMaintenance(p)
  <2>1. db' \in Database
    BY <1>16, <1>a DEF LeaveMaintenance, Database
  <2>2. task' \in [Procs -> Task]
    BY <1>16, GotoType DEF LeaveMaintenance, Steps
  <2> QED BY <1>16, <2>1, <2>2 DEF TypeOK, LeaveMaintenance, fileVars, lockVars
<1> QED BY <1>1, <1>2, <1>3, <1>4, <1>5, <1>6, <1>7, <1>8, <1>9, <1>10, <1>11, <1>12,
           <1>13, <1>14, <1>15, <1>16 DEF RestoreStep

LEMMA DownloadType ==
  ASSUME TypeOK, NEW c \in Clients,
         \/ \E p \in Procs, id \in ArtIds : GetForDownload(c, p, id)
         \/ DownloadStep(c)
  PROVE  TypeOK'
<1> DEFINE Dl == [pc : {"idle", "got", "begun", "open"}, proc : Procs,
                  art : ArtIds \cup {None}, file : Files \cup {None}]
<1>a. dl[c] \in Dl /\ db \in Database /\ dl \in [Clients -> Dl]
  BY DEF TypeOK
<1>b. DlIdle \in Dl
  BY ProcsAssumption DEF DlIdle, None
<1>c. /\ [dl[c] EXCEPT !.pc = "begun"] \in Dl
      /\ [dl[c] EXCEPT !.pc = "open"] \in Dl
  BY <1>a
<1>d. downloads \in [Procs -> [ArtIds -> Nat]]
  BY DEF TypeOK
<1>e. ASSUME EndDownload(c)
      PROVE  dl' \in [Clients -> Dl] /\ downloads' \in [Procs -> [ArtIds -> Nat]]
  <2>1. dl' \in [Clients -> Dl]
    BY <1>a, <1>b, <1>e DEF EndDownload
  <2>2. \A n \in Nat : (IF n <= 1 THEN 0 ELSE n - 1) \in Nat
    OBVIOUS
  <2>3. downloads' \in [Procs -> [ArtIds -> Nat]]
    BY <1>d, <1>e, <2>2 DEF EndDownload
  <2> QED BY <2>1, <2>3
<1>1. ASSUME NEW p \in Procs, NEW id \in ArtIds, GetForDownload(c, p, id)
      PROVE  TypeOK'
  <2>1. db.arts[id] \in Files \cup {None}
    BY <1>a DEF Database
  <2>2. dl' \in [Clients -> Dl]
    BY <1>a, <1>1, <2>1 DEF GetForDownload
  <2> QED BY <1>1, <2>2 DEF TypeOK, GetForDownload, dbVars, fileVars, lockVars
<1>2. CASE BeginDownload(c)
  <2>1. dl' \in [Clients -> Dl]
    BY <1>2, <1>a, <1>b, <1>c DEF BeginDownload
  <2>2. downloads' \in [Procs -> [ArtIds -> Nat]]
    BY <1>2, <1>d DEF BeginDownload
  <2> QED BY <1>2, <2>1, <2>2 DEF TypeOK, BeginDownload, dbVars, fileVars, lockVars
<1>3. CASE OpenDownload(c)
  <2>1. dl' \in [Clients -> Dl] /\ downloads' \in [Procs -> [ArtIds -> Nat]]
    BY <1>3, <1>a, <1>c, <1>d, <1>e DEF OpenDownload
  <2> QED BY <1>3, <2>1 DEF TypeOK, OpenDownload, dbVars, fileVars, lockVars
<1>4. CASE CloseDownload(c)
  BY <1>4, <1>e DEF TypeOK, CloseDownload, dbVars, fileVars, lockVars
<1> QED BY <1>1, <1>2, <1>3, <1>4 DEF DownloadStep

LEMMA RetentionType ==
  ASSUME TypeOK, RetentionStep
  PROVE  TypeOK'
<1> DEFINE Ret == [pc : {"idle", "list", "remove", "unlist"}, todo : SUBSET (ArtIds \X Files),
                   art : ArtIds \cup {None}, file : Files \cup {None}]
<1>a. ret \in Ret /\ db \in Database
  BY DEF TypeOK
<1>b. /\ RetIdle \in Ret
      /\ \A todo \in SUBSET (ArtIds \X Files) :
           [RetIdle EXCEPT !.pc = "remove", !.todo = todo] \in Ret
  BY DEF RetIdle, None
<1>1. CASE ListSuccessfulArtifacts
  <2>1. \A age : RetentionVictims(age) \in SUBSET (ArtIds \X Files)
    BY DEF RetentionVictims
  <2>2. {} \in SUBSET (ArtIds \X Files)
    OBVIOUS
  <2>3. ret' \in Ret
    <3>1. PICK age \in 0 .. MaxArts :
            LET victims == IF up THEN RetentionVictims(age) ELSE {} IN
            ret' = IF victims = {} THEN RetIdle
                   ELSE [RetIdle EXCEPT !.pc = "remove", !.todo = victims]
      BY <1>1 DEF ListSuccessfulArtifacts
    <3>2. (IF up THEN RetentionVictims(age) ELSE {}) \in SUBSET (ArtIds \X Files)
      BY <2>1, <2>2
    <3> QED BY <1>b, <3>1, <3>2
  <2> QED BY <1>1, <2>3 DEF TypeOK, ListSuccessfulArtifacts, dbVars, fileVars, lockVars
<1>2. CASE RetentionRemove
  <2>1. PICK v \in ret.todo :
          /\ files' = files \ {v[2]}
          /\ ret' = [pc |-> "unlist", todo |-> ret.todo \ {v}, art |-> v[1], file |-> v[2]]
    BY <1>2 DEF RetentionRemove
  <2>2. v \in ArtIds \X Files /\ ret.todo \ {v} \in SUBSET (ArtIds \X Files)
    BY <1>a
  <2>3. ret' \in Ret
    BY <2>1, <2>2
  <2>4. files' \in SUBSET Files
    BY <2>1 DEF TypeOK
  <2> QED BY <1>2, <2>3, <2>4 DEF TypeOK, RetentionRemove, dbVars, lockVars
<1>3. CASE RetentionUnlist
  <2>1. db' \in Database
    BY <1>3, <1>a DEF RetentionUnlist, DeleteArtifact, Database
  <2>2. ret.todo \in SUBSET (ArtIds \X Files)
    BY <1>a
  <2>3. ret' \in Ret
    BY <1>3, <1>b, <2>2 DEF RetentionUnlist
  <2> QED BY <1>3, <2>1, <2>3 DEF TypeOK, RetentionUnlist, fileVars, lockVars
<1> QED BY <1>1, <1>2, <1>3 DEF RetentionStep

LEMMA RestartType ==
  ASSUME TypeOK, NEW p \in Procs, Restart(p)
  PROVE  TypeOK'
<1>1. db' \in Database
  BY EmptyDatabaseType DEF TypeOK, Restart
<1>2. task' \in [Procs -> Task]
  BY IdleType DEF TypeOK, Restart
<1>3. slots' \in [Procs -> 0 .. MaxParallel] /\ downloads' \in [Procs -> [ArtIds -> Nat]]
  <2>1. 0 \in 0 .. MaxParallel /\ [i \in ArtIds |-> 0] \in [ArtIds -> Nat]
    BY LimitsAssumption
  <2> QED BY <2>1 DEF TypeOK, Restart
<1>4. DlIdle \in [pc : {"idle", "got", "begun", "open"}, proc : Procs,
                  art : ArtIds \cup {None}, file : Files \cup {None}]
  BY ProcsAssumption DEF DlIdle, None
<1>5. RetIdle \in [pc : {"idle", "list", "remove", "unlist"}, todo : SUBSET (ArtIds \X Files),
                   art : ArtIds \cup {None}, file : Files \cup {None}]
  BY DEF RetIdle, None
<1>6. op' \in [Procs -> {"", "backup", "delete", "restore"}] /\ up' \in BOOLEAN
  BY DEF TypeOK, Restart
<1> QED BY <1>1, <1>2, <1>3, <1>4, <1>5, <1>6 DEF TypeOK, Restart, fileVars

-----------------------------------------------------------------------------
(***************************************************************************)
(* The pipeline lock.  LocalStep is what every step of the request that    *)
(* holds the lock of p, and of a new one, does to the lock, the limiter    *)
(* and the request's record: it concerns p alone, and a deletion passes    *)
(* its look at the downloads only when the artifact has none.              *)
(***************************************************************************)
Agrees(t, o, s) == /\ t.pc = "idle" <=> t.kind = "none"
                   /\ o = IF t.kind = "none" THEN "" ELSE LockName(t.kind)
                   /\ s = IF Holds(t) THEN 1 ELSE 0

Deleting(t) == t.kind = "delete" /\ t.pc \in {"find", "remove", "unlist"}

LocalStep(p) ==
  /\ \A q \in Procs \ {p} : task'[q] = task[q] /\ op'[q] = op[q] /\ slots'[q] = slots[q]
  /\ ShapeOf(task'[p])
  /\ Agrees(task'[p], op'[p], slots'[p])
  /\ downloads' = downloads /\ dl' = dl
  /\ Deleting(task'[p]) => \/ Deleting(task[p]) /\ task[p].art = task'[p].art
                           \/ ~(downloads[p][task'[p].art] > 0)

LEMMA ReleaseLocal ==
  ASSUME TypeOK, LockMatchesTask, NEW p \in Procs, Release(p), downloads' = downloads, dl' = dl
  PROVE  LocalStep(p)
<1>1. task'[p] = Idle
  BY DEF Release, TypeOK
<1>2. op'[p] = ""
  BY DEF Release, EndOp, TypeOK
<1>3. slots'[p] = 0
  <2>1. slots[p] = IF Holds(task[p]) THEN 1 ELSE 0
    BY DEF LockMatchesTask
  <2>2. slots'[p] = IF Holds(task[p]) THEN slots[p] - 1 ELSE slots[p]
    BY DEF Release, EndSlot, TypeOK
  <2> QED BY <2>1, <2>2
<1>4. ShapeOf(Idle)
  BY DEF ShapeOf, Idle, BackupSteps, DeleteSteps, RestoreSteps
<1>5. Agrees(Idle, "", 0)
  BY DEF Agrees, Idle, Holds
<1>6. ~Deleting(Idle)
  BY DEF Deleting, Idle
<1>7. \A q \in Procs \ {p} : task'[q] = task[q] /\ op'[q] = op[q] /\ slots'[q] = slots[q]
  BY DEF Release, EndOp, EndSlot, TypeOK
<1> QED BY <1>1, <1>2, <1>3, <1>4, <1>5, <1>6, <1>7 DEF LocalStep

\* A step that keeps the lock and the token and moves the request to t.
LEMMA MoveLocal ==
  ASSUME TypeOK, LockMatchesTask, NEW p \in Procs, NEW t,
         task' = [task EXCEPT ![p] = t], op' = op, slots' = slots, downloads' = downloads, dl' = dl,
         t.kind = task[p].kind, t.pc # "idle", task[p].pc # "idle", ShapeOf(t),
         Holds(t) <=> Holds(task[p]),
         Deleting(t) => \/ Deleting(task[p]) /\ task[p].art = t.art
                        \/ ~(downloads[p][t.art] > 0)
  PROVE  LocalStep(p)
<1>1. task'[p] = t
  BY DEF TypeOK
<1>2. Agrees(t, op[p], slots[p])
  BY DEF Agrees, LockMatchesTask
<1>3. \A q \in Procs \ {p} : task'[q] = task[q]
  BY DEF TypeOK
<1> QED BY <1>1, <1>2, <1>3 DEF LocalStep

\* The same, with a token taken from the limiter.
LEMMA AcquireLocal ==
  ASSUME TypeOK, LockMatchesTask, NEW p \in Procs, NEW t,
         task' = [task EXCEPT ![p] = t], op' = op, slots' = [slots EXCEPT ![p] = @ + 1],
         downloads' = downloads, dl' = dl,
         t.kind = task[p].kind, t.pc # "idle", task[p].pc # "idle", ShapeOf(t),
         Holds(t), ~Holds(task[p]), ~Deleting(t)
  PROVE  LocalStep(p)
<1>1. task'[p] = t
  BY DEF TypeOK
<1>2. slots[p] = 0
  BY DEF LockMatchesTask
<1>3. slots'[p] = 1
  <2>1. slots \in [Procs -> 0 .. MaxParallel]
    BY DEF TypeOK
  <2> QED BY <1>2, <2>1
<1>4. Agrees(t, op[p], 1)
  BY DEF Agrees, LockMatchesTask
<1>5. \A q \in Procs \ {p} : task'[q] = task[q] /\ slots'[q] = slots[q]
  BY DEF TypeOK
<1> QED BY <1>1, <1>3, <1>4, <1>5 DEF LocalStep

\* The record of p after a change of its step only.
Moved(p, pc) == [task[p] EXCEPT !.pc = pc]

LEMMA MovedFields ==
  ASSUME TypeOK, NEW p \in Procs, NEW pc
  PROVE  /\ Moved(p, pc).pc = pc
         /\ Moved(p, pc).kind = task[p].kind
         /\ Moved(p, pc).art = task[p].art
         /\ Moved(p, pc).file = task[p].file
<1>1. task[p] \in Task
  BY DEF TypeOK
<1> QED BY <1>1 DEF Moved, Task

LEMMA GotoLocal ==
  ASSUME TypeOK, LockMatchesTask, NEW p \in Procs, NEW pc, Goto(p, pc),
         op' = op, slots' = slots, downloads' = downloads, dl' = dl,
         pc # "idle", task[p].pc # "idle", ShapeOf(Moved(p, pc)),
         Holds(Moved(p, pc)) <=> Holds(task[p]),
         Deleting(Moved(p, pc)) => Deleting(task[p]) \/ ~(downloads[p][task[p].art] > 0)
  PROVE  LocalStep(p)
<1>1. task' = [task EXCEPT ![p] = Moved(p, pc)]
  BY DEF Goto, Moved
<1> QED BY <1>1, MovedFields, MoveLocal

LEMMA BackupLocal ==
  ASSUME TypeOK, LockMatchesTask, TaskShape, NEW p \in Procs, BackupStep(p)
  PROVE  LocalStep(p)
<1>a. task[p] \in Task
  BY DEF TypeOK
<1>b. ShapeOf(task[p])
  BY DEF TaskShape
<1>1. CASE CreateRun(p)
  <2> DEFINE t == [task[p] EXCEPT !.pc = "start", !.row = db.rseq + 1]
  <2>1. task[p].pc = "create" /\ task' = [task EXCEPT ![p] = t]
    BY <1>1 DEF CreateRun
  <2>2. t.pc = "start" /\ t.kind = task[p].kind /\ t.art = task[p].art /\ t.file = task[p].file
    BY <1>a DEF Task
  <2>3. ShapeOf(t) /\ Holds(t) /\ ~Holds(task[p]) /\ ~Deleting(t)
    BY <1>b, <2>1, <2>2 DEF ShapeOf, Holds, Deleting, BackupSteps, DeleteSteps, RestoreSteps
  <2> HIDE DEF t
  <2> QED BY <1>1, <2>1, <2>2, <2>3, AcquireLocal DEF CreateRun
<1>2. CASE CreateRunRefused(p)
  BY <1>2, ReleaseLocal DEF CreateRunRefused
<1>3. CASE StartRun(p)
  <2>1. Goto(p, "dump") /\ task[p].pc = "start"
    BY <1>3 DEF StartRun
  <2>2. /\ ShapeOf(Moved(p, "dump"))
        /\ Holds(Moved(p, "dump")) <=> Holds(task[p])
        /\ ~Deleting(Moved(p, "dump"))
    BY <1>b, <2>1, MovedFields DEF ShapeOf, Holds, Deleting, BackupSteps, DeleteSteps, RestoreSteps
  <2> QED BY <1>3, <2>1, <2>2, GotoLocal DEF StartRun, lockVars
<1>4. CASE Dump(p)
  <2> DEFINE t == [task[p] EXCEPT !.pc = "encrypt", !.file = nfiles + 1]
  <2>1. task[p].pc = "dump" /\ task' = [task EXCEPT ![p] = t]
    BY <1>4 DEF Dump
  <2>2. t.pc = "encrypt" /\ t.kind = task[p].kind /\ t.art = task[p].art /\ t.file = nfiles + 1
    BY <1>a DEF Task
  <2>3. nfiles + 1 \in Files
    BY <1>4, NewFileType DEF Dump
  <2>4. ShapeOf(t) /\ (Holds(t) <=> Holds(task[p])) /\ ~Deleting(t)
    BY <1>b, <2>1, <2>2, <2>3 DEF ShapeOf, Holds, Deleting, BackupSteps, DeleteSteps, RestoreSteps
  <2> HIDE DEF t
  <2> QED BY <1>4, <2>1, <2>2, <2>4, MoveLocal DEF Dump, lockVars
<1>5. CASE Encrypt(p)
  <2>1. Goto(p, "artifact") /\ task[p].pc = "encrypt"
    BY <1>5 DEF Encrypt
  <2>2. /\ ShapeOf(Moved(p, "artifact"))
        /\ Holds(Moved(p, "artifact")) <=> Holds(task[p])
        /\ ~Deleting(Moved(p, "artifact"))
    BY <1>b, <2>1, MovedFields DEF ShapeOf, Holds, Deleting, BackupSteps, DeleteSteps, RestoreSteps
  <2> QED BY <1>5, <2>1, <2>2, GotoLocal DEF Encrypt, lockVars
<1>6. CASE CreateArtifact(p)
  <2> DEFINE t == [task[p] EXCEPT !.pc = "attach", !.art = db.aseq + 1]
  <2>1. task[p].pc = "artifact" /\ task[p].kind # "import" /\ task' = [task EXCEPT ![p] = t]
    BY <1>6 DEF CreateArtifact
  <2>2. t.pc = "attach" /\ t.kind = task[p].kind /\ t.file = task[p].file
    BY <1>a DEF Task
  <2>3. ShapeOf(t) /\ (Holds(t) <=> Holds(task[p])) /\ ~Deleting(t)
    BY <1>b, <2>1, <2>2 DEF ShapeOf, Holds, Deleting, BackupSteps, DeleteSteps, RestoreSteps
  <2> HIDE DEF t
  <2> QED BY <1>6, <2>1, <2>2, <2>3, MoveLocal DEF CreateArtifact, lockVars
<1>7. CASE FinishBackup(p)
  BY <1>7, ReleaseLocal DEF FinishBackup
<1>8. CASE BackupFails(p)
  BY <1>8, ReleaseLocal DEF BackupFails
<1>9. CASE AttachArtifact(p)
  <2>1. Goto(p, "finish") /\ task[p].pc = "attach"
    BY <1>9 DEF AttachArtifact
  <2>2. /\ ShapeOf(Moved(p, "finish"))
        /\ Holds(Moved(p, "finish")) <=> Holds(task[p])
        /\ ~Deleting(Moved(p, "finish"))
    BY <1>b, <2>1, MovedFields DEF ShapeOf, Holds, Deleting, BackupSteps, DeleteSteps, RestoreSteps
  <2> QED BY <1>9, <2>1, <2>2, GotoLocal DEF AttachArtifact, lockVars
<1>10. CASE FinishFails(p)
  BY <1>10, ReleaseLocal DEF FinishFails
<1> QED BY <1>1, <1>2, <1>3, <1>4, <1>5, <1>6, <1>7, <1>8, <1>9, <1>10 DEF BackupStep

LEMMA ImportLocal ==
  ASSUME TypeOK, LockMatchesTask, TaskShape, NEW p \in Procs, ImportStep(p)
  PROVE  LocalStep(p)
<1>a. task[p] \in Task
  BY DEF TypeOK
<1>b. ShapeOf(task[p])
  BY DEF TaskShape
<1>1. CASE ImportWrite(p)
  <2> DEFINE t == [task[p] EXCEPT !.pc = "artifact", !.file = nfiles + 1]
  <2>1. task[p].pc = "write" /\ task' = [task EXCEPT ![p] = t]
    BY <1>1 DEF ImportWrite
  <2>2. t.pc = "artifact" /\ t.kind = task[p].kind /\ t.art = task[p].art
    BY <1>a DEF Task
  <2>3. ShapeOf(t) /\ (Holds(t) <=> Holds(task[p])) /\ ~Deleting(t)
    BY <1>b, <2>1, <2>2 DEF ShapeOf, Holds, Deleting, BackupSteps, DeleteSteps, RestoreSteps
  <2> HIDE DEF t
  <2> QED BY <1>1, <2>1, <2>2, <2>3, MoveLocal DEF ImportWrite, lockVars
<1>2. CASE ImportArtifact(p)
  BY <1>2, ReleaseLocal DEF ImportArtifact
<1>3. CASE ImportFails(p)
  BY <1>3, ReleaseLocal DEF ImportFails
<1> QED BY <1>1, <1>2, <1>3 DEF ImportStep

LEMMA DeleteLocal ==
  ASSUME TypeOK, LockMatchesTask, TaskShape, NEW p \in Procs, DeleteStep(p)
  PROVE  LocalStep(p)
<1>a. task[p] \in Task
  BY DEF TypeOK
<1>b. ShapeOf(task[p])
  BY DEF TaskShape
<1>1. CASE DeleteBusy(p)
  <2>1. CASE downloads[p][task[p].art] > 0
    BY <1>1, <2>1, ReleaseLocal DEF DeleteBusy
  <2>2. CASE ~(downloads[p][task[p].art] > 0)
    <3>1. Goto(p, "find") /\ task[p].pc = "busy"
      BY <1>1, <2>2 DEF DeleteBusy
    <3>2. /\ ShapeOf(Moved(p, "find"))
          /\ Holds(Moved(p, "find")) <=> Holds(task[p])
      BY <1>b, <3>1, MovedFields DEF ShapeOf, Holds, BackupSteps, DeleteSteps, RestoreSteps
    <3> QED BY <1>1, <2>2, <3>1, <3>2, GotoLocal DEF DeleteBusy, lockVars
  <2> QED BY <2>1, <2>2
<1>2. CASE DeleteFind(p)
  <2>1. CASE Reaches(p) /\ db.arts[task[p].art] # None
    <3> DEFINE t == [task[p] EXCEPT !.pc = "remove", !.file = db.arts[task[p].art]]
    <3>1. task[p].pc = "find" /\ task' = [task EXCEPT ![p] = t]
      BY <1>2, <2>1 DEF DeleteFind
    <3>2. t.pc = "remove" /\ t.kind = task[p].kind /\ t.art = task[p].art
          /\ t.file = db.arts[task[p].art]
      BY <1>a DEF Task
    <3>3. task[p].kind = "delete" /\ task[p].art \in ArtIds
      BY <1>b, <3>1 DEF ShapeOf, DeleteSteps
    <3>4. t.file \in Files
      <4>1. db.arts \in [ArtIds -> Files \cup {None}]
        BY DEF TypeOK, Database
      <4> QED BY <2>1, <3>2, <3>3, <4>1
    <3>5. ShapeOf(t) /\ (Holds(t) <=> Holds(task[p])) /\ Deleting(task[p])
      BY <1>b, <3>1, <3>2, <3>3, <3>4
      DEF ShapeOf, Holds, Deleting, BackupSteps, DeleteSteps, RestoreSteps
    <3> HIDE DEF t
    <3> QED BY <1>2, <2>1, <3>1, <3>2, <3>5, MoveLocal DEF DeleteFind, lockVars
  <2>2. CASE ~(Reaches(p) /\ db.arts[task[p].art] # None)
    BY <1>2, <2>2, ReleaseLocal DEF DeleteFind
  <2> QED BY <2>1, <2>2
<1>3. CASE DeleteRemove(p)
  <2>1. Goto(p, "unlist") /\ task[p].pc = "remove"
    BY <1>3 DEF DeleteRemove
  <2>2. /\ ShapeOf(Moved(p, "unlist"))
        /\ Holds(Moved(p, "unlist")) <=> Holds(task[p])
        /\ Deleting(task[p])
    BY <1>b, <2>1, MovedFields DEF ShapeOf, Holds, Deleting, BackupSteps, DeleteSteps, RestoreSteps
  <2> QED BY <1>3, <2>1, <2>2, GotoLocal DEF DeleteRemove, lockVars
<1>4. CASE DeleteUnlist(p)
  BY <1>4, ReleaseLocal DEF DeleteUnlist
<1>5. CASE DeleteFails(p)
  BY <1>5, ReleaseLocal DEF DeleteFails
<1> QED BY <1>1, <1>2, <1>3, <1>4, <1>5 DEF DeleteStep

LEMMA RestoreLocal ==
  ASSUME TypeOK, LockMatchesTask, TaskShape, NEW p \in Procs, RestoreStep(p)
  PROVE  LocalStep(p)
<1>a. task[p] \in Task
  BY DEF TypeOK
<1>b. ShapeOf(task[p])
  BY DEF TaskShape
<1>1. CASE QueueRestore(p)
  <2> DEFINE t == [task[p] EXCEPT !.pc = "exec", !.row = db.sseq + 1]
  <2>1. task[p].pc = "queue" /\ task' = [task EXCEPT ![p] = t]
    BY <1>1 DEF QueueRestore
  <2>2. t.pc = "exec" /\ t.kind = task[p].kind /\ t.art = task[p].art /\ t.file = task[p].file
    BY <1>a DEF Task
  <2>3. ShapeOf(t) /\ (Holds(t) <=> Holds(task[p])) /\ ~Deleting(t)
    BY <1>b, <2>1, <2>2 DEF ShapeOf, Holds, Deleting, BackupSteps, DeleteSteps, RestoreSteps
  <2> HIDE DEF t
  <2> QED BY <1>1, <2>1, <2>2, <2>3, MoveLocal DEF QueueRestore, lockVars
<1>2. CASE QueueRestoreRefused(p)
  BY <1>2, ReleaseLocal DEF QueueRestoreRefused
<1>3. CASE ExecRestore(p)
  <2>1. CASE up /\ db.rests[task[p].row] # "none"
    <3>1. task[p].pc = "exec" /\ task' = [task EXCEPT ![p] = Moved(p, "load")]
      BY <1>3, <2>1 DEF ExecRestore, Goto, Moved
    <3>2. /\ ShapeOf(Moved(p, "load"))
          /\ Holds(Moved(p, "load")) /\ ~Holds(task[p])
          /\ ~Deleting(Moved(p, "load"))
      BY <1>b, <3>1, MovedFields DEF ShapeOf, Holds, Deleting, BackupSteps, DeleteSteps, RestoreSteps
    <3>3. op' = op /\ slots' = [slots EXCEPT ![p] = @ + 1] /\ downloads' = downloads /\ dl' = dl
      BY <1>3, <2>1 DEF ExecRestore
    <3>4. Moved(p, "load").kind = task[p].kind /\ Moved(p, "load").pc = "load"
      BY MovedFields
    <3> QED BY <3>1, <3>2, <3>3, <3>4, AcquireLocal
  <2>2. CASE ~(up /\ db.rests[task[p].row] # "none")
    BY <1>3, <2>2, ReleaseLocal DEF ExecRestore
  <2> QED BY <2>1, <2>2
<1>4. CASE RestoreLoad(p)
  <2> DEFINE t == [task[p] EXCEPT !.pc = "open", !.file = db.arts[task[p].art]]
  <2>1. task[p].pc = "load" /\ task' = [task EXCEPT ![p] = t] /\ db.arts[task[p].art] # None
    BY <1>4 DEF RestoreLoad
  <2>2. t.pc = "open" /\ t.kind = task[p].kind /\ t.art = task[p].art
        /\ t.file = db.arts[task[p].art]
    BY <1>a DEF Task
  <2>3. task[p].art \in ArtIds
    BY <1>b, <2>1 DEF ShapeOf, RestoreSteps
  <2>4. t.file \in Files
    <3>1. db.arts \in [ArtIds -> Files \cup {None}]
      BY DEF TypeOK, Database
    <3> QED BY <2>1, <2>2, <2>3, <3>1
  <2>5. ShapeOf(t) /\ (Holds(t) <=> Holds(task[p])) /\ ~Deleting(t)
    BY <1>b, <2>1, <2>2, <2>4 DEF ShapeOf, Holds, Deleting, BackupSteps, DeleteSteps, RestoreSteps
  <2> HIDE DEF t
  <2> QED BY <1>4, <2>1, <2>2, <2>5, MoveLocal DEF RestoreLoad, lockVars
<1>5. CASE RestoreOpen(p)
  <2>1. Goto(p, "ready") /\ task[p].pc = "open"
    BY <1>5 DEF RestoreOpen
  <2>2. /\ ShapeOf(Moved(p, "ready"))
        /\ Holds(Moved(p, "ready")) <=> Holds(task[p])
        /\ ~Deleting(Moved(p, "ready"))
    BY <1>b, <2>1, MovedFields DEF ShapeOf, Holds, Deleting, BackupSteps, DeleteSteps, RestoreSteps
  <2> QED BY <1>5, <2>1, <2>2, GotoLocal DEF RestoreOpen, lockVars
<1>6. CASE RestoreFails(p)
  <2>1. CASE task[p].kind = "dryrun"
    BY <1>6, <2>1, ReleaseLocal DEF RestoreFails
  <2>2. CASE task[p].kind # "dryrun"
    <3>1. Goto(p, "cleanup") /\ task[p].pc \in {"load", "open", "ready"} /\ UNCHANGED lockVars
      BY <1>6, <2>2 DEF RestoreFails
    <3>2. /\ ShapeOf(Moved(p, "cleanup"))
          /\ Holds(Moved(p, "cleanup")) <=> Holds(task[p])
          /\ ~Deleting(Moved(p, "cleanup"))
      BY <1>b, <3>1, MovedFields DEF ShapeOf, Holds, Deleting, BackupSteps, DeleteSteps, RestoreSteps
    <3> QED BY <1>6, <3>1, <3>2, GotoLocal DEF RestoreFails, lockVars
  <2> QED BY <2>1, <2>2
<1>7. CASE DryRunDone(p)
  BY <1>7, ReleaseLocal DEF DryRunDone
<1>8. CASE EnterMaintenance(p)
  <2>1. Goto(p, "drop") /\ task[p].pc = "ready"
    BY <1>8 DEF EnterMaintenance
  <2>2. /\ ShapeOf(Moved(p, "drop"))
        /\ Holds(Moved(p, "drop")) <=> Holds(task[p])
        /\ ~Deleting(Moved(p, "drop"))
    BY <1>b, <2>1, MovedFields DEF ShapeOf, Holds, Deleting, BackupSteps, DeleteSteps, RestoreSteps
  <2> QED BY <1>8, <2>1, <2>2, GotoLocal DEF EnterMaintenance, lockVars
<1>9. CASE DropSchema(p)
  <2>1. Goto(p, "pgrestore") /\ task[p].pc = "drop"
    BY <1>9 DEF DropSchema
  <2>2. /\ ShapeOf(Moved(p, "pgrestore"))
        /\ Holds(Moved(p, "pgrestore")) <=> Holds(task[p])
        /\ ~Deleting(Moved(p, "pgrestore"))
    BY <1>b, <2>1, MovedFields DEF ShapeOf, Holds, Deleting, BackupSteps, DeleteSteps, RestoreSteps
  <2> QED BY <1>9, <2>1, <2>2, GotoLocal DEF DropSchema, lockVars
<1>10. CASE PgRestore(p)
  <2>1. Goto(p, "migrate") /\ task[p].pc = "pgrestore"
    BY <1>10 DEF PgRestore
  <2>2. /\ ShapeOf(Moved(p, "migrate"))
        /\ Holds(Moved(p, "migrate")) <=> Holds(task[p])
        /\ ~Deleting(Moved(p, "migrate"))
    BY <1>b, <2>1, MovedFields DEF ShapeOf, Holds, Deleting, BackupSteps, DeleteSteps, RestoreSteps
  <2> QED BY <1>10, <2>1, <2>2, GotoLocal DEF PgRestore, lockVars
<1>11. CASE Migrate(p)
  <2>1. Goto(p, "exit") /\ task[p].pc = "migrate"
    BY <1>11 DEF Migrate
  <2>2. /\ ShapeOf(Moved(p, "exit"))
        /\ Holds(Moved(p, "exit")) <=> Holds(task[p])
        /\ ~Deleting(Moved(p, "exit"))
    BY <1>b, <2>1, MovedFields DEF ShapeOf, Holds, Deleting, BackupSteps, DeleteSteps, RestoreSteps
  <2> QED BY <1>11, <2>1, <2>2, GotoLocal DEF Migrate, lockVars
<1>12. CASE ExitMaintenance(p)
  <2>1. Goto(p, "cleanup") /\ task[p].pc = "exit"
    BY <1>12 DEF ExitMaintenance
  <2>2. /\ ShapeOf(Moved(p, "cleanup"))
        /\ Holds(Moved(p, "cleanup")) <=> Holds(task[p])
        /\ ~Deleting(Moved(p, "cleanup"))
    BY <1>b, <2>1, MovedFields DEF ShapeOf, Holds, Deleting, BackupSteps, DeleteSteps, RestoreSteps
  <2> QED BY <1>12, <2>1, <2>2, GotoLocal DEF ExitMaintenance, lockVars
<1>13. CASE ReplaceFails(p)
  <2>1. Goto(p, "unmaint") /\ task[p].pc \in {"drop", "pgrestore", "migrate", "exit"}
    BY <1>13 DEF ReplaceFails
  <2>2. /\ ShapeOf(Moved(p, "unmaint"))
        /\ Holds(Moved(p, "unmaint")) <=> Holds(task[p])
        /\ ~Deleting(Moved(p, "unmaint"))
    BY <1>b, <2>1, MovedFields DEF ShapeOf, Holds, Deleting, BackupSteps, DeleteSteps, RestoreSteps
  <2> QED BY <1>13, <2>1, <2>2, GotoLocal DEF ReplaceFails, lockVars
<1>14. CASE RestoreCleanup(p)
  <2>1. Goto(p, "record") /\ task[p].pc = "cleanup"
    BY <1>14 DEF RestoreCleanup
  <2>2. /\ ShapeOf(Moved(p, "record"))
        /\ Holds(Moved(p, "record")) <=> Holds(task[p])
        /\ ~Deleting(Moved(p, "record"))
    BY <1>b, <2>1, MovedFields DEF ShapeOf, Holds, Deleting, BackupSteps, DeleteSteps, RestoreSteps
  <2> QED BY <1>14, <2>1, <2>2, GotoLocal DEF RestoreCleanup, lockVars
<1>15. CASE RestoreRecord(p)
  BY <1>15, ReleaseLocal DEF RestoreRecord
<1>16. CASE LeaveMaintenance(p)
  <2>1. Goto(p, "cleanup") /\ task[p].pc = "unmaint"
    BY <1>16 DEF LeaveMaintenance
  <2>2. /\ ShapeOf(Moved(p, "cleanup"))
        /\ Holds(Moved(p, "cleanup")) <=> Holds(task[p])
        /\ ~Deleting(Moved(p, "cleanup"))
    BY <1>b, <2>1, MovedFields DEF ShapeOf, Holds, Deleting, BackupSteps, DeleteSteps, RestoreSteps
  <2> QED BY <1>16, <2>1, <2>2, GotoLocal DEF LeaveMaintenance, lockVars
<1> QED BY <1>1, <1>2, <1>3, <1>4, <1>5, <1>6, <1>7, <1>8, <1>9, <1>10, <1>11, <1>12,
           <1>13, <1>14, <1>15, <1>16 DEF RestoreStep

LEMMA RequestsLocal ==
  ASSUME TypeOK, LockMatchesTask, TaskShape, NEW p \in Procs,
         \/ \E kind \in Kinds, id \in ArtIds \cup {None} : Request(p, kind, id)
         \/ Check(p) \/ CheckRefuses(p) \/ Cancel(p)
  PROVE  LocalStep(p)
<1>a. task[p] \in Task
  BY DEF TypeOK
<1>b. ShapeOf(task[p])
  BY DEF TaskShape
<1>1. ASSUME NEW kind \in Kinds, NEW id \in ArtIds \cup {None}, Request(p, kind, id)
      PROVE  LocalStep(p)
  <2> DEFINE t == [Idle EXCEPT !.kind = kind, !.pc = "check", !.art = id]
  <2>1. t.kind = kind /\ t.pc = "check" /\ t.art = id
    BY DEF Idle
  <2>2. kind \in {"delete", "restore", "dryrun"} => id \in ArtIds
    BY <1>1 DEF Request
  <2>3. ShapeOf(t) /\ ~Holds(t) /\ ~Deleting(t)
    BY <2>1, <2>2 DEF ShapeOf, Holds, Deleting, BackupSteps, DeleteSteps, RestoreSteps
  <2>4. task' = [task EXCEPT ![p] = t] /\ op' = [op EXCEPT ![p] = LockName(kind)] /\ op[p] = ""
    BY <1>1 DEF Request, BeginPipeline
  <2>5. ~Holds(task[p])
    <3>1. task[p].kind = "none"
      <4>1. CASE task[p].kind # "none"
        <5>1. task[p].kind \in Kinds /\ LockName(task[p].kind) = ""
          BY <1>a, <2>4, <4>1 DEF LockMatchesTask, Task
        <5> QED BY <5>1 DEF LockName, Kinds
      <4> QED BY <4>1
    <3>2. task[p].pc = "idle"
      BY <3>1 DEF LockMatchesTask
    <3> QED BY <3>2 DEF Holds
  <2> HIDE DEF t
  <2>6. task'[p] = t /\ op'[p] = LockName(kind) /\ slots'[p] = 0
    BY <1>1, <2>4, <2>5 DEF TypeOK, LockMatchesTask, Request
  <2>7. kind # "none"
    BY DEF Kinds
  <2>8. Agrees(t, LockName(kind), 0)
    BY <2>1, <2>3, <2>7 DEF Agrees
  <2>9. \A q \in Procs \ {p} : task'[q] = task[q] /\ op'[q] = op[q] /\ slots'[q] = slots[q]
    <3>1. slots' = slots
      BY <1>1 DEF Request
    <3>2. task \in [Procs -> Task] /\ op \in [Procs -> {"", "backup", "delete", "restore"}]
      BY DEF TypeOK
    <3> QED BY <2>4, <3>1, <3>2
  <2>10. downloads' = downloads /\ dl' = dl
    BY <1>1 DEF Request
  <2>11. Agrees(task'[p], op'[p], slots'[p])
    BY <2>6, <2>8
  <2>12. ShapeOf(task'[p]) /\ ~Deleting(task'[p])
    BY <2>3, <2>6
  <2> QED BY <2>9, <2>10, <2>11, <2>12 DEF LocalStep
<1>2. CASE Check(p)
  <2>1. CASE task[p].chk < 2
    <3> DEFINE t == [task[p] EXCEPT !.chk = @ + 1]
    <3>1. task[p].pc = "check" /\ task' = [task EXCEPT ![p] = t]
      BY <1>2, <2>1 DEF Check
    <3>2. t.pc = "check" /\ t.kind = task[p].kind /\ t.art = task[p].art
      BY <1>a, <3>1 DEF Task
    <3>3. ShapeOf(t) /\ (Holds(t) <=> Holds(task[p])) /\ ~Deleting(t)
      BY <1>b, <3>1, <3>2 DEF ShapeOf, Holds, Deleting, BackupSteps, DeleteSteps, RestoreSteps
    <3> HIDE DEF t
    <3> QED BY <1>2, <3>1, <3>2, <3>3, MoveLocal DEF Check, lockVars
  <2>2. CASE ~(task[p].chk < 2)
    <3> DEFINE next == FirstStep(task[p].kind)
               t == [task[p] EXCEPT !.chk = 3, !.pc = next]
    <3>1. task[p].pc = "check" /\ task' = [task EXCEPT ![p] = t]
      BY <1>2, <2>2 DEF Check
    <3>2. task[p].kind \in Kinds
      BY <1>a, <3>1 DEF LockMatchesTask, Task
    <3>3. t.pc = next /\ t.kind = task[p].kind /\ t.art = task[p].art
      BY <1>a DEF Task
    <3>4. /\ task[p].kind \in {"backup", "auto"} => next = "create"
          /\ task[p].kind = "import" => next = "write"
          /\ task[p].kind = "delete" => next = "busy"
          /\ task[p].kind \in {"restore", "dryrun"} => next = "queue"
      BY DEF FirstStep
    <3> HIDE DEF next, t
    <3>5. ShapeOf(t) /\ (Holds(t) <=> Holds(task[p])) /\ ~Deleting(t) /\ t.pc # "idle"
      BY <1>b, <3>1, <3>2, <3>3, <3>4
      DEF ShapeOf, Holds, Deleting, BackupSteps, DeleteSteps, RestoreSteps, Kinds
    <3> QED BY <1>2, <3>1, <3>3, <3>5, MoveLocal DEF Check, lockVars
  <2> QED BY <2>1, <2>2
<1>3. CASE CheckRefuses(p)
  BY <1>3, ReleaseLocal DEF CheckRefuses
<1>4. CASE Cancel(p)
  <2> DEFINE t == [task[p] EXCEPT !.live = FALSE]
  <2>1. task' = [task EXCEPT ![p] = t] /\ task[p].pc # "idle"
    BY <1>4 DEF Cancel, LockMatchesTask
  <2>2. /\ t.pc = task[p].pc /\ t.kind = task[p].kind
        /\ t.art = task[p].art /\ t.file = task[p].file
    BY <1>a DEF Task
  <2>3. ShapeOf(t) /\ (Holds(t) <=> Holds(task[p])) /\ (Deleting(t) <=> Deleting(task[p]))
    BY <1>b, <2>2 DEF ShapeOf, Holds, Deleting, BackupSteps, DeleteSteps, RestoreSteps
  <2> HIDE DEF t
  <2> QED BY <1>4, <2>1, <2>2, <2>3, MoveLocal DEF Cancel, lockVars
<1> QED BY <1>1, <1>2, <1>3, <1>4

-----------------------------------------------------------------------------
(***************************************************************************)
(* The inductive invariant.                                                *)
(***************************************************************************)
\* The downloads of artifact i in progress in process p.
Counting(p, i) == {c \in Clients : /\ dl[c].pc \in {"begun", "open"}
                                   /\ dl[c].proc = p /\ dl[c].art = i}

LEMMA CountingFinite ==
  ASSUME NEW p, NEW i
  PROVE  IsFiniteSet(Counting(p, i)) /\ Cardinality(Counting(p, i)) \in Nat
<1>1. Counting(p, i) \subseteq Clients
  BY DEF Counting
<1> QED BY <1>1, ClientsAssumption, FS_Subset, FS_CardinalityType

LEMMA LocalPreserves ==
  ASSUME IInv, NEW p \in Procs, LocalStep(p)
  PROVE  /\ TaskShape' /\ DlShape' /\ LockMatchesTask'
         /\ DownloadsCounted' /\ DeleteSparesDownloads'
<1>1. TaskShape'
  BY DEF IInv, LocalStep, TaskShape, ShapeOf
<1>2. DlShape' /\ DownloadsCounted'
  BY DEF IInv, LocalStep, DlShape, DownloadsCounted
<1>3. LockMatchesTask'
  BY DEF IInv, LocalStep, LockMatchesTask, Agrees
<1>4. DeleteSparesDownloads'
  <2> SUFFICES ASSUME NEW c \in Clients, NEW q \in Procs,
                      dl'[c].pc \in {"begun", "open"}, dl'[c].proc = q, Deleting(task'[q])
               PROVE  task'[q].art # dl'[c].art
    BY DEF DeleteSparesDownloads, Deleting
  <2>1. dl' = dl
    BY DEF LocalStep
  <2>2. CASE Deleting(task[q]) /\ task[q].art = task'[q].art
    BY <2>1, <2>2 DEF IInv, DeleteSparesDownloads, Deleting
  <2>3. CASE ~(downloads[q][task'[q].art] > 0) /\ task'[q].art \in ArtIds
    <3> DEFINE i == task'[q].art
    <3>1. Cardinality(Counting(q, i)) = 0
      <4>1. downloads[q][i] = Cardinality(Counting(q, i))
        BY <2>3 DEF IInv, DownloadsCounted, Counting
      <4>2. Cardinality(Counting(q, i)) \in Nat
        BY CountingFinite
      <4> QED BY <2>3, <4>1, <4>2
    <3>2. Counting(q, task'[q].art) = {}
      BY <3>1, CountingFinite, FS_EmptySet
    <3> QED BY <2>1, <3>2 DEF Counting
  <2>4. q = p => ShapeOf(task'[q])
    BY DEF LocalStep
  <2>5. q = p => task'[q].art \in ArtIds
    BY <2>4 DEF ShapeOf, Deleting
  <2>6. q # p => task'[q] = task[q]
    BY DEF LocalStep
  <2> QED BY <2>2, <2>3, <2>5, <2>6 DEF LocalStep
<1> QED BY <1>1, <1>2, <1>3, <1>4

LEMMA DownloadPreserves ==
  ASSUME IInv, NEW c \in Clients,
         \/ \E p \in Procs, id \in ArtIds : GetForDownload(c, p, id)
         \/ DownloadStep(c)
  PROVE  /\ TaskShape' /\ DlShape' /\ LockMatchesTask'
         /\ DownloadsCounted' /\ DeleteSparesDownloads'
<1>a. /\ dl \in [Clients -> [pc : {"idle", "got", "begun", "open"}, proc : Procs,
                            art : ArtIds \cup {None}, file : Files \cup {None}]]
      /\ downloads \in [Procs -> [ArtIds -> Nat]]
  BY DEF IInv, TypeOK
<1>b. \A p \in Procs, i \in ArtIds : downloads[p][i] = Cardinality(Counting(p, i))
  BY DEF IInv, DownloadsCounted, Counting
<1>c. dl[c].pc # "idle" => dl[c].art \in ArtIds
  BY DEF IInv, DlShape
<1>1. task' = task /\ op' = op /\ slots' = slots
  BY DEF DownloadStep, GetForDownload, BeginDownload, OpenDownload, CloseDownload, lockVars
<1>2. TaskShape' /\ LockMatchesTask'
  BY <1>1 DEF IInv, TaskShape, ShapeOf, LockMatchesTask
<1>3. \A b \in Clients \ {c} : dl'[b] = dl[b]
  BY <1>a DEF DownloadStep, GetForDownload, BeginDownload, OpenDownload, CloseDownload, EndDownload
<1>4. /\ dl'[c].pc # "idle" => dl'[c].art \in ArtIds
      /\ dl'[c].pc \in {"begun", "open"} =>
           /\ dl'[c].proc = dl[c].proc /\ dl'[c].art = dl[c].art
           /\ dl[c].pc \in {"begun", "open"} \/ op[dl[c].proc] \notin {"delete", "restore"}
  BY <1>a, <1>c DEF DownloadStep, GetForDownload, BeginDownload, OpenDownload, CloseDownload,
                    EndDownload, DlIdle
<1>5. DlShape'
  BY <1>3, <1>4 DEF IInv, DlShape
<1>6. DeleteSparesDownloads'
  <2>1. \A p \in Procs : task[p].kind = "delete" => op[p] = "delete"
    BY DEF IInv, LockMatchesTask, LockName
  <2> QED BY <1>1, <1>3, <1>4, <2>1 DEF IInv, DeleteSparesDownloads
<1>7. ASSUME EndDownload(c), dl[c].pc \in {"begun", "open"}
      PROVE  DownloadsCounted'
  <2> DEFINE q == dl[c].proc
             j == dl[c].art
  <2>1. q \in Procs /\ j \in ArtIds /\ c \in Counting(q, j)
    BY <1>7, <1>a, <1>c DEF Counting
  <2>2. dl'[c].pc = "idle"
    BY <1>7, <1>a DEF EndDownload, DlIdle
  <2>3. \A p \in Procs, i \in ArtIds : Counting(p, i)' = Counting(p, i) \ {c}
    BY <1>3, <2>2 DEF Counting
  <2>4. Cardinality(Counting(q, j) \ {c}) = Cardinality(Counting(q, j)) - 1
    BY <2>1, CountingFinite, FS_RemoveElement
  <2>5. \A p \in Procs, i \in ArtIds : p # q \/ i # j => Counting(p, i) \ {c} = Counting(p, i)
    BY DEF Counting
  <2>6. ASSUME NEW p \in Procs, NEW i \in ArtIds
        PROVE  downloads'[p][i] = Cardinality(Counting(p, i)')
    <3>1. CASE p # q \/ i # j
      <4>1. downloads'[p][i] = downloads[p][i]
        BY <1>7, <1>a, <3>1 DEF EndDownload
      <4>2. Counting(p, i)' = Counting(p, i)
        BY <2>3, <2>5, <3>1
      <4>3. downloads[p][i] = Cardinality(Counting(p, i))
        BY <1>b
      <4> QED BY ONLY <4>1, <4>2, <4>3
    <3>2. CASE p = q /\ i = j
      <4>1. downloads'[q][j] = IF downloads[q][j] <= 1 THEN 0 ELSE downloads[q][j] - 1
        BY <1>7, <1>a, <2>1 DEF EndDownload
      <4>2. downloads[q][j] = Cardinality(Counting(q, j)) /\ downloads[q][j] \in Nat
        BY <1>a, <1>b, <2>1
      <4>3. Cardinality(Counting(q, j) \ {c}) \in Nat
        BY CountingFinite, FS_RemoveElement, FS_CardinalityType
      <4>4. downloads[q][j] - 1 \in Nat
        BY <2>4, <4>2, <4>3
      <4>5. downloads'[q][j] = downloads[q][j] - 1
        BY <4>1, <4>2, <4>4
      <4> QED BY <2>1, <2>3, <2>4, <3>2, <4>2, <4>5
    <3> QED BY <3>1, <3>2
  <2> QED BY <2>6 DEF DownloadsCounted, Counting
<1>8. DownloadsCounted'
  <2>1. ASSUME downloads' = downloads,
               dl'[c].pc \in {"begun", "open"} <=> dl[c].pc \in {"begun", "open"}
        PROVE  DownloadsCounted'
    <3>1. \A p \in Procs, i \in ArtIds : Counting(p, i)' = Counting(p, i)
      BY <1>3, <1>4, <2>1 DEF Counting
    <3> QED BY <1>b, <2>1, <3>1 DEF DownloadsCounted, Counting
  <2>2. ASSUME NEW p \in Procs, NEW id \in ArtIds, GetForDownload(c, p, id)
        PROVE  DownloadsCounted'
    BY <1>a, <2>1, <2>2 DEF GetForDownload
  <2>3. CASE BeginDownload(c)
    <3>1. CASE op[dl[c].proc] \in {"delete", "restore"}
      BY <1>a, <2>1, <2>3, <3>1 DEF BeginDownload, DlIdle
    <3>2. CASE op[dl[c].proc] \notin {"delete", "restore"}
      <4> DEFINE q == dl[c].proc
                 j == dl[c].art
      <4>1. /\ dl[c].pc = "got" /\ dl'[c].pc = "begun"
            /\ downloads' = [downloads EXCEPT ![q][j] = @ + 1]
        BY <1>a, <2>3, <3>2 DEF BeginDownload
      <4>2. q \in Procs /\ j \in ArtIds /\ c \notin Counting(q, j)
        BY <1>a, <1>c, <4>1 DEF Counting
      <4>3. \A p \in Procs, i \in ArtIds :
              Counting(p, i)' = IF p = q /\ i = j THEN Counting(p, i) \cup {c} ELSE Counting(p, i)
        BY <1>3, <1>4, <4>1 DEF Counting
      <4>4. Cardinality(Counting(q, j) \cup {c}) = Cardinality(Counting(q, j)) + 1
        BY <4>2, CountingFinite, FS_AddElement
      <4>5. ASSUME NEW p \in Procs, NEW i \in ArtIds
            PROVE  downloads'[p][i] = Cardinality(Counting(p, i)')
        <5>1. CASE p = q /\ i = j
          <6>1. downloads'[q][j] = downloads[q][j] + 1
            BY <1>a, <4>1, <4>2
          <6> QED BY <1>b, <4>2, <4>3, <4>4, <5>1, <6>1
        <5>2. CASE p # q \/ i # j
          <6>1. downloads'[p][i] = downloads[p][i]
            BY <1>a, <4>1, <5>2
          <6>2. Counting(p, i)' = Counting(p, i)
            BY <4>3, <5>2
          <6>3. downloads[p][i] = Cardinality(Counting(p, i))
            BY <1>b
          <6> QED BY ONLY <6>1, <6>2, <6>3
        <5> QED BY <5>1, <5>2
      <4> QED BY <4>5 DEF DownloadsCounted, Counting
    <3> QED BY <3>1, <3>2
  <2>4. CASE OpenDownload(c)
    <3>1. CASE dl[c].file \in files
      BY <1>a, <2>1, <2>4, <3>1 DEF OpenDownload
    <3>2. CASE dl[c].file \notin files
      BY <1>7, <2>4, <3>2 DEF OpenDownload
    <3> QED BY <3>1, <3>2
  <2>5. CASE CloseDownload(c)
    BY <1>7, <2>5 DEF CloseDownload
  <2> QED BY <2>2, <2>3, <2>4, <2>5 DEF DownloadStep
<1> QED BY <1>2, <1>5, <1>6, <1>8

LEMMA RestartPreserves ==
  ASSUME IInv, NEW p \in Procs, Restart(p)
  PROVE  /\ TaskShape' /\ DlShape' /\ LockMatchesTask'
         /\ DownloadsCounted' /\ DeleteSparesDownloads'
<1>a. /\ task' = [task EXCEPT ![p] = Idle] /\ op' = [op EXCEPT ![p] = ""]
      /\ slots' = [slots EXCEPT ![p] = 0]
      /\ downloads' = [downloads EXCEPT ![p] = [i \in ArtIds |-> 0]]
      /\ dl' = [c \in Clients |-> IF dl[c].proc = p THEN DlIdle ELSE dl[c]]
  BY DEF Restart
<1>b. /\ task \in [Procs -> Task]
      /\ op \in [Procs -> {"", "backup", "delete", "restore"}]
      /\ slots \in [Procs -> 0 .. MaxParallel]
      /\ downloads \in [Procs -> [ArtIds -> Nat]]
  BY DEF IInv, TypeOK
<1>c. /\ task'[p] = Idle /\ op'[p] = "" /\ slots'[p] = 0
      /\ \A q \in Procs \ {p} : task'[q] = task[q] /\ op'[q] = op[q] /\ slots'[q] = slots[q]
  BY <1>a, <1>b
<1>1. TaskShape'
  <2>1. ShapeOf(Idle)
    BY DEF ShapeOf, Idle, BackupSteps, DeleteSteps, RestoreSteps
  <2>2. \A q \in Procs : ShapeOf(task'[q])
    BY <1>c, <2>1 DEF IInv, TaskShape
  <2> QED BY <2>2 DEF TaskShape, ShapeOf
<1>2. DlShape'
  BY <1>a DEF IInv, DlShape, DlIdle
<1>3. LockMatchesTask'
  <2>1. Agrees(Idle, "", 0)
    BY DEF Agrees, Idle, Holds
  <2>2. \A q \in Procs : Agrees(task[q], op[q], slots[q])
    BY DEF IInv, LockMatchesTask, Agrees
  <2>3. \A q \in Procs : Agrees(task'[q], op'[q], slots'[q])
    BY ONLY <1>c, <2>1, <2>2, p \in Procs
  <2> QED BY <2>3 DEF LockMatchesTask, Agrees
<1>4. DownloadsCounted'
  <2>1. ASSUME NEW i \in ArtIds
        PROVE  Counting(p, i)' = {}
    BY <1>a DEF Counting, DlIdle
  <2>2. ASSUME NEW q \in Procs \ {p}, NEW i \in ArtIds
        PROVE  Counting(q, i)' = Counting(q, i)
    BY <1>a DEF Counting, DlIdle
  <2>3. ASSUME NEW q \in Procs, NEW i \in ArtIds
        PROVE  downloads'[q][i] = Cardinality(Counting(q, i)')
    <3>1. CASE q = p
      <4>1. downloads'[p][i] = 0
        BY <1>a, <1>b
      <4> QED BY <2>1, <3>1, <4>1, FS_EmptySet
    <3>2. CASE q # p
      <4>1. downloads'[q][i] = downloads[q][i]
        BY <1>a, <1>b, <3>2
      <4>2. downloads[q][i] = Cardinality(Counting(q, i))
        BY DEF IInv, DownloadsCounted, Counting
      <4> QED BY <2>2, <3>2, <4>1, <4>2
    <3> QED BY <3>1, <3>2
  <2> QED BY <2>3 DEF DownloadsCounted, Counting
<1>5. DeleteSparesDownloads'
  <2>1. Idle.kind = "none"
    BY DEF Idle
  <2>2. DlIdle.pc = "idle"
    BY DEF DlIdle
  <2>3. \A c \in Clients : dl'[c] = DlIdle \/ dl'[c] = dl[c]
    BY <1>a
  <2>4. \A q \in Procs : task'[q] = Idle \/ task'[q] = task[q]
    BY <1>c
  <2> QED BY <2>1, <2>2, <2>3, <2>4 DEF IInv, DeleteSparesDownloads
<1> QED BY <1>1, <1>2, <1>3, <1>4, <1>5

LEMMA InitInvariant == Init => IInv
<1> SUFFICES ASSUME Init PROVE IInv
  OBVIOUS
<1>a. /\ task = [p \in Procs |-> Idle] /\ dl = [c \in Clients |-> DlIdle]
      /\ op = [p \in Procs |-> ""] /\ slots = [p \in Procs |-> 0]
      /\ downloads = [p \in Procs |-> [i \in ArtIds |-> 0]]
  BY DEF Init
<1>1. TypeOK
  <2>1. RetIdle \in [pc : {"idle", "list", "remove", "unlist"}, todo : SUBSET (ArtIds \X Files),
                     art : ArtIds \cup {None}, file : Files \cup {None}]
    BY DEF RetIdle, None
  <2>2. DlIdle \in [pc : {"idle", "got", "begun", "open"}, proc : Procs,
                    art : ArtIds \cup {None}, file : Files \cup {None}]
    BY ProcsAssumption DEF DlIdle, None
  <2>3. 0 \in 0 .. MaxFiles /\ 0 \in 0 .. MaxParallel
    BY BoundsAssumption, LimitsAssumption
  <2> QED BY <2>1, <2>2, <2>3, IdleType, EmptyDatabaseType DEF Init, TypeOK
<1>2. TaskShape
  BY <1>a DEF TaskShape, ShapeOf, Idle, BackupSteps, DeleteSteps, RestoreSteps
<1>3. DlShape
  BY <1>a DEF DlShape, DlIdle
<1>4. LockMatchesTask
  BY <1>a DEF LockMatchesTask, Idle, Holds
<1>5. DownloadsCounted
  <2>1. \A p \in Procs, i \in ArtIds : Counting(p, i) = {} /\ downloads[p][i] = 0
    BY <1>a DEF Counting, DlIdle
  <2>2. \A p \in Procs, i \in ArtIds : downloads[p][i] = Cardinality(Counting(p, i))
    BY <2>1, FS_EmptySet
  <2> QED BY <2>2 DEF DownloadsCounted, Counting
<1>6. DeleteSparesDownloads
  BY <1>a DEF DeleteSparesDownloads, Idle
<1> QED BY <1>1, <1>2, <1>3, <1>4, <1>5, <1>6 DEF IInv

\* Every step keeps the inductive invariant.
LEMMA StepInvariant == IInv /\ [Next]_vars => IInv'
<1> SUFFICES ASSUME IInv, [Next]_vars PROVE IInv'
  OBVIOUS
<1>a. TypeOK /\ LockMatchesTask /\ TaskShape
  BY DEF IInv
<1> DEFINE Rest == /\ TaskShape' /\ DlShape' /\ LockMatchesTask'
                   /\ DownloadsCounted' /\ DeleteSparesDownloads'
<1>1. ASSUME NEW p \in Procs, NEW kind \in Kinds, NEW id \in ArtIds \cup {None},
             Request(p, kind, id)
      PROVE  TypeOK' /\ Rest
  BY <1>1, <1>a, RequestsType, RequestsLocal, LocalPreserves
<1>2. ASSUME NEW p \in Procs, TaskStep(p)
      PROVE  TypeOK' /\ Rest
  <2>1. CASE Check(p) \/ CheckRefuses(p)
    BY <2>1, <1>a, RequestsType, RequestsLocal, LocalPreserves
  <2>2. CASE BackupStep(p)
    BY <2>2, <1>a, BackupType, BackupLocal, LocalPreserves
  <2>3. CASE ImportStep(p)
    BY <2>3, <1>a, ImportType, ImportLocal, LocalPreserves
  <2>4. CASE DeleteStep(p)
    BY <2>4, <1>a, DeleteType, DeleteLocal, LocalPreserves
  <2>5. CASE RestoreStep(p)
    BY <2>5, <1>a, RestoreType, RestoreLocal, LocalPreserves
  <2> QED BY <1>2, <2>1, <2>2, <2>3, <2>4, <2>5 DEF TaskStep
<1>3. ASSUME NEW p \in Procs, Cancel(p)
      PROVE  TypeOK' /\ Rest
  BY <1>3, <1>a, RequestsType, RequestsLocal, LocalPreserves
<1>4. ASSUME NEW p \in Procs, Restart(p)
      PROVE  TypeOK' /\ Rest
  BY <1>4, <1>a, RestartType, RestartPreserves
<1>5. ASSUME NEW c \in Clients,
             \/ \E p \in Procs, id \in ArtIds : GetForDownload(c, p, id)
             \/ DownloadStep(c)
      PROVE  TypeOK' /\ Rest
  BY <1>5, <1>a, DownloadType, DownloadPreserves
<1>6. ASSUME task' = task, op' = op, slots' = slots, downloads' = downloads, dl' = dl
      PROVE  Rest
  <2>1. TaskShape' /\ DlShape'
    BY <1>6 DEF IInv, TaskShape, ShapeOf, DlShape
  <2>2. LockMatchesTask'
    BY <1>6 DEF IInv, LockMatchesTask
  <2>3. DownloadsCounted' /\ DeleteSparesDownloads'
    BY <1>6 DEF IInv, DownloadsCounted, DeleteSparesDownloads
  <2> QED BY <2>1, <2>2, <2>3
<1>7. CASE RetentionStep
  <2>1. TypeOK'
    BY <1>7, <1>a, RetentionType
  <2>2. task' = task /\ op' = op /\ slots' = slots /\ downloads' = downloads /\ dl' = dl
    BY <1>7 DEF RetentionStep, ListSuccessfulArtifacts, RetentionRemove, RetentionUnlist, lockVars
  <2> QED BY <2>1, <2>2, <1>6 DEF IInv
<1>8. CASE UNCHANGED vars
  <2>1. TypeOK'
    BY <1>8, <1>a DEF TypeOK, vars
  <2>2. task' = task /\ op' = op /\ slots' = slots /\ downloads' = downloads /\ dl' = dl
    BY <1>8 DEF vars
  <2> QED BY <2>1, <2>2, <1>6 DEF IInv
<1> HIDE DEF Rest
<1>9. CASE Next
  <2>1. (TypeOK' /\ Rest) \/ RetentionStep
    BY <1>9, <1>1, <1>2, <1>3, <1>4, <1>5 DEF Next
  <2>2. TypeOK' /\ Rest => IInv'
    BY DEF Rest, IInv
  <2> QED BY <2>1, <2>2, <1>7
<1> QED BY <1>8, <1>9

LEMMA Invariance == Spec => []IInv
BY InitInvariant, StepInvariant, PTL DEF Spec

\* Every variable keeps its type; above all the limiter's count stays between 0 and
\* its capacity, which no restart, error path or race with another process upsets.
THEOREM TypeCorrect == Spec => []TypeOK
BY Invariance, PTL DEF IInv

\* In every process the pipeline lock names the request in progress and the limiter
\* holds the token of that request and no other (beginPipeline, acquire, release).
THEOREM LockCorrect == Spec => []LockMatchesTask
BY Invariance, PTL DEF IInv

\* The download counter of an artifact is the number of its downloads in progress.
THEOREM DownloadsCorrect == Spec => []DownloadsCounted
BY Invariance, PTL DEF IInv

\* DeleteBackup never removes an artifact that its own process is downloading.
THEOREM DeleteSafe == Spec => []DeleteSparesDownloads
BY Invariance, PTL DEF IInv

-----------------------------------------------------------------------------
(***************************************************************************)
(* The maintenance mode.  RestoreShape: a dry run ends before it, so every *)
(* request beyond "ready" is a restore.                                    *)
(***************************************************************************)
Replacing(t) == t.pc \in {"drop", "pgrestore", "migrate", "exit", "unmaint"}
Ending(t) == t.pc \in {"cleanup", "record"}
RestoreOf(t) == Replacing(t) \/ Ending(t) => t.kind = "restore"
RestoreShape == \A p \in Procs : RestoreOf(task[p])

\* What a step of one request has to do with the maintenance mode: it turns it on, or
\* finds it on, only where its own request answers for it afterwards.
MaintStep(p) ==
  /\ \A q \in Procs \ {p} : task'[q] = task[q]
  /\ RestoreOf(task'[p])
  /\ up' /\ db'.maint => \/ Replacing(task'[p])
                         \/ up /\ db.maint /\ ~Replacing(task[p])

LEMMA MaintStepKeeps ==
  ASSUME RestoreShape, MaintenanceOnlyInRestore, NEW p \in Procs, MaintStep(p)
  PROVE  RestoreShape' /\ MaintenanceOnlyInRestore'
<1>1. RestoreShape'
  BY DEF RestoreShape, MaintStep
<1>2. ASSUME up', db'.maint
      PROVE  \E q \in Procs : task'[q].kind = "restore" /\ Replacing(task'[q])
  <2>1. CASE Replacing(task'[p])
    BY <2>1 DEF MaintStep, RestoreOf
  <2>2. CASE up /\ db.maint /\ ~Replacing(task[p])
    <3>1. PICK q \in Procs : task[q].kind = "restore" /\ Replacing(task[q])
      BY <2>2 DEF MaintenanceOnlyInRestore, Replacing
    <3>2. q # p
      BY <2>2, <3>1
    <3> QED BY <3>1, <3>2 DEF MaintStep
  <2> QED BY <1>2, <2>1, <2>2 DEF MaintStep
<1> QED BY <1>1, <1>2 DEF MaintenanceOnlyInRestore, Replacing

LEMMA BackupMaint ==
  ASSUME TypeOK, TaskShape, RestoreShape, NEW p \in Procs, BackupStep(p)
  PROVE  MaintStep(p)
<1>a. /\ task[p] \in Task /\ db \in Database /\ task \in [Procs -> Task]
      /\ RestoreOf(task[p])
  BY DEF TypeOK, RestoreShape
<1> USE DEF MaintStep, RestoreOf, Replacing, Ending, Release, Goto, Idle, Database, Task, dbVars, InsertArtifact, DeleteArtifact
<1>1. CASE CreateRun(p)
  BY <1>1, <1>a DEF CreateRun
<1>2. CASE CreateRunRefused(p)
  BY <1>2, <1>a DEF CreateRunRefused
<1>3. CASE StartRun(p)
  BY <1>3, <1>a DEF StartRun
<1>4. CASE Dump(p)
  BY <1>4, <1>a DEF Dump
<1>5. CASE Encrypt(p)
  BY <1>5, <1>a DEF Encrypt
<1>6. CASE CreateArtifact(p)
  BY <1>6, <1>a DEF CreateArtifact
<1>7. CASE AttachArtifact(p)
  BY <1>7, <1>a DEF AttachArtifact
<1>8. CASE FinishBackup(p)
  BY <1>8, <1>a DEF FinishBackup
<1>9. CASE FinishFails(p)
  BY <1>9, <1>a DEF FinishFails
<1>10. CASE BackupFails(p)
  BY <1>10, <1>a DEF BackupFails
<1> QED BY <1>1, <1>2, <1>3, <1>4, <1>5, <1>6, <1>7, <1>8, <1>9, <1>10 DEF BackupStep

LEMMA ImportMaint ==
  ASSUME TypeOK, TaskShape, RestoreShape, NEW p \in Procs, ImportStep(p)
  PROVE  MaintStep(p)
<1>a. /\ task[p] \in Task /\ db \in Database /\ task \in [Procs -> Task]
      /\ RestoreOf(task[p])
  BY DEF TypeOK, RestoreShape
<1> USE DEF MaintStep, RestoreOf, Replacing, Ending, Release, Goto, Idle, Database, Task, dbVars, InsertArtifact, DeleteArtifact
<1>1. CASE ImportWrite(p)
  BY <1>1, <1>a DEF ImportWrite
<1>2. CASE ImportArtifact(p)
  BY <1>2, <1>a DEF ImportArtifact
<1>3. CASE ImportFails(p)
  BY <1>3, <1>a DEF ImportFails
<1> QED BY <1>1, <1>2, <1>3 DEF ImportStep

LEMMA DeleteMaint ==
  ASSUME TypeOK, TaskShape, RestoreShape, NEW p \in Procs, DeleteStep(p)
  PROVE  MaintStep(p)
<1>a. /\ task[p] \in Task /\ db \in Database /\ task \in [Procs -> Task]
      /\ RestoreOf(task[p])
  BY DEF TypeOK, RestoreShape
<1> USE DEF MaintStep, RestoreOf, Replacing, Ending, Release, Goto, Idle, Database, Task, dbVars, InsertArtifact, DeleteArtifact
<1>1. CASE DeleteBusy(p)
  BY <1>1, <1>a DEF DeleteBusy
<1>2. CASE DeleteFind(p)
  BY <1>2, <1>a DEF DeleteFind
<1>3. CASE DeleteRemove(p)
  BY <1>3, <1>a DEF DeleteRemove
<1>4. CASE DeleteUnlist(p)
  BY <1>4, <1>a DEF DeleteUnlist
<1>5. CASE DeleteFails(p)
  BY <1>5, <1>a DEF DeleteFails
<1> QED BY <1>1, <1>2, <1>3, <1>4, <1>5 DEF DeleteStep

LEMMA RestoreMaint ==
  ASSUME TypeOK, TaskShape, RestoreShape, NEW p \in Procs, RestoreStep(p)
  PROVE  MaintStep(p)
<1>a. /\ task[p] \in Task /\ db \in Database /\ task \in [Procs -> Task]
      /\ RestoreOf(task[p])
  BY DEF TypeOK, RestoreShape
<1> USE DEF MaintStep, RestoreOf, Replacing, Ending, Release, Goto, Idle, Database, Task, dbVars, InsertArtifact, DeleteArtifact
<1>1. CASE QueueRestore(p)
  BY <1>1, <1>a DEF QueueRestore
<1>2. CASE QueueRestoreRefused(p)
  BY <1>2, <1>a DEF QueueRestoreRefused
<1>3. CASE ExecRestore(p)
  BY <1>3, <1>a DEF ExecRestore
<1>4. CASE RestoreLoad(p)
  BY <1>4, <1>a DEF RestoreLoad
<1>5. CASE RestoreOpen(p)
  BY <1>5, <1>a DEF RestoreOpen
<1>6. CASE RestoreFails(p)
  <2>1. task[p].kind \in {"restore", "dryrun"}
    BY <1>6 DEF RestoreFails, TaskShape, ShapeOf, RestoreSteps
  <2> QED BY <1>6, <1>a, <2>1 DEF RestoreFails
<1>7. CASE DryRunDone(p)
  BY <1>7, <1>a DEF DryRunDone
<1>8. CASE EnterMaintenance(p)
  BY <1>8, <1>a DEF EnterMaintenance
<1>9. CASE DropSchema(p)
  BY <1>9, <1>a DEF DropSchema
<1>10. CASE PgRestore(p)
  BY <1>10, <1>a DEF PgRestore
<1>11. CASE Migrate(p)
  BY <1>11, <1>a DEF Migrate
<1>12. CASE ExitMaintenance(p)
  BY <1>12, <1>a DEF ExitMaintenance
<1>13. CASE ReplaceFails(p)
  BY <1>13, <1>a DEF ReplaceFails
<1>14. CASE LeaveMaintenance(p)
  BY <1>14, <1>a DEF LeaveMaintenance
<1>15. CASE RestoreCleanup(p)
  BY <1>15, <1>a DEF RestoreCleanup
<1>16. CASE RestoreRecord(p)
  BY <1>16, <1>a DEF RestoreRecord
<1> QED BY <1>1, <1>2, <1>3, <1>4, <1>5, <1>6, <1>7, <1>8, <1>9, <1>10, <1>11, <1>12, <1>13, <1>14, <1>15, <1>16 DEF RestoreStep

LEMMA RequestsMaint ==
  ASSUME TypeOK, LockMatchesTask, TaskShape, RestoreShape, NEW p \in Procs,
         \/ \E kind \in Kinds, id \in ArtIds \cup {None} : Request(p, kind, id)
         \/ Check(p) \/ CheckRefuses(p) \/ Cancel(p)
  PROVE  MaintStep(p)
<1>a. /\ task[p] \in Task /\ db \in Database /\ task \in [Procs -> Task]
      /\ RestoreOf(task[p])
  BY DEF TypeOK, RestoreShape
<1> USE DEF MaintStep, RestoreOf, Replacing, Ending, Release, Idle, Database, Task, dbVars
<1>1. ASSUME NEW kind \in Kinds, NEW id \in ArtIds \cup {None}, Request(p, kind, id)
      PROVE  MaintStep(p)
  <2>1. task[p].pc = "idle"
    <3>1. op[p] = ""
      BY <1>1 DEF Request, BeginPipeline
    <3> QED BY <1>a, <3>1 DEF LockMatchesTask, LockName, Kinds
  <2> QED BY <1>1, <1>a, <2>1 DEF Request
<1>2. CASE Check(p)
  <2>1. task'[p].pc \in {"check", "create", "write", "busy", "queue"}
    <3>1. task[p].kind \in Kinds
      BY <1>2, <1>a DEF Check, LockMatchesTask
    <3> QED BY <1>2, <1>a, <3>1 DEF Check, FirstStep, Kinds
  <2> QED BY <1>2, <1>a, <2>1 DEF Check
<1>3. CASE CheckRefuses(p)
  BY <1>3, <1>a DEF CheckRefuses
<1>4. CASE Cancel(p)
  BY <1>4, <1>a DEF Cancel
<1> QED BY <1>1, <1>2, <1>3, <1>4

\* Downloads and the retention pass touch neither the requests nor the mode.
LEMMA OthersMaint ==
  ASSUME TypeOK, RestoreShape, MaintenanceOnlyInRestore,
         \/ \E c \in Clients : \/ \E p \in Procs, id \in ArtIds : GetForDownload(c, p, id)
                               \/ DownloadStep(c)
         \/ RetentionStep
         \/ UNCHANGED vars
  PROVE  RestoreShape' /\ MaintenanceOnlyInRestore'
<1>1. task' = task /\ up' = up
  BY DEF DownloadStep, GetForDownload, BeginDownload, OpenDownload, CloseDownload, dbVars,
         RetentionStep, ListSuccessfulArtifacts, RetentionRemove, RetentionUnlist, vars
<1>2. db'.maint = db.maint
  BY DEF DownloadStep, GetForDownload, BeginDownload, OpenDownload, CloseDownload, dbVars, vars,
         RetentionStep, ListSuccessfulArtifacts, RetentionRemove, RetentionUnlist, DeleteArtifact,
         TypeOK, Database
<1> QED BY <1>1, <1>2 DEF RestoreShape, RestoreOf, Replacing, Ending, MaintenanceOnlyInRestore

\* The mode is on only while a restore is between switching it on and its cleanup.
LEMMA MaintInvariance ==
  ASSUME "crash" \notin Faults
  PROVE  Spec => [](RestoreShape /\ MaintenanceOnlyInRestore)
<1> DEFINE Inv == RestoreShape /\ MaintenanceOnlyInRestore
<1>1. Init => Inv
  <2>1. ~EmptyDatabase.maint
    BY DEF EmptyDatabase
  <2>2. RestoreOf(Idle)
    BY DEF RestoreOf, Replacing, Ending, Idle
  <2> QED BY <2>1, <2>2 DEF Init, RestoreShape, MaintenanceOnlyInRestore
<1>2. IInv /\ Inv /\ [Next]_vars => Inv'
  <2> SUFFICES ASSUME IInv, Inv, [Next]_vars PROVE Inv'
    OBVIOUS
  <2>a. TypeOK /\ LockMatchesTask /\ TaskShape
    BY DEF IInv
  <2>1. ASSUME NEW p \in Procs, TaskStep(p) PROVE Inv'
    BY <2>1, <2>a, RequestsMaint, BackupMaint, ImportMaint, DeleteMaint, RestoreMaint,
       MaintStepKeeps DEF TaskStep
  <2>2. ASSUME NEW p \in Procs,
               \/ \E kind \in Kinds, id \in ArtIds \cup {None} : Request(p, kind, id)
               \/ Cancel(p)
        PROVE  Inv'
    BY <2>2, <2>a, RequestsMaint, MaintStepKeeps
  <2>3. ASSUME NEW p \in Procs, Restart(p) PROVE FALSE
    BY <2>3 DEF Restart
  <2> QED BY <2>a, <2>1, <2>2, <2>3, OthersMaint DEF Next
<1> QED BY <1>1, <1>2, Invariance, PTL DEF Spec

\* No path out of executeRestore leaves the maintenance mode on, in any number of processes
\* that share the database, with failing steps and ended contexts: only a process that dies
\* in a restore can.
THEOREM MaintenanceEnds ==
  ASSUME "crash" \notin Faults
  PROVE  Spec => []MaintenanceOnlyInRestore
BY MaintInvariance, PTL

-----------------------------------------------------------------------------
(***************************************************************************)
(* The active rows.  As long as no context ends, a request that leaves its *)
(* row behind has set its status, or the tables are gone: then they come   *)
(* back with a dump only, and the restore that loads it resets every row.  *)
(***************************************************************************)
AllLive == \A p \in Procs : task[p].live
OwnsRun(t, i) == BackupRow(t) /\ t.row = i
OwnsRest(t, i) == RestoreRow(t) /\ t.row = i

RowStep(p) ==
  /\ \A q \in Procs \ {p} : task'[q] = task[q]
  /\ task'[p].live
  /\ up' => up \/ Reloaded(task'[p])
  /\ up' /\ ~Reloaded(task'[p]) =>
       /\ \A i \in RunIds : db'.runs[i] = "active" =>
            \/ OwnsRun(task'[p], i)
            \/ ~Reloaded(task[p]) /\ db.runs[i] = "active" /\ ~OwnsRun(task[p], i)
       /\ \A i \in RestIds : db'.rests[i] = "active" =>
            \/ OwnsRest(task'[p], i)
            \/ ~Reloaded(task[p]) /\ db.rests[i] = "active" /\ ~OwnsRest(task[p], i)

LEMMA RowStepKeeps ==
  ASSUME AllLive, ActiveRowsOwned, NEW p \in Procs, RowStep(p)
  PROVE  AllLive' /\ ActiveRowsOwned'
<1>1. AllLive'
  BY DEF AllLive, RowStep
<1>2. ASSUME up', ~(\E q \in Procs : Reloaded(task'[q]))
      PROVE  /\ \A i \in RunIds : db'.runs[i] = "active" => \E q \in Procs : OwnsRun(task'[q], i)
             /\ \A i \in RestIds : db'.rests[i] = "active" => \E q \in Procs : OwnsRest(task'[q], i)
  <2>1. ~Reloaded(task'[p]) /\ up
    BY <1>2 DEF RowStep
  <2>2. \A q \in Procs \ {p} : ~Reloaded(task[q])
    BY <1>2 DEF RowStep
  <2>3. ASSUME ~Reloaded(task[p])
        PROVE  /\ \A i \in RunIds : db.runs[i] = "active" => \E q \in Procs : OwnsRun(task[q], i)
               /\ \A i \in RestIds : db.rests[i] = "active" => \E q \in Procs : OwnsRest(task[q], i)
    <3>1. \A q \in Procs : ~Reloaded(task[q])
      BY <2>2, <2>3
    <3> QED BY <2>1, <3>1 DEF ActiveRowsOwned, OwnsRun, OwnsRest
  <2>4. ASSUME NEW i \in RunIds, db'.runs[i] = "active"
        PROVE  \E q \in Procs : OwnsRun(task'[q], i)
    <3>1. CASE OwnsRun(task'[p], i)
      BY <3>1
    <3>2. CASE ~Reloaded(task[p]) /\ db.runs[i] = "active" /\ ~OwnsRun(task[p], i)
      <4>1. PICK q \in Procs : OwnsRun(task[q], i)
        BY <2>3, <3>2
      <4>2. q # p /\ task'[q] = task[q]
        BY <3>2, <4>1 DEF RowStep
      <4> QED BY <4>1, <4>2
    <3> QED BY <1>2, <2>1, <2>4, <3>1, <3>2 DEF RowStep
  <2>5. ASSUME NEW i \in RestIds, db'.rests[i] = "active"
        PROVE  \E q \in Procs : OwnsRest(task'[q], i)
    <3>1. CASE OwnsRest(task'[p], i)
      BY <3>1
    <3>2. CASE ~Reloaded(task[p]) /\ db.rests[i] = "active" /\ ~OwnsRest(task[p], i)
      <4>1. PICK q \in Procs : OwnsRest(task[q], i)
        BY <2>3, <3>2
      <4>2. q # p /\ task'[q] = task[q]
        BY <3>2, <4>1 DEF RowStep
      <4> QED BY <4>1, <4>2
    <3> QED BY <1>2, <2>1, <2>5, <3>1, <3>2 DEF RowStep
  <2> QED BY <2>4, <2>5
<1> QED BY <1>1, <1>2 DEF ActiveRowsOwned, OwnsRun, OwnsRest

LEMMA BackupRows ==
  ASSUME TypeOK, TaskShape, RestoreShape, AllLive, NEW p \in Procs, BackupStep(p)
  PROVE  RowStep(p)
<1>a. /\ task[p] \in Task /\ db \in Database /\ task \in [Procs -> Task]
      /\ task[p].live
  BY DEF TypeOK, AllLive
<1>b. ShapeOf(task[p]) /\ RestoreOf(task[p])
  BY DEF TaskShape, RestoreShape
<1> USE DEF RowStep, OwnsRun, OwnsRest, BackupRow, RestoreRow, Reloaded, Reaches, Release, Goto, Idle, Database, Task,
            dbVars, InsertArtifact, DeleteArtifact, SetStatus
<1>1. CASE CreateRun(p)
  BY <1>1, <1>a, <1>b DEF CreateRun, ShapeOf, BackupSteps, DeleteSteps, RestoreSteps, RestoreOf, Replacing, Ending
<1>2. CASE CreateRunRefused(p)
  BY <1>2, <1>a, <1>b DEF CreateRunRefused, ShapeOf, BackupSteps, DeleteSteps, RestoreSteps, RestoreOf, Replacing, Ending
<1>3. CASE StartRun(p)
  BY <1>3, <1>a, <1>b DEF StartRun, ShapeOf, BackupSteps, DeleteSteps, RestoreSteps, RestoreOf, Replacing, Ending
<1>4. CASE Dump(p)
  BY <1>4, <1>a, <1>b DEF Dump, ShapeOf, BackupSteps, DeleteSteps, RestoreSteps, RestoreOf, Replacing, Ending
<1>5. CASE Encrypt(p)
  BY <1>5, <1>a, <1>b DEF Encrypt, ShapeOf, BackupSteps, DeleteSteps, RestoreSteps, RestoreOf, Replacing, Ending
<1>6. CASE CreateArtifact(p)
  BY <1>6, <1>a, <1>b DEF CreateArtifact, ShapeOf, BackupSteps, DeleteSteps, RestoreSteps, RestoreOf, Replacing, Ending
<1>7. CASE AttachArtifact(p)
  BY <1>7, <1>a, <1>b DEF AttachArtifact, ShapeOf, BackupSteps, DeleteSteps, RestoreSteps, RestoreOf, Replacing, Ending
<1>8. CASE FinishBackup(p)
  BY <1>8, <1>a, <1>b DEF FinishBackup, ShapeOf, BackupSteps, DeleteSteps, RestoreSteps, RestoreOf, Replacing, Ending
<1>9. CASE FinishFails(p)
  BY <1>9, <1>a, <1>b DEF FinishFails, ShapeOf, BackupSteps, DeleteSteps, RestoreSteps, RestoreOf, Replacing, Ending
<1>10. CASE BackupFails(p)
  BY <1>10, <1>a, <1>b DEF BackupFails, ShapeOf, BackupSteps, DeleteSteps, RestoreSteps, RestoreOf, Replacing, Ending
<1> QED BY <1>1, <1>2, <1>3, <1>4, <1>5, <1>6, <1>7, <1>8, <1>9, <1>10 DEF BackupStep

LEMMA ImportRows ==
  ASSUME TypeOK, TaskShape, RestoreShape, AllLive, NEW p \in Procs, ImportStep(p)
  PROVE  RowStep(p)
<1>a. /\ task[p] \in Task /\ db \in Database /\ task \in [Procs -> Task]
      /\ task[p].live
  BY DEF TypeOK, AllLive
<1>b. ShapeOf(task[p]) /\ RestoreOf(task[p])
  BY DEF TaskShape, RestoreShape
<1> USE DEF RowStep, OwnsRun, OwnsRest, BackupRow, RestoreRow, Reloaded, Reaches, Release, Goto, Idle, Database, Task,
            dbVars, InsertArtifact, DeleteArtifact, SetStatus
<1>1. CASE ImportWrite(p)
  BY <1>1, <1>a, <1>b DEF ImportWrite, ShapeOf, BackupSteps, DeleteSteps, RestoreSteps, RestoreOf, Replacing, Ending
<1>2. CASE ImportArtifact(p)
  BY <1>2, <1>a, <1>b DEF ImportArtifact, ShapeOf, BackupSteps, DeleteSteps, RestoreSteps, RestoreOf, Replacing, Ending
<1>3. CASE ImportFails(p)
  BY <1>3, <1>a, <1>b DEF ImportFails, ShapeOf, BackupSteps, DeleteSteps, RestoreSteps, RestoreOf, Replacing, Ending
<1> QED BY <1>1, <1>2, <1>3 DEF ImportStep

LEMMA DeleteRows ==
  ASSUME TypeOK, TaskShape, RestoreShape, AllLive, NEW p \in Procs, DeleteStep(p)
  PROVE  RowStep(p)
<1>a. /\ task[p] \in Task /\ db \in Database /\ task \in [Procs -> Task]
      /\ task[p].live
  BY DEF TypeOK, AllLive
<1>b. ShapeOf(task[p]) /\ RestoreOf(task[p])
  BY DEF TaskShape, RestoreShape
<1> USE DEF RowStep, OwnsRun, OwnsRest, BackupRow, RestoreRow, Reloaded, Reaches, Release, Goto, Idle, Database, Task,
            dbVars, InsertArtifact, DeleteArtifact, SetStatus
<1>1. CASE DeleteBusy(p)
  BY <1>1, <1>a, <1>b DEF DeleteBusy, ShapeOf, BackupSteps, DeleteSteps, RestoreSteps, RestoreOf, Replacing, Ending
<1>2. CASE DeleteFind(p)
  BY <1>2, <1>a, <1>b DEF DeleteFind, ShapeOf, BackupSteps, DeleteSteps, RestoreSteps, RestoreOf, Replacing, Ending
<1>3. CASE DeleteRemove(p)
  BY <1>3, <1>a, <1>b DEF DeleteRemove, ShapeOf, BackupSteps, DeleteSteps, RestoreSteps, RestoreOf, Replacing, Ending
<1>4. CASE DeleteUnlist(p)
  BY <1>4, <1>a, <1>b DEF DeleteUnlist, ShapeOf, BackupSteps, DeleteSteps, RestoreSteps, RestoreOf, Replacing, Ending
<1>5. CASE DeleteFails(p)
  BY <1>5, <1>a, <1>b DEF DeleteFails, ShapeOf, BackupSteps, DeleteSteps, RestoreSteps, RestoreOf, Replacing, Ending
<1> QED BY <1>1, <1>2, <1>3, <1>4, <1>5 DEF DeleteStep

LEMMA RestoreRows ==
  ASSUME TypeOK, TaskShape, RestoreShape, AllLive, NEW p \in Procs, RestoreStep(p)
  PROVE  RowStep(p)
<1>a. /\ task[p] \in Task /\ db \in Database /\ task \in [Procs -> Task]
      /\ task[p].live
  BY DEF TypeOK, AllLive
<1>b. ShapeOf(task[p]) /\ RestoreOf(task[p])
  BY DEF TaskShape, RestoreShape
<1> USE DEF RowStep, OwnsRun, OwnsRest, BackupRow, RestoreRow, Reloaded, Reaches, Release, Goto, Idle, Database, Task,
            dbVars, InsertArtifact, DeleteArtifact, SetStatus
<1>1. CASE QueueRestore(p)
  BY <1>1, <1>a, <1>b DEF QueueRestore, ShapeOf, BackupSteps, DeleteSteps, RestoreSteps, RestoreOf, Replacing, Ending
<1>2. CASE QueueRestoreRefused(p)
  BY <1>2, <1>a, <1>b DEF QueueRestoreRefused, ShapeOf, BackupSteps, DeleteSteps, RestoreSteps, RestoreOf, Replacing, Ending
<1>3. CASE ExecRestore(p)
  BY <1>3, <1>a, <1>b DEF ExecRestore, ShapeOf, BackupSteps, DeleteSteps, RestoreSteps, RestoreOf, Replacing, Ending
<1>4. CASE RestoreLoad(p)
  BY <1>4, <1>a, <1>b DEF RestoreLoad, ShapeOf, BackupSteps, DeleteSteps, RestoreSteps, RestoreOf, Replacing, Ending
<1>5. CASE RestoreOpen(p)
  BY <1>5, <1>a, <1>b DEF RestoreOpen, ShapeOf, BackupSteps, DeleteSteps, RestoreSteps, RestoreOf, Replacing, Ending
<1>6. CASE RestoreFails(p)
  BY <1>6, <1>a, <1>b DEF RestoreFails, ShapeOf, BackupSteps, DeleteSteps, RestoreSteps, RestoreOf, Replacing, Ending
<1>7. CASE DryRunDone(p)
  BY <1>7, <1>a, <1>b DEF DryRunDone, ShapeOf, BackupSteps, DeleteSteps, RestoreSteps, RestoreOf, Replacing, Ending
<1>8. CASE EnterMaintenance(p)
  BY <1>8, <1>a, <1>b DEF EnterMaintenance, ShapeOf, BackupSteps, DeleteSteps, RestoreSteps, RestoreOf, Replacing, Ending
<1>9. CASE DropSchema(p)
  BY <1>9, <1>a, <1>b DEF DropSchema, ShapeOf, BackupSteps, DeleteSteps, RestoreSteps, RestoreOf, Replacing, Ending
<1>10. CASE PgRestore(p)
  BY <1>10, <1>a, <1>b DEF PgRestore, ShapeOf, BackupSteps, DeleteSteps, RestoreSteps, RestoreOf, Replacing, Ending
<1>11. CASE Migrate(p)
  BY <1>11, <1>a, <1>b DEF Migrate, ShapeOf, BackupSteps, DeleteSteps, RestoreSteps, RestoreOf, Replacing, Ending
<1>12. CASE ExitMaintenance(p)
  BY <1>12, <1>a, <1>b DEF ExitMaintenance, ShapeOf, BackupSteps, DeleteSteps, RestoreSteps, RestoreOf, Replacing, Ending
<1>13. CASE ReplaceFails(p)
  BY <1>13, <1>a, <1>b DEF ReplaceFails, ShapeOf, BackupSteps, DeleteSteps, RestoreSteps, RestoreOf, Replacing, Ending
<1>14. CASE LeaveMaintenance(p)
  BY <1>14, <1>a, <1>b DEF LeaveMaintenance, ShapeOf, BackupSteps, DeleteSteps, RestoreSteps, RestoreOf, Replacing, Ending
<1>15. CASE RestoreCleanup(p)
  <2>1. \A i \in RunIds : ResetRows(db.runs)[i] # "active"
    BY <1>a DEF ResetRows
  <2>2. \A i \in RestIds : ResetRows(db.rests)[i] # "active"
    BY <1>a DEF ResetRows
  <2>3. up => db'.runs = ResetRows(db.runs) /\ db'.rests = ResetRows(db.rests)
    BY <1>15, <1>a DEF RestoreCleanup
  <2>4. up' = up /\ task' = [task EXCEPT ![p].pc = "record"]
    BY <1>15 DEF RestoreCleanup
  <2> QED BY <1>a, <2>1, <2>2, <2>3, <2>4
<1>16. CASE RestoreRecord(p)
  BY <1>16, <1>a, <1>b DEF RestoreRecord, ShapeOf, BackupSteps, DeleteSteps, RestoreSteps, RestoreOf, Replacing, Ending
<1> QED BY <1>1, <1>2, <1>3, <1>4, <1>5, <1>6, <1>7, <1>8, <1>9, <1>10, <1>11, <1>12, <1>13, <1>14, <1>15, <1>16 DEF RestoreStep

LEMMA RequestsRows ==
  ASSUME TypeOK, LockMatchesTask, TaskShape, RestoreShape, AllLive, NEW p \in Procs,
         \/ \E kind \in Kinds, id \in ArtIds \cup {None} : Request(p, kind, id)
         \/ Check(p) \/ CheckRefuses(p)
  PROVE  RowStep(p)
<1>a. /\ task[p] \in Task /\ db \in Database /\ task \in [Procs -> Task]
      /\ task[p].live
  BY DEF TypeOK, AllLive
<1> USE DEF RowStep, OwnsRun, OwnsRest, BackupRow, RestoreRow, Reloaded, Release, Idle, Database, Task,
            dbVars
<1>1. ASSUME NEW kind \in Kinds, NEW id \in ArtIds \cup {None}, Request(p, kind, id)
      PROVE  RowStep(p)
  <2>1. task[p].pc = "idle"
    <3>1. op[p] = ""
      BY <1>1 DEF Request, BeginPipeline
    <3> QED BY <1>a, <3>1 DEF LockMatchesTask, LockName, Kinds
  <2> QED BY <1>1, <1>a, <2>1 DEF Request
<1>2. CASE Check(p)
  <2>1. task'[p].pc \in {"check", "create", "write", "busy", "queue"} /\ task'[p].live
    <3>1. task[p].kind \in Kinds
      BY <1>2, <1>a DEF Check, LockMatchesTask
    <3> QED BY <1>2, <1>a, <3>1 DEF Check, FirstStep, Kinds
  <2> QED BY <1>2, <1>a, <2>1 DEF Check
<1>3. CASE CheckRefuses(p)
  BY <1>3, <1>a DEF CheckRefuses
<1> QED BY <1>1, <1>2, <1>3

LEMMA OthersRows ==
  ASSUME TypeOK, AllLive, ActiveRowsOwned,
         \/ \E c \in Clients : \/ \E p \in Procs, id \in ArtIds : GetForDownload(c, p, id)
                               \/ DownloadStep(c)
         \/ RetentionStep
         \/ UNCHANGED vars
  PROVE  AllLive' /\ ActiveRowsOwned'
<1>1. task' = task /\ up' = up
  BY DEF DownloadStep, GetForDownload, BeginDownload, OpenDownload, CloseDownload, dbVars,
         RetentionStep, ListSuccessfulArtifacts, RetentionRemove, RetentionUnlist, vars
<1>2. db'.runs = db.runs /\ db'.rests = db.rests
  BY DEF DownloadStep, GetForDownload, BeginDownload, OpenDownload, CloseDownload, dbVars, vars,
         RetentionStep, ListSuccessfulArtifacts, RetentionRemove, RetentionUnlist, DeleteArtifact,
         TypeOK, Database
<1> QED BY <1>1, <1>2 DEF AllLive, ActiveRowsOwned, Reloaded, BackupRow, RestoreRow

\* No finished request blocks the pipeline behind it, in any number of processes that share
\* the database, whichever steps fail, and though a restore replaces the rows under everybody:
\* as long as no process dies and no request's context ends before it has.
THEOREM RowsOwned ==
  ASSUME Faults \cap {"crash", "cancel"} = {}
  PROVE  Spec => []ActiveRowsOwned
<1> DEFINE Rows == AllLive /\ ActiveRowsOwned
<1>1. Init => Rows
  <2>1. /\ \A i \in RunIds : EmptyDatabase.runs[i] # "active"
        /\ \A i \in RestIds : EmptyDatabase.rests[i] # "active"
    BY DEF EmptyDatabase
  <2>2. Idle.live
    BY DEF Idle
  <2> QED BY <2>1, <2>2 DEF Init, AllLive, ActiveRowsOwned
<1>2. IInv /\ RestoreShape /\ Rows /\ [Next]_vars => Rows'
  <2> SUFFICES ASSUME IInv, RestoreShape, Rows, [Next]_vars PROVE Rows'
    OBVIOUS
  <2>a. TypeOK /\ LockMatchesTask /\ TaskShape
    BY DEF IInv
  <2>1. ASSUME NEW p \in Procs, TaskStep(p) PROVE Rows'
    BY <2>1, <2>a, RequestsRows, BackupRows, ImportRows, DeleteRows, RestoreRows,
       RowStepKeeps DEF TaskStep
  <2>2. ASSUME NEW p \in Procs, NEW kind \in Kinds, NEW id \in ArtIds \cup {None},
               Request(p, kind, id)
        PROVE  Rows'
    BY <2>2, <2>a, RequestsRows, RowStepKeeps
  <2>3. ASSUME NEW p \in Procs, Restart(p) \/ Cancel(p) PROVE FALSE
    BY <2>3 DEF Restart, Cancel
  <2> QED BY <2>a, <2>1, <2>2, <2>3, OthersRows DEF Next
<1>3. Spec => []RestoreShape
  <2>1. "crash" \notin Faults
    OBVIOUS
  <2> QED BY <2>1, MaintInvariance, PTL
<1> QED BY <1>1, <1>2, <1>3, Invariance, PTL DEF Spec
=============================================================================
