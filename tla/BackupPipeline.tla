--------------------------- MODULE BackupPipeline ---------------------------
(***************************************************************************)
(* The backup service of core/backups: creating, importing, deleting,      *)
(* downloading and restoring .bscc files, and the retention pass that      *)
(* follows an automatic backup.                                            *)
(*                                                                         *)
(* Every process (an "all", "api" or "worker" instance) has a Service of   *)
(* its own: a pipeline lock (opName), a limiter and download counters in   *)
(* memory.  All of them share one database and one backup directory.  An   *)
(* action is one access to the database, to the directory or to the        *)
(* in-memory state under opMu; the accesses of one request are separate    *)
(* actions, so requests interleave as the code lets them.                  *)
(*                                                                         *)
(* Abstractions.  The rows of backups_runs and backups_restore_runs keep   *)
(* one status "active" for 'queued' and 'running', which the code never    *)
(* tells apart.  A file is a number, and its content is the database state *)
(* pg_dump read.  The payload's cipher, manifest and checksums appear only *)
(* as a step that may fail.  A statement fails only when its context has   *)
(* ended, its row is refused, or the tables are gone: a database that      *)
(* answers, but refuses one statement of many, is left out.                *)
(***************************************************************************)
EXTENDS Naturals, FiniteSets

CONSTANTS Procs,        \* the processes that share the database
          Worker,       \* the process whose scheduler makes automatic backups
          Clients,      \* download requests that can be in progress
          Keep,         \* plan.KeepLastSuccessful
          MaxParallel,  \* capacity of the limiter
          MaxFiles,     \* bound: .bscc files ever written
          MaxArts,      \* bound: ids of backups_artifacts
          MaxRuns,      \* bound: ids of backups_runs
          MaxRests,     \* bound: ids of backups_restore_runs
          Faults        \* the faults of the environment that are enabled

ASSUME ProcsAssumption == Worker \in Procs
ASSUME ClientsAssumption == IsFiniteSet(Clients)
ASSUME LimitsAssumption == /\ Keep \in Nat \ {0}
                           /\ MaxParallel \in Nat \ {0}
ASSUME BoundsAssumption == /\ MaxFiles \in Nat
                           /\ MaxArts \in Nat
                           /\ MaxRuns \in Nat \ {0}
                           /\ MaxRests \in Nat
ASSUME FaultsAssumption == Faults \subseteq {"step", "cancel", "crash"}

Files == 1 .. MaxFiles
ArtIds == 1 .. MaxArts
RunIds == 1 .. MaxRuns
RestIds == 1 .. MaxRests
None == 0

(***************************************************************************)
(* The database, as far as the service reads it: success artifacts (id to  *)
(* file), backup runs, restore runs with the artifact they reference, the  *)
(* last ids handed out, and app_maintenance_state.                         *)
(***************************************************************************)
RowStatus == {"none", "active", "success", "failed"}

Database == [arts  : [ArtIds -> Files \cup {None}],
             runs  : [RunIds -> RowStatus],
             rests : [RestIds -> RowStatus],
             ref   : [RestIds -> ArtIds \cup {None}],
             aseq  : 0 .. MaxArts,
             rseq  : 0 .. MaxRuns,
             sseq  : 0 .. MaxRests,
             maint : BOOLEAN]

\* What the migrations create on an empty server.
EmptyDatabase == [arts  |-> [i \in ArtIds |-> None],
                  runs  |-> [i \in RunIds |-> "none"],
                  rests |-> [i \in RestIds |-> "none"],
                  ref   |-> [i \in RestIds |-> None],
                  aseq  |-> 0, rseq |-> 0, sseq |-> 0,
                  maint |-> FALSE]

\* HasRunningBackupRun and HasRunningRestoreRun.
HasRunningBackupRun(d) == \E i \in RunIds : d.runs[i] = "active"
HasRunningRestoreRun(d) == \E i \in RestIds : d.rests[i] = "active"

\* UPDATE ... SET status WHERE id: nothing when no row has the id.
SetStatus(rows, i, s) == [rows EXCEPT ![i] = IF @ = "none" THEN @ ELSE s]

\* Fault injected: the restore forgets the rows it loaded from the dump.
ResetRowsOmitted(rows) == rows

\* ResetRunningOperations.
ResetRows(rows) == [i \in DOMAIN rows |-> IF rows[i] = "active" THEN "failed" ELSE rows[i]]

\* backups_restore_runs.artifact_id REFERENCES backups_artifacts ON DELETE RESTRICT.
Referenced(d, id) == \E i \in RestIds : d.rests[i] # "none" /\ d.ref[i] = id

-----------------------------------------------------------------------------
(***************************************************************************)
(* The requests that take the pipeline lock.  "dryrun" is a restore that   *)
(* stops before the maintenance mode.                                      *)
(***************************************************************************)
Kinds == {"backup", "auto", "import", "delete", "restore", "dryrun"}

LockName(kind) == CASE kind \in {"backup", "auto", "import"} -> "backup"
                    [] kind = "delete"                       -> "delete"
                    [] kind \in {"restore", "dryrun"}        -> "restore"

\* The order in which a request reads the database before it goes on.
Checks(kind) == IF kind \in {"backup", "auto"}
                THEN <<"backup", "restore", "maintenance">>
                ELSE <<"maintenance", "backup", "restore">>

FirstStep(kind) == CASE kind \in {"backup", "auto"}    -> "create"
                     [] kind = "import"                -> "write"
                     [] kind = "delete"                -> "busy"
                     [] kind \in {"restore", "dryrun"} -> "queue"

Steps == {"idle", "check", "create", "start", "dump", "encrypt", "artifact",
          "attach", "finish", "write", "busy", "find", "remove", "unlist", "queue",
          "exec", "load", "open", "ready", "drop", "pgrestore", "migrate",
          "exit", "unmaint", "cleanup", "record"}

\* A request in progress: its next step, the check it is at, whether its
\* context still lives, and the rows and the file it works on.
Task == [kind : Kinds \cup {"none"}, pc : Steps, chk : 0 .. 3, live : BOOLEAN,
         row  : RunIds \cup RestIds \cup {None}, art : ArtIds \cup {None}, file : Files \cup {None}]

Idle == [kind |-> "none", pc |-> "idle", chk |-> 0, live |-> TRUE,
         row |-> None, art |-> None, file |-> None]

\* The retention pass of the worker's scheduler.
RetIdle == [pc |-> "idle", todo |-> {}, art |-> None, file |-> None]

\* A download request: "got" has read the artifact, "begun" is counted, "open"
\* streams the file.
DlIdle == [pc |-> "idle", proc |-> Worker, art |-> None, file |-> None]

VARIABLES db,         \* the database
          up,         \* FALSE between DROP SCHEMA and the end of pg_restore
          nfiles,     \* number of files ever written
          files,      \* the files in the backup directory
          content,    \* what each file restores
          op,         \* opName of each process
          slots,      \* tokens in the limiter of each process
          downloads,  \* Service.downloads of each process
          task,       \* the request that holds the pipeline lock, per process
          ret,        \* the retention pass
          dl          \* download requests

dbVars == <<db, up>>
fileVars == <<nfiles, files, content>>
lockVars == <<op, slots>>
vars == <<db, up, nfiles, files, content, op, slots, downloads, task, ret, dl>>

TypeOK ==
  /\ db \in Database
  /\ up \in BOOLEAN
  /\ nfiles \in 0 .. MaxFiles
  /\ files \in SUBSET Files
  /\ content \in [Files -> Database]
  /\ op \in [Procs -> {"", "backup", "delete", "restore"}]
  /\ slots \in [Procs -> 0 .. MaxParallel]
  /\ downloads \in [Procs -> [ArtIds -> Nat]]
  /\ task \in [Procs -> Task]
  /\ ret \in [pc : {"idle", "list", "remove", "unlist"}, todo : SUBSET (ArtIds \X Files),
              art : ArtIds \cup {None}, file : Files \cup {None}]
  /\ dl \in [Clients -> [pc : {"idle", "got", "begun", "open"}, proc : Procs,
                         art : ArtIds \cup {None}, file : Files \cup {None}]]

Init ==
  /\ db = EmptyDatabase
  /\ up = TRUE
  /\ nfiles = 0
  /\ files = {}
  /\ content = [f \in Files |-> EmptyDatabase]
  /\ op = [p \in Procs |-> ""]
  /\ slots = [p \in Procs |-> 0]
  /\ downloads = [p \in Procs |-> [i \in ArtIds |-> 0]]
  /\ task = [p \in Procs |-> Idle]
  /\ ret = RetIdle
  /\ dl = [c \in Clients |-> DlIdle]

-----------------------------------------------------------------------------
(***************************************************************************)
(* The pipeline lock and the limiter.                                      *)
(***************************************************************************)
\* beginPipeline: taken when free, and refused (no step) otherwise.
BeginPipeline(p, name) == /\ op[p] = ""
                          /\ op' = [op EXCEPT ![p] = name]

\* The request ends: its deferred release and endPipeline run.
EndOp(p) == op' = [op EXCEPT ![p] = ""]
\* Fault injected: the release is deferred before the token is acquired.
EndSlotAlways(p, held) == slots' = [slots EXCEPT ![p] = @ - 1]
EndSlot(p, held) == slots' = IF held THEN [slots EXCEPT ![p] = @ - 1] ELSE slots

\* Fault injected: executeRestore returns from its cleanup without the release.
HoldsButCleanup(t) == \/ t.pc \in {"start", "dump", "encrypt", "attach", "finish", "load", "open",
                                   "ready", "drop", "pgrestore", "migrate", "exit", "unmaint", "cleanup"}
                      \/ t.pc = "artifact" /\ t.kind # "import"

\* Steps at which the request holds a token of the limiter.
Holds(t) == t.pc \in {"start", "dump", "encrypt", "attach", "finish", "load", "open", "ready",
                      "drop", "pgrestore", "migrate", "exit", "unmaint", "cleanup", "record"}
            \/ (t.pc = "artifact" /\ t.kind # "import")

Release(p) == /\ EndOp(p)
              /\ EndSlot(p, Holds(task[p]))
              /\ task' = [task EXCEPT ![p] = Idle]

Goto(p, pc) == task' = [task EXCEPT ![p].pc = pc]

\* A statement of this request reaches the database.
Reaches(p) == up /\ task[p].live

\* The bounds of the model: a request arrives only while the rows and the file it
\* may need are left.
Room(kind) == CASE kind \in {"backup", "auto"}    -> /\ nfiles < MaxFiles
                                                    /\ db.aseq < MaxArts
                                                    /\ db.rseq < MaxRuns
                [] kind = "import"                -> nfiles < MaxFiles /\ db.aseq < MaxArts
                [] kind = "delete"                -> TRUE
                [] kind \in {"restore", "dryrun"} -> db.sseq < MaxRests

\* A request arrives.  Automatic backups come from the worker's scheduler, which
\* runs no other one until the retention pass of the last has ended; its own
\* look at the running rows (RunAutoBackup) is repeated by the checks.
Request(p, kind, id) ==
  /\ BeginPipeline(p, LockName(kind))
  /\ kind = "auto" => p = Worker /\ ret.pc = "idle"
  /\ (id = None) <=> (kind \in {"backup", "auto", "import"})
  /\ Room(kind)
  /\ task' = [task EXCEPT ![p] = [Idle EXCEPT !.kind = kind, !.pc = "check", !.art = id]]
  /\ UNCHANGED <<dbVars, fileVars, slots, downloads, ret, dl>>

\* What one check reads.  IsMaintenanceMode answers no when the query fails; the
\* other two end the request with the error.
Blocked(p, what) ==
  CASE what = "maintenance" -> Reaches(p) /\ db.maint
    [] what = "backup"      -> Reaches(p) => HasRunningBackupRun(db)
    [] what = "restore"     -> Reaches(p) => HasRunningRestoreRun(db)

Check(p) ==
  LET t == task[p] IN
  /\ t.pc = "check"
  /\ ~Blocked(p, Checks(t.kind)[t.chk + 1])
  /\ task' = IF t.chk < 2
             THEN [task EXCEPT ![p].chk = @ + 1]
             ELSE [task EXCEPT ![p].chk = 3, ![p].pc = FirstStep(t.kind)]
  /\ UNCHANGED <<dbVars, fileVars, lockVars, downloads, ret, dl>>

CheckRefuses(p) ==
  LET t == task[p] IN
  /\ t.pc = "check"
  /\ Blocked(p, Checks(t.kind)[t.chk + 1])
  /\ Release(p)
  /\ UNCHANGED <<dbVars, fileVars, downloads, ret, dl>>

\* The client disconnects, the 45 minutes of an automatic backup pass, or the
\* process shuts down: the request's context ends.  executeRestore has one of its
\* own that never ends.
Cancel(p) ==
  /\ "cancel" \in Faults
  /\ task[p].live
  /\ \/ task[p].kind \in {"backup", "auto", "import", "delete"}
     \/ task[p].pc \in {"check", "queue"}
  /\ task' = [task EXCEPT ![p].live = FALSE]
  /\ UNCHANGED <<dbVars, fileVars, lockVars, downloads, ret, dl>>

-----------------------------------------------------------------------------
(***************************************************************************)
(* CreateBackup.                                                           *)
(***************************************************************************)
\* acquire waits for a token; then CreateRun inserts the run, unless the index
\* idx_backups_runs_single_active finds an active one.
CreateRun(p) ==
  /\ task[p].pc = "create"
  /\ slots[p] < MaxParallel
  /\ Reaches(p)
  /\ ~HasRunningBackupRun(db)
  /\ db.rseq < MaxRuns
  /\ db' = [db EXCEPT !.rseq = @ + 1, !.runs[db.rseq + 1] = "active"]
  /\ slots' = [slots EXCEPT ![p] = @ + 1]
  /\ task' = [task EXCEPT ![p].pc = "start", ![p].row = db.rseq + 1]
  /\ UNCHANGED <<up, fileVars, op, downloads, ret, dl>>

CreateRunRefused(p) ==
  /\ task[p].pc = "create"
  /\ \/ ~Reaches(p)
     \/ HasRunningBackupRun(db)
  /\ Release(p)
  /\ UNCHANGED <<dbVars, fileVars, downloads, ret, dl>>

\* The update to 'running', whose error is ignored (the index may refuse it).
StartRun(p) ==
  LET t == task[p] IN
  /\ t.pc = "start"
  /\ db' = IF Reaches(p) /\ \A i \in RunIds \ {t.row} : db.runs[i] # "active"
           THEN [db EXCEPT !.runs = SetStatus(@, t.row, "active")]
           ELSE db
  /\ Goto(p, "dump")
  /\ UNCHANGED <<up, fileVars, lockVars, downloads, ret, dl>>

\* pg_dump reads one snapshot of the database.
Dump(p) ==
  /\ task[p].pc = "dump"
  /\ Reaches(p)
  /\ nfiles < MaxFiles
  /\ nfiles' = nfiles + 1
  /\ content' = [content EXCEPT ![nfiles + 1] = db]
  /\ task' = [task EXCEPT ![p].pc = "encrypt", ![p].file = nfiles + 1]
  /\ UNCHANGED <<dbVars, files, lockVars, downloads, ret, dl>>

\* EncryptFile writes the final path; it needs no database.
Encrypt(p) ==
  /\ task[p].pc = "encrypt"
  /\ files' = files \cup {task[p].file}
  /\ Goto(p, "artifact")
  /\ UNCHANGED <<dbVars, nfiles, content, lockVars, downloads, ret, dl>>

\* CreateArtifact.
InsertArtifact(d, f) == [d EXCEPT !.aseq = @ + 1, !.arts[d.aseq + 1] = f]

CreateArtifact(p) ==
  LET t == task[p] IN
  /\ t.pc = "artifact"
  /\ t.kind \in {"backup", "auto"}
  /\ Reaches(p)
  /\ db.aseq < MaxArts
  /\ db' = InsertArtifact(db, t.file)
  /\ task' = [task EXCEPT ![p].pc = "attach", ![p].art = db.aseq + 1]
  /\ UNCHANGED <<up, fileVars, lockVars, downloads, ret, dl>>

\* AttachArtifactToRun: a column no other request reads.
AttachArtifact(p) ==
  /\ task[p].pc = "attach"
  /\ Reaches(p)
  /\ Goto(p, "finish")
  /\ UNCHANGED <<dbVars, fileVars, lockVars, downloads, ret, dl>>

\* The final UpdateRun; an automatic backup goes on to the retention pass after
\* its request has ended.
FinishBackup(p) ==
  LET t == task[p] IN
  /\ t.pc = "finish"
  /\ Reaches(p)
  /\ db' = [db EXCEPT !.runs = SetStatus(@, t.row, "success")]
  /\ ret' = IF t.kind = "auto" THEN [RetIdle EXCEPT !.pc = "list"] ELSE ret
  /\ Release(p)
  /\ UNCHANGED <<up, fileVars, downloads, dl>>

\* The final UpdateRun fails: the flow returns its error without failRun.
FinishFails(p) ==
  /\ task[p].pc = "finish"
  /\ ~Reaches(p)
  /\ Release(p)
  /\ UNCHANGED <<dbVars, fileVars, downloads, ret, dl>>

\* A step of the flow fails and failRun marks the run, with the request's own
\* context: when that has ended, so has the update.  A half-written or complete
\* file is left where it is.
BackupFails(p) ==
  LET t == task[p] IN
  /\ t.kind \in {"backup", "auto"}
  /\ \/ t.pc \in {"dump", "encrypt"} /\ "step" \in Faults
     \/ t.pc \in {"dump", "artifact", "attach"} /\ ~Reaches(p)
  /\ db' = IF Reaches(p) THEN [db EXCEPT !.runs = SetStatus(@, t.row, "failed")] ELSE db
  /\ Release(p)
  /\ UNCHANGED <<up, fileVars, downloads, ret, dl>>

-----------------------------------------------------------------------------
(***************************************************************************)
(* ImportBackup: no backup run, and no limiter.  The file may come from    *)
(* this installation (a file downloaded earlier) or from a fresh one.      *)
(***************************************************************************)
ForeignDump == [EmptyDatabase EXCEPT !.rseq = 1, !.runs[1] = "active"]

ImportWrite(p) ==
  /\ task[p].pc = "write"
  /\ nfiles < MaxFiles
  /\ nfiles' = nfiles + 1
  /\ \E c \in {ForeignDump} \cup {content[f] : f \in 1 .. nfiles} :
       content' = [content EXCEPT ![nfiles + 1] = c]
  /\ files' = files \cup {nfiles + 1}
  /\ task' = [task EXCEPT ![p].pc = "artifact", ![p].file = nfiles + 1]
  /\ UNCHANGED <<dbVars, lockVars, downloads, ret, dl>>

ImportArtifact(p) ==
  /\ task[p].pc = "artifact"
  /\ task[p].kind = "import"
  /\ Reaches(p)
  /\ db.aseq < MaxArts
  /\ db' = InsertArtifact(db, task[p].file)
  /\ Release(p)
  /\ UNCHANGED <<up, fileVars, downloads, ret, dl>>

\* The upload is refused (size, header, key, checksum) or breaks off, or the insert
\* fails and leaves the file behind.
ImportFails(p) ==
  /\ \/ task[p].pc = "write" /\ ("step" \in Faults \/ ~task[p].live)
     \/ task[p].pc = "artifact" /\ task[p].kind = "import" /\ ~Reaches(p)
  /\ Release(p)
  /\ UNCHANGED <<dbVars, fileVars, downloads, ret, dl>>

-----------------------------------------------------------------------------
(***************************************************************************)
(* DeleteBackup: the file goes first, the row second.                      *)
(***************************************************************************)
DeleteBusy(p) ==
  /\ task[p].pc = "busy"
  /\ IF downloads[p][task[p].art] > 0
     THEN Release(p)
     ELSE Goto(p, "find") /\ UNCHANGED lockVars
  /\ UNCHANGED <<dbVars, fileVars, downloads, ret, dl>>

DeleteFind(p) ==
  LET t == task[p] IN
  /\ t.pc = "find"
  /\ IF Reaches(p) /\ db.arts[t.art] # None
     THEN /\ task' = [task EXCEPT ![p].pc = "remove", ![p].file = db.arts[t.art]]
          /\ UNCHANGED lockVars
     ELSE Release(p)
  /\ UNCHANGED <<dbVars, fileVars, downloads, ret, dl>>

DeleteRemove(p) ==
  /\ task[p].pc = "remove"
  /\ files' = files \ {task[p].file}
  /\ Goto(p, "unlist")
  /\ UNCHANGED <<dbVars, nfiles, content, lockVars, downloads, ret, dl>>

\* DELETE FROM backups_artifacts: the foreign key refuses a row that a restore
\* run references.
DeleteArtifact(id, reaches) ==
  db' = IF reaches /\ ~Referenced(db, id) THEN [db EXCEPT !.arts[id] = None] ELSE db

DeleteUnlist(p) ==
  /\ task[p].pc = "unlist"
  /\ DeleteArtifact(task[p].art, Reaches(p))
  /\ Release(p)
  /\ UNCHANGED <<up, fileVars, downloads, ret, dl>>

\* os.Remove fails (FILE_BUSY).
DeleteFails(p) ==
  /\ "step" \in Faults
  /\ task[p].pc = "remove"
  /\ Release(p)
  /\ UNCHANGED <<dbVars, fileVars, downloads, ret, dl>>

-----------------------------------------------------------------------------
(***************************************************************************)
(* startRestore and executeRestore.                                        *)
(***************************************************************************)
\* GetArtifact and CreateRestoreRun; executeRestore then runs on its own and
\* keeps the pipeline lock.
QueueRestore(p) ==
  LET t == task[p] IN
  /\ t.pc = "queue"
  /\ Reaches(p)
  /\ db.arts[t.art] # None
  /\ db.sseq < MaxRests
  /\ db' = [db EXCEPT !.sseq = @ + 1,
                      !.rests[db.sseq + 1] = "active",
                      !.ref[db.sseq + 1] = t.art]
  /\ task' = [task EXCEPT ![p].pc = "exec", ![p].row = db.sseq + 1]
  /\ UNCHANGED <<up, fileVars, lockVars, downloads, ret, dl>>

QueueRestoreRefused(p) ==
  /\ task[p].pc = "queue"
  /\ ~Reaches(p) \/ db.arts[task[p].art] = None
  /\ Release(p)
  /\ UNCHANGED <<dbVars, fileVars, downloads, ret, dl>>

\* acquire, GetRestoreRun and the update to 'running'.
ExecRestore(p) ==
  LET t == task[p] IN
  /\ t.pc = "exec"
  /\ slots[p] < MaxParallel
  /\ IF up /\ db.rests[t.row] # "none"
     THEN /\ db' = [db EXCEPT !.rests[t.row] = "active"]
          /\ slots' = [slots EXCEPT ![p] = @ + 1]
          /\ Goto(p, "load")
          /\ UNCHANGED op
     ELSE Release(p) /\ UNCHANGED db
  /\ UNCHANGED <<up, fileVars, downloads, ret, dl>>

\* GetArtifact.
RestoreLoad(p) ==
  LET t == task[p] IN
  /\ t.pc = "load"
  /\ up
  /\ db.arts[t.art] # None
  /\ task' = [task EXCEPT ![p].pc = "open", ![p].file = db.arts[t.art]]
  /\ UNCHANGED <<dbVars, fileVars, lockVars, downloads, ret, dl>>

\* The file is found, decrypted and verified.
RestoreOpen(p) ==
  /\ task[p].pc = "open"
  /\ task[p].file \in files
  /\ Goto(p, "ready")
  /\ UNCHANGED <<dbVars, fileVars, lockVars, downloads, ret, dl>>

\* fail before the maintenance mode: no artifact, no file, a payload that does not
\* decrypt or verify, an incompatible version, or SetMaintenanceMode.  A dry run ends
\* here, a real restore goes through its deferred cleanup.
RestoreFails(p) ==
  LET t == task[p] IN
  /\ \/ t.pc = "load" /\ ~(up /\ db.arts[t.art] # None)
     \/ t.pc = "open" /\ t.file \notin files
     \/ t.pc = "open" /\ "step" \in Faults
     \/ t.pc = "ready" /\ t.kind = "restore" /\ ~up
  /\ db' = IF up THEN [db EXCEPT !.rests = SetStatus(@, t.row, "failed")] ELSE db
  /\ IF t.kind = "dryrun" THEN Release(p) ELSE Goto(p, "cleanup") /\ UNCHANGED lockVars
  /\ UNCHANGED <<up, fileVars, downloads, ret, dl>>

DryRunDone(p) ==
  /\ task[p].pc = "ready"
  /\ task[p].kind = "dryrun"
  /\ db' = IF up THEN [db EXCEPT !.rests = SetStatus(@, task[p].row, "success")] ELSE db
  /\ Release(p)
  /\ UNCHANGED <<up, fileVars, downloads, ret, dl>>

EnterMaintenance(p) ==
  /\ task[p].pc = "ready"
  /\ task[p].kind = "restore"
  /\ up
  /\ db' = [db EXCEPT !.maint = TRUE]
  /\ Goto(p, "drop")
  /\ UNCHANGED <<up, fileVars, lockVars, downloads, ret, dl>>

\* prepareDatabaseForRestore: DROP SCHEMA public CASCADE.
DropSchema(p) ==
  /\ task[p].pc = "drop"
  /\ up' = FALSE
  /\ Goto(p, "pgrestore")
  /\ UNCHANGED <<db, fileVars, lockVars, downloads, ret, dl>>

\* pg_restore loads the dump: every table, the sequences and the maintenance
\* state are those of the dump from here on.
PgRestore(p) ==
  /\ task[p].pc = "pgrestore"
  /\ db' = content[task[p].file]
  /\ up' = TRUE
  /\ Goto(p, "migrate")
  /\ UNCHANGED <<fileVars, lockVars, downloads, ret, dl>>

\* ensureCoreSchemaAfterRestore and the migrations change no table of this model;
\* persistRestoreRun writes 'running' to the row with the run's id, if the dump has
\* one.
Migrate(p) ==
  /\ task[p].pc = "migrate"
  /\ db' = IF up THEN [db EXCEPT !.rests = SetStatus(@, task[p].row, "active")] ELSE db
  /\ Goto(p, "exit")
  /\ UNCHANGED <<up, fileVars, lockVars, downloads, ret, dl>>

\* SetMaintenanceMode(false) and the final update of the run.
ExitMaintenance(p) ==
  /\ task[p].pc = "exit"
  /\ up
  /\ db' = [db EXCEPT !.maint = FALSE,
                      !.rests = SetStatus(@, task[p].row, "success")]
  /\ Goto(p, "cleanup")
  /\ UNCHANGED <<up, fileVars, lockVars, downloads, ret, dl>>

\* Fault injected: a failed restore leaves the maintenance mode on.
ReplaceFailsInMaintenance(p) ==
  /\ task[p].pc \in {"drop", "pgrestore", "migrate", "exit"}
  /\ "step" \in Faults
  /\ db' = IF up THEN [db EXCEPT !.rests = SetStatus(@, task[p].row, "failed")] ELSE db
  /\ Goto(p, "cleanup")
  /\ UNCHANGED <<up, fileVars, lockVars, downloads, ret, dl>>

\* Dropping, loading or migrating fails, or the database is gone when the
\* maintenance mode is to end: the run is failed.
ReplaceFails(p) ==
  LET t == task[p] IN
  /\ \/ t.pc \in {"drop", "pgrestore", "migrate"} /\ "step" \in Faults
     \/ t.pc = "exit" /\ ~up
  /\ db' = IF up THEN [db EXCEPT !.rests = SetStatus(@, t.row, "failed")] ELSE db
  /\ Goto(p, "unmaint")
  /\ UNCHANGED <<up, fileVars, lockVars, downloads, ret, dl>>

\* SetMaintenanceMode(false) of a failed restore, as far as the database can be
\* reached; the deferred function repeats it.
LeaveMaintenance(p) ==
  /\ task[p].pc = "unmaint"
  /\ db' = IF up THEN [db EXCEPT !.maint = FALSE] ELSE db
  /\ Goto(p, "cleanup")
  /\ UNCHANGED <<up, fileVars, lockVars, downloads, ret, dl>>

\* The deferred ResetRunningOperations.
RestoreCleanup(p) ==
  /\ task[p].pc = "cleanup"
  /\ db' = IF up THEN [db EXCEPT !.runs = ResetRows(@), !.rests = ResetRows(@)] ELSE db
  /\ Goto(p, "record")
  /\ UNCHANGED <<up, fileVars, lockVars, downloads, ret, dl>>

\* The deferred restoreArtifactRecord: the source file is listed again unless a
\* record has its path; then the limiter and the pipeline lock are released.
RestoreRecord(p) ==
  LET t == task[p]
      listed == \E i \in ArtIds : db.arts[i] = t.file IN
  /\ t.pc = "record"
  /\ IF up /\ t.file # None /\ ~listed
     THEN db.aseq < MaxArts /\ db' = InsertArtifact(db, t.file)
     ELSE db' = db
  /\ Release(p)
  /\ UNCHANGED <<up, fileVars, downloads, ret, dl>>

-----------------------------------------------------------------------------
(***************************************************************************)
(* DownloadArtifact.                                                       *)
(***************************************************************************)
GetForDownload(c, p, id) ==
  /\ dl[c].pc = "idle"
  /\ up
  /\ db.arts[id] # None
  /\ dl' = [dl EXCEPT ![c] = [pc |-> "got", proc |-> p, art |-> id, file |-> db.arts[id]]]
  /\ UNCHANGED <<dbVars, fileVars, lockVars, downloads, task, ret>>

\* Fault injected: beginDownload does not look at the operation in progress.
BeginDownloadAlways(c) ==
  /\ dl[c].pc = "got"
  /\ dl' = [dl EXCEPT ![c].pc = "begun"]
  /\ downloads' = [downloads EXCEPT ![dl[c].proc][dl[c].art] = @ + 1]
  /\ UNCHANGED <<dbVars, fileVars, lockVars, task, ret>>

\* beginDownload.
BeginDownload(c) ==
  LET d == dl[c] IN
  /\ d.pc = "got"
  /\ IF op[d.proc] \in {"delete", "restore"}
     THEN /\ dl' = [dl EXCEPT ![c] = DlIdle]
          /\ UNCHANGED downloads
     ELSE /\ dl' = [dl EXCEPT ![c].pc = "begun"]
          /\ downloads' = [downloads EXCEPT ![d.proc][d.art] = @ + 1]
  /\ UNCHANGED <<dbVars, fileVars, lockVars, task, ret>>

\* endDownload.
EndDownload(c) ==
  /\ downloads' = [downloads EXCEPT ![dl[c].proc][dl[c].art] = IF @ <= 1 THEN 0 ELSE @ - 1]
  /\ dl' = [dl EXCEPT ![c] = DlIdle]

\* Fault injected: the path for a missing file does not end the download.
OpenDownloadLeaks(c) ==
  /\ dl[c].pc = "begun"
  /\ dl' = IF dl[c].file \in files THEN [dl EXCEPT ![c].pc = "open"]
                                  ELSE [dl EXCEPT ![c] = DlIdle]
  /\ UNCHANGED <<dbVars, fileVars, lockVars, downloads, task, ret>>

\* os.Stat and os.Open; a missing file ends the download.
OpenDownload(c) ==
  /\ dl[c].pc = "begun"
  /\ IF dl[c].file \in files
     THEN dl' = [dl EXCEPT ![c].pc = "open"] /\ UNCHANGED downloads
     ELSE EndDownload(c)
  /\ UNCHANGED <<dbVars, fileVars, lockVars, task, ret>>

CloseDownload(c) ==
  /\ dl[c].pc = "open"
  /\ EndDownload(c)
  /\ UNCHANGED <<dbVars, fileVars, lockVars, task, ret>>

-----------------------------------------------------------------------------
(***************************************************************************)
(* applyRetention: no pipeline lock.  Records are in the order of their    *)
(* ids, which is the order of created_at; age is what RetentionDays and    *)
(* the clock make of it, so any suffix of the list may be old enough.      *)
(***************************************************************************)
Newer(d, id) == {i \in ArtIds : i > id /\ d.arts[i] # None}

RetentionVictims(age) ==
  {v \in ArtIds \X Files : /\ db.arts[v[1]] = v[2]
                         /\ v[1] <= age
                         /\ Cardinality(Newer(db, v[1])) >= Keep}

ListSuccessfulArtifacts ==
  /\ ret.pc = "list"
  /\ \E age \in 0 .. MaxArts :
       LET victims == IF up THEN RetentionVictims(age) ELSE {} IN
       ret' = IF victims = {} THEN RetIdle
              ELSE [RetIdle EXCEPT !.pc = "remove", !.todo = victims]
  /\ UNCHANGED <<dbVars, fileVars, lockVars, downloads, task, dl>>

\* os.Remove of the next file of the list, newest first.
RetentionRemove ==
  /\ ret.pc = "remove"
  /\ \E v \in ret.todo :
       /\ \A w \in ret.todo : w[1] <= v[1]
       /\ files' = files \ {v[2]}
       /\ ret' = [pc |-> "unlist", todo |-> ret.todo \ {v}, art |-> v[1], file |-> v[2]]
  /\ UNCHANGED <<dbVars, nfiles, content, lockVars, downloads, task, dl>>

\* DeleteArtifact by the id of the list; its error is ignored.
RetentionUnlist ==
  /\ ret.pc = "unlist"
  /\ DeleteArtifact(ret.art, up)
  /\ ret' = IF ret.todo = {} THEN RetIdle ELSE [RetIdle EXCEPT !.pc = "remove", !.todo = ret.todo]
  /\ UNCHANGED <<up, fileVars, lockVars, downloads, task, dl>>

-----------------------------------------------------------------------------
\* The process dies and is started again: its memory is gone, the database and
\* the directory stay.  The container start runs the migrations.
Restart(p) ==
  /\ "crash" \in Faults
  /\ op' = [op EXCEPT ![p] = ""]
  /\ slots' = [slots EXCEPT ![p] = 0]
  /\ downloads' = [downloads EXCEPT ![p] = [i \in ArtIds |-> 0]]
  /\ task' = [task EXCEPT ![p] = Idle]
  /\ ret' = IF p = Worker THEN RetIdle ELSE ret
  /\ dl' = [c \in Clients |-> IF dl[c].proc = p THEN DlIdle ELSE dl[c]]
  /\ db' = IF up THEN db ELSE EmptyDatabase
  /\ up' = TRUE
  /\ UNCHANGED fileVars

\* The steps of the request that holds the lock of p.
BackupStep(p) == \/ CreateRun(p) \/ CreateRunRefused(p) \/ StartRun(p) \/ Dump(p)
                 \/ Encrypt(p) \/ CreateArtifact(p) \/ AttachArtifact(p)
                 \/ FinishBackup(p) \/ FinishFails(p) \/ BackupFails(p)
ImportStep(p) == ImportWrite(p) \/ ImportArtifact(p) \/ ImportFails(p)
DeleteStep(p) == \/ DeleteBusy(p) \/ DeleteFind(p) \/ DeleteRemove(p)
                 \/ DeleteUnlist(p) \/ DeleteFails(p)
RestoreStep(p) == \/ QueueRestore(p) \/ QueueRestoreRefused(p) \/ ExecRestore(p)
                  \/ RestoreLoad(p) \/ RestoreOpen(p) \/ RestoreFails(p) \/ DryRunDone(p)
                  \/ EnterMaintenance(p) \/ DropSchema(p) \/ PgRestore(p) \/ Migrate(p)
                  \/ ExitMaintenance(p) \/ ReplaceFails(p) \/ LeaveMaintenance(p)
                  \/ RestoreCleanup(p) \/ RestoreRecord(p)
TaskStep(p) == \/ Check(p) \/ CheckRefuses(p)
               \/ BackupStep(p) \/ ImportStep(p) \/ DeleteStep(p) \/ RestoreStep(p)

RetentionStep == ListSuccessfulArtifacts \/ RetentionRemove \/ RetentionUnlist

DownloadStep(c) == BeginDownload(c) \/ OpenDownload(c) \/ CloseDownload(c)

Next ==
  \/ \E p \in Procs :
       \/ \E kind \in Kinds, id \in ArtIds \cup {None} : Request(p, kind, id)
       \/ TaskStep(p)
       \/ Cancel(p)
       \/ Restart(p)
  \/ \E c \in Clients : \/ \E p \in Procs, id \in ArtIds : GetForDownload(c, p, id)
                        \/ DownloadStep(c)
  \/ RetentionStep

Spec == Init /\ [][Next]_vars

\* The goroutine of a request runs on until the request has ended.
FairSpec == Spec /\ \A p \in Procs : WF_vars(TaskStep(p))

-----------------------------------------------------------------------------
BackupRow(t) == t.kind \in {"backup", "auto"}
                /\ t.pc \in {"start", "dump", "encrypt", "artifact", "attach", "finish"}
RestoreRow(t) == t.kind \in {"restore", "dryrun"}
                 /\ t.pc \in {"exec", "load", "open", "ready", "drop", "pgrestore"}
Reloaded(t) == t.kind = "restore" /\ t.pc \in {"migrate", "exit", "unmaint", "cleanup"}

\* Every row that the checks of the other requests take for a running backup or
\* restore belongs to a request in progress, or came out of a dump and is still to
\* be reset by the restore that loaded it: no finished request leaves the pipeline
\* blocked behind it (HasRunningBackupRun, HasRunningRestoreRun).
ActiveRowsOwned ==
  up /\ ~(\E p \in Procs : Reloaded(task[p])) =>
    /\ \A i \in RunIds : db.runs[i] = "active" =>
         \E p \in Procs : BackupRow(task[p]) /\ task[p].row = i
    /\ \A i \in RestIds : db.rests[i] = "active" =>
         \E p \in Procs : RestoreRow(task[p]) /\ task[p].row = i

\* The maintenance mode, which answers 503 to every ordinary request, is on only
\* while a restore is replacing the database: no path out of executeRestore,
\* failures included, leaves it on.
MaintenanceOnlyInRestore ==
  up /\ db.maint =>
    \E p \in Procs : /\ task[p].kind = "restore"
                     /\ task[p].pc \in {"drop", "pgrestore", "migrate", "exit", "unmaint"}

\* Once DeleteBackup has seen that an artifact is not being downloaded, no download
\* of it is counted in that process until the deletion has ended: the look at the
\* counter and the lock's refusal of new downloads close the gap between them.
DeleteSparesDownloads ==
  \A c \in Clients, p \in Procs :
    /\ dl[c].pc \in {"begun", "open"} /\ dl[c].proc = p
    /\ task[p].kind = "delete" /\ task[p].pc \in {"find", "remove", "unlist"}
    => task[p].art # dl[c].art

\* The pipeline lock of a process names the request in progress and is free when
\* there is none; the limiter holds a token exactly at the steps between acquire and
\* release, so it never has more than one out and acquire never waits: the lock,
\* not BACKUP_MAX_PARALLEL, is what limits the operations.
LockMatchesTask ==
  \A p \in Procs :
    LET t == task[p] IN
    /\ t.pc = "idle" <=> t.kind = "none"
    /\ op[p] = IF t.kind = "none" THEN "" ELSE LockName(t.kind)
    /\ slots[p] = IF Holds(t) THEN 1 ELSE 0

\* The counter of an artifact is the number of its downloads in progress: no path
\* out of DownloadArtifact leaks one, which would forbid the deletion for good.
DownloadsCounted ==
  \A p \in Procs, i \in ArtIds :
    downloads[p][i] = Cardinality({c \in Clients : /\ dl[c].pc \in {"begun", "open"}
                                                  /\ dl[c].proc = p /\ dl[c].art = i})

\* A request that took the pipeline lock gives it back, on every path: the limiter
\* never runs out of tokens under the lock, and no step waits for another request.
PipelineFrees == \A p \in Procs : op[p] # "" ~> op[p] = ""

\* "Another backup operation is already running" (gui/static/i18n/en.json, the text
\* of the refusal): while the checks refuse requests, some operation is in progress.
BusyMeansRunning ==
  up /\ (HasRunningBackupRun(db) \/ HasRunningRestoreRun(db)) => \E p \in Procs : op[p] # ""

\* docs/eng/backups.md: "Retention removes old artifacts by retention_days while
\* keeping at least keep_last_successful backups": when the pass has made its list
\* and nobody is deleting by hand, the listed backups that stay and still have
\* their file are at least Keep, unless nothing is removed at all.
RetentionKeeps ==
  [][/\ ret.pc = "list" /\ ret'.pc = "remove"
     /\ \A p \in Procs : task[p].kind # "delete"
     =>
       Cardinality({i \in ArtIds : /\ db.arts[i] \in files
                                  /\ <<i, db.arts[i]>> \notin ret'.todo}) >= Keep]_ret

\* docs/eng/backups.md: "During a real restore, the app enables maintenance mode:
\* regular APIs are blocked (503) [...] turned off after restore completion": from
\* the start of pg_restore to the end of the migrations the middleware's look at the
\* database says so.
MaintenanceCoversRestore ==
  \A p \in Procs : task[p].kind = "restore" /\ task[p].pc \in {"migrate", "exit"} => db.maint
=============================================================================
