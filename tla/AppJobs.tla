------------------------------- MODULE AppJobs -------------------------------
(***************************************************************************)
(* The jobs of the compatibility wizard: the table app_jobs and the        *)
(* Worker of core/appjobs that runs them.                                  *)
(*                                                                         *)
(* Every process has one Worker; StopWithContext ends the context of its   *)
(* loop without waiting for it, so a later start leaves the old loop       *)
(* beside the new one.  An action is one statement on the table or one     *)
(* module's FullReset or PartialAdapt; the statements of a loop whose      *)
(* context has ended fail.                                                 *)
(*                                                                         *)
(* Abstractions.  A job carries the number of modules it resolves to (0    *)
(* for an unknown module id); its log, its audit records and what each     *)
(* module does are left out.                                               *)
(***************************************************************************)
EXTENDS Naturals

CONSTANTS Procs,     \* processes with a Worker
          Loops,     \* loops that can exist at the same time
          MaxJobs,   \* bound: ids of app_jobs
          MaxSize,   \* modules a job resolves to, at most
          Watched,   \* a job, to compare with JobLife
          Faults     \* the faults of the environment that are enabled

ASSUME ProcsAssumption == Procs # {}
ASSUME JobsAssumption == MaxJobs \in Nat /\ MaxSize \in Nat
ASSUME WatchedAssumption == Watched \in 1 .. MaxJobs
ASSUME JobFaultsAssumption == Faults \subseteq {"module", "stop", "crash"}

JobIds == 1 .. MaxJobs
Terminal == {"finished", "failed", "canceled"}
Status == {"none", "queued", "running"} \cup Terminal

VARIABLES status,    \* app_jobs.status of each id, "none" before it is created
          progress,  \* app_jobs.progress
          size,      \* modules the job resolves to
          njobs,     \* jobs created
          running,   \* Worker.running of each process
          current,   \* the loops that Worker.cancel ends, of each process
          loop,      \* the loops
          applied,   \* modules each job has reset or adapted
          late       \* how many of them since the job was canceled

tableVars == <<status, progress>>
vars == <<status, progress, size, njobs, running, current, loop, applied, late>>

LoopSteps == {"none", "wait", "claim", "start", "check", "report", "apply", "after", "finish"}

LoopRecord == [pc : LoopSteps, proc : Procs, live : BOOLEAN, job : JobIds \cup {0},
               i : 0 .. MaxSize, out : Terminal]

NoLoop == [pc |-> "none", proc |-> CHOOSE p \in Procs : TRUE, live |-> FALSE, job |-> 0, i |-> 0,
           out |-> "failed"]

TypeOK ==
  /\ status \in [JobIds -> Status]
  /\ progress \in [JobIds -> 0 .. 100]
  /\ size \in [JobIds -> 0 .. MaxSize]
  /\ njobs \in 0 .. MaxJobs
  /\ running \in [Procs -> BOOLEAN]
  /\ current \in [Procs -> SUBSET Loops]
  /\ loop \in [Loops -> LoopRecord]
  /\ applied \in [JobIds -> 0 .. MaxSize]
  /\ late \in [JobIds -> 0 .. MaxSize]

Init ==
  /\ status = [j \in JobIds |-> "none"]
  /\ progress = [j \in JobIds |-> 0]
  /\ size = [j \in JobIds |-> 0]
  /\ njobs = 0
  /\ running = [p \in Procs |-> FALSE]
  /\ current = [p \in Procs |-> {}]
  /\ loop = [l \in Loops |-> NoLoop]
  /\ applied = [j \in JobIds |-> 0]
  /\ late = [j \in JobIds |-> 0]

-----------------------------------------------------------------------------
(***************************************************************************)
(* The requests (AppJobsHandler, appJobsStore).                            *)
(***************************************************************************)
Create(n) ==
  /\ njobs < MaxJobs
  /\ njobs' = njobs + 1
  /\ status' = [status EXCEPT ![njobs + 1] = "queued"]
  /\ size' = [size EXCEPT ![njobs + 1] = n]
  /\ UNCHANGED <<progress, running, current, loop, applied, late>>

\* A request to cancel a job that has ended changes nothing (ok: false).
Cancel(j) ==
  /\ status[j] \in {"queued", "running"}
  /\ status' = [status EXCEPT ![j] = "canceled"]
  /\ progress' = [progress EXCEPT ![j] = 100]
  /\ UNCHANGED <<size, njobs, running, current, loop, applied, late>>

-----------------------------------------------------------------------------
(***************************************************************************)
(* StartWithContext, StopWithContext, and a process that dies.             *)
(***************************************************************************)
StartWithContext(p) ==
  /\ ~running[p]
  /\ running' = [running EXCEPT ![p] = TRUE]
  /\ \E l \in Loops :
       /\ loop[l].pc = "none"
       /\ loop' = [loop EXCEPT ![l] = [NoLoop EXCEPT !.pc = "wait", !.proc = p, !.live = TRUE]]
       /\ current' = [current EXCEPT ![p] = {l}]
  /\ UNCHANGED <<tableVars, size, njobs, applied, late>>

StopWithContext(p) ==
  /\ "stop" \in Faults
  /\ running[p]
  /\ running' = [running EXCEPT ![p] = FALSE]
  /\ current' = [current EXCEPT ![p] = {}]
  /\ loop' = [l \in Loops |-> IF l \in current[p] THEN [loop[l] EXCEPT !.live = FALSE] ELSE loop[l]]
  /\ UNCHANGED <<tableVars, size, njobs, applied, late>>

Crash(p) ==
  /\ "crash" \in Faults
  /\ running' = [running EXCEPT ![p] = FALSE]
  /\ current' = [current EXCEPT ![p] = {}]
  /\ loop' = [l \in Loops |-> IF loop[l].proc = p THEN NoLoop ELSE loop[l]]
  /\ UNCHANGED <<tableVars, size, njobs, applied, late>>

-----------------------------------------------------------------------------
(***************************************************************************)
(* loop, tick and run.                                                     *)
(***************************************************************************)
Goto(l, pc) == loop' = [loop EXCEPT ![l].pc = pc]

\* ctx.Done.
LeaveLoop(l) ==
  /\ loop[l].pc = "wait"
  /\ ~loop[l].live
  /\ loop' = [loop EXCEPT ![l] = NoLoop]
  /\ UNCHANGED <<tableVars, size, njobs, running, current, applied, late>>

\* The oldest queued job.
NextQueued(l) ==
  /\ loop[l].pc = "wait"
  /\ loop[l].live
  /\ \E j \in JobIds :
       /\ status[j] = "queued"
       /\ \A k \in JobIds : status[k] = "queued" => j <= k
       /\ loop' = [loop EXCEPT ![l].pc = "claim", ![l].job = j]
  /\ UNCHANGED <<tableVars, size, njobs, running, current, applied, late>>

\* Fault injected: MarkRunning does not look at the status.
MarkRunningAlways(l) ==
  /\ loop[l].pc = "claim"
  /\ IF loop[l].live
     THEN /\ status' = [status EXCEPT ![loop[l].job] = "running"]
          /\ Goto(l, "start")
     ELSE Goto(l, "wait") /\ UNCHANGED status
  /\ UNCHANGED <<progress, size, njobs, running, current, applied, late>>

\* UPDATE ... WHERE status='queued': of two loops that read the same job, one gets it.
MarkRunning(l) ==
  LET j == loop[l].job IN
  /\ loop[l].pc = "claim"
  /\ IF loop[l].live /\ status[j] = "queued"
     THEN /\ status' = [status EXCEPT ![j] = "running"]
          /\ Goto(l, "start")
     ELSE Goto(l, "wait") /\ UNCHANGED status
  /\ UNCHANGED <<progress, size, njobs, running, current, applied, late>>

\* UpdateProgress, whose error is ignored; it does not look at the status.
UpdateProgress(l, n) ==
  progress' = IF loop[l].live THEN [progress EXCEPT ![loop[l].job] = n] ELSE progress

\* The job starts at 0; a job that resolves to no module fails.
StartJob(l) ==
  /\ loop[l].pc = "start"
  /\ UpdateProgress(l, 0)
  /\ loop' = IF size[loop[l].job] = 0
             THEN [loop EXCEPT ![l].pc = "finish", ![l].out = "failed"]
             ELSE [loop EXCEPT ![l].pc = "check", ![l].i = 0]
  /\ UNCHANGED <<status, size, njobs, running, current, applied, late>>

\* Fault injected: only the first module is preceded by a look at the status.
CheckCanceledOnce(l) ==
  LET j == loop[l].job IN
  /\ loop[l].pc = "check"
  /\ loop[l].i < size[j]
  /\ loop' = IF loop[l].i = 0 /\ loop[l].live /\ status[j] = "canceled"
             THEN [loop EXCEPT ![l].pc = "finish", ![l].out = "canceled"]
             ELSE [loop EXCEPT ![l].pc = "report"]
  /\ UNCHANGED <<tableVars, size, njobs, running, current, applied, late>>

\* isCanceled before each module; when the job cannot be read it goes on.
CheckCanceled(l) ==
  LET j == loop[l].job IN
  /\ loop[l].pc = "check"
  /\ loop[l].i < size[j]
  /\ loop' = IF loop[l].live /\ status[j] = "canceled"
             THEN [loop EXCEPT ![l].pc = "finish", ![l].out = "canceled"]
             ELSE [loop EXCEPT ![l].pc = "report"]
  /\ UNCHANGED <<tableVars, size, njobs, running, current, applied, late>>

\* int(i / len(modules) * 100), at most 99.
Share(i, n) == LET share == (i * 100) \div n IN IF share > 99 THEN 99 ELSE share

ReportProgress(l) ==
  /\ loop[l].pc = "report"
  /\ UpdateProgress(l, Share(loop[l].i, size[loop[l].job]))
  /\ Goto(l, "apply")
  /\ UNCHANGED <<status, size, njobs, running, current, applied, late>>

\* applyModuleAction succeeds: the module's transaction and its files are done.
ApplyModule(l) ==
  LET j == loop[l].job IN
  /\ loop[l].pc = "apply"
  /\ loop[l].live
  /\ applied' = [applied EXCEPT ![j] = @ + 1]
  /\ late' = IF status[j] = "canceled" THEN [late EXCEPT ![j] = @ + 1] ELSE late
  /\ Goto(l, "after")
  /\ UNCHANGED <<tableVars, size, njobs, running, current>>

\* Fault injected: the error of a module is logged and the next one follows.
ModuleFailsOn(l) ==
  /\ loop[l].pc = "apply"
  /\ "module" \in Faults \/ ~loop[l].live
  /\ Goto(l, "after")
  /\ UNCHANGED <<tableVars, size, njobs, running, current, applied, late>>

\* Fault injected: the error of a module ends the tick without Finish.
ModuleFailsSilently(l) ==
  /\ loop[l].pc = "apply"
  /\ "module" \in Faults \/ ~loop[l].live
  /\ Goto(l, "wait")
  /\ UNCHANGED <<tableVars, size, njobs, running, current, applied, late>>

\* applyModuleAction fails: adapt with full, an error of the database or of a file.
ModuleFails(l) ==
  /\ loop[l].pc = "apply"
  /\ "module" \in Faults \/ ~loop[l].live
  /\ loop' = [loop EXCEPT ![l].pc = "finish", ![l].out = "failed"]
  /\ UNCHANGED <<tableVars, size, njobs, running, current, applied, late>>

AfterModule(l) ==
  LET i == loop[l].i IN
  /\ loop[l].pc = "after"
  /\ UpdateProgress(l, Share(i, size[loop[l].job]))
  /\ loop' = [loop EXCEPT ![l].pc = "check", ![l].i = i + 1]
  /\ UNCHANGED <<status, size, njobs, running, current, applied, late>>

LastProgress(l) ==
  /\ loop[l].pc = "check"
  /\ loop[l].i = size[loop[l].job]
  /\ UpdateProgress(l, 99)
  /\ loop' = [loop EXCEPT ![l].pc = "finish", ![l].out = "finished"]
  /\ UNCHANGED <<status, size, njobs, running, current, applied, late>>

\* Finish writes the outcome whatever the status is by now, a cancellation included.
FinishJob(l) ==
  LET j == loop[l].job IN
  /\ loop[l].pc = "finish"
  /\ status' = IF loop[l].live THEN [status EXCEPT ![j] = loop[l].out] ELSE status
  /\ UpdateProgress(l, 100)
  /\ Goto(l, "wait")
  /\ UNCHANGED <<size, njobs, running, current, applied, late>>

LoopStep(l) == \/ LeaveLoop(l) \/ NextQueued(l) \/ MarkRunning(l) \/ StartJob(l)
               \/ CheckCanceled(l) \/ ReportProgress(l) \/ ApplyModule(l) \/ ModuleFails(l)
               \/ AfterModule(l) \/ LastProgress(l) \/ FinishJob(l)

Next ==
  \/ \E n \in 0 .. MaxSize : Create(n)
  \/ \E j \in JobIds : Cancel(j)
  \/ \E p \in Procs : StartWithContext(p) \/ StopWithContext(p) \/ Crash(p)
  \/ \E l \in Loops : LoopStep(l)

Spec == Init /\ [][Next]_vars

\* The ticker of a loop keeps ticking, and a process that stopped is started again.
FairSpec == /\ Spec
            /\ \A l \in Loops : WF_vars(LoopStep(l))
            /\ \A p \in Procs : WF_vars(StartWithContext(p))

-----------------------------------------------------------------------------
Working(l) == loop[l].pc \notin {"none", "wait", "claim"}

Held(j) == \E l \in Loops : Working(l) /\ loop[l].job = j

J == INSTANCE JobLife WITH status <- status[Watched], size <- size[Watched],
                           done <- applied[Watched], late <- late[Watched],
                           held <- Held(Watched)

\* A job, any of them, lives the life of JobLife: claimed once, its modules dealt with once
\* each, ended by whoever holds it, though the loops read the table and write it at
\* different moments, old loops outlive StopWithContext and cancellations come in between.
JobKept == J!Spec

\* A job is run by one loop at most, though several loops read the queue, old loops
\* outlive StopWithContext and two processes share the table (MarkRunning).
OneRunner ==
  \A l, m \in Loops : Working(l) /\ Working(m) /\ loop[l].job = loop[m].job => l = m

\* A job that says 'finished' has dealt with each of its modules once: no failed,
\* skipped or repeated module hides behind the status the wizard shows.
FinishedMeansAll ==
  \A j \in JobIds : status[j] = "finished" => applied[j] = size[j] /\ size[j] > 0

\* Once a job is canceled, only the module in progress is still completed.
CancelStopsSoon == \A j \in JobIds : late[j] <= 1

\* While a job runs, its progress is no more than the share of modules done, and 99
\* stands for all of them.
ProgressHonest ==
  \A j \in JobIds : status[j] = "running" => progress[j] * size[j] <= 100 * applied[j]

\* A job canceled while no loop runs it stays canceled and nothing more is done for
\* it, even by a loop that has read it as queued.
CanceledUnclaimedStays ==
  [][\A j \in JobIds :
       status[j] = "canceled" /\ ~Held(j) =>
         status'[j] = "canceled" /\ applied'[j] = applied[j]]_vars

\* A job that a loop runs ends, whatever its modules and the other loops do and whether it
\* is canceled or not, unless that loop is stopped or its process dies.
ServedJobsEnd ==
  \A l \in Loops, j \in JobIds :
    status[j] = "running" /\ Working(l) /\ loop[l].job = j
      ~> status[j] \in Terminal \/ ~loop[l].live

\* docs/eng/compatibility.md: "Actions run as background jobs, and the UI polls
\* progress until completion": a job that runs ends.
JobsComplete == \A j \in JobIds : status[j] = "running" ~> status[j] \in Terminal
=============================================================================
