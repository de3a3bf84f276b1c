--------------------------- MODULE AppJobsProofs ---------------------------
(***************************************************************************)
(* Proofs about AppJobs for any number of processes, loops, jobs and       *)
(* modules, with every fault enabled.                                      *)
(*                                                                         *)
(* A loop's private view of its job (LoopShape) is tied to the table: the  *)
(* job it works on is 'running' or 'canceled', and its module index is the *)
(* number of modules applied.  Both survive the steps of the other loops   *)
(* because no two loops work on one job (OneRunner), which in turn holds   *)
(* because the job a loop claims was 'queued', and nobody works on one.    *)
(* The same facts make every step a step of JobLife (JobImplemented).      *)
(***************************************************************************)
EXTENDS AppJobs, TLAPS

\* What the table says of a job.
TableShape ==
  \A j \in JobIds :
    /\ status[j] = "none" <=> j > njobs
    /\ applied[j] <= size[j]
    /\ late[j] <= applied[j]
    /\ status[j] \in {"none", "queued"} => applied[j] = 0
    /\ status[j] \in {"none", "queued", "running"} => late[j] = 0

\* What a loop at each of its steps knows of its job.
LoopShape(l) ==
  LET r == loop[l]
      j == loop[l].job IN
  /\ r.pc = "claim" => j \in JobIds /\ status[j] # "none"
  /\ Working(l) => j \in JobIds /\ status[j] \in {"running", "canceled"}
  /\ r.pc = "start" => applied[j] = 0
  /\ r.pc \in {"check", "report", "apply"} => applied[j] = r.i
  /\ r.pc = "after" => applied[j] = r.i + 1
  /\ r.pc \in {"report", "apply"} => r.i < size[j] /\ (late[j] > 0 => ~r.live)
  /\ r.pc \in {"check", "report", "apply", "after"} => size[j] > 0
  /\ r.pc = "finish" /\ r.out = "finished" => applied[j] = size[j] /\ size[j] > 0
  /\ r.pc = "finish" /\ r.out = "canceled" => status[j] = "canceled"

LoopsShape == \A l \in Loops : LoopShape(l)

IInv == /\ TypeOK
        /\ TableShape
        /\ LoopsShape
        /\ OneRunner
        /\ FinishedMeansAll
        /\ CancelStopsSoon

-----------------------------------------------------------------------------
LEMMA InitInvariant == Init => IInv
<1> SUFFICES ASSUME Init PROVE IInv
  OBVIOUS
<1>1. NoLoop \in LoopRecord
  BY ProcsAssumption, JobsAssumption DEF NoLoop, LoopRecord, LoopSteps, Terminal
<1>2. TypeOK
  BY <1>1, JobsAssumption DEF Init, TypeOK, Status
<1>3. TableShape
  BY DEF Init, TableShape, JobIds
<1>4. \A l \in Loops : loop[l].pc = "none"
  BY DEF Init, NoLoop
<1> QED BY <1>2, <1>3, <1>4
        DEF Init, IInv, LoopsShape, LoopShape, Working, OneRunner, FinishedMeansAll, CancelStopsSoon

\* A step that touches no job and makes no loop work on one.
LEMMA LoopsOnly ==
  ASSUME IInv, loop' \in [Loops -> LoopRecord],
         running' \in [Procs -> BOOLEAN], current' \in [Procs -> SUBSET Loops],
         UNCHANGED <<status, progress, size, njobs, applied, late>>,
         \A l \in Loops : \/ loop'[l].pc \in {"none", "wait"}
                          \/ /\ loop'[l] = [loop[l] EXCEPT !.live = FALSE]
                          \/ loop'[l] = loop[l]
  PROVE  IInv'
<1>1. TypeOK'
  BY DEF IInv, TypeOK
<1>2. \A l \in Loops : loop'[l].pc \notin {"none", "wait"} =>
        /\ loop'[l].pc = loop[l].pc
        /\ loop'[l].job = loop[l].job
        /\ loop'[l].i = loop[l].i
        /\ loop'[l].out = loop[l].out
        /\ loop'[l].live => loop[l].live
  BY DEF IInv, TypeOK, LoopRecord
<1>3. LoopsShape'
  BY <1>2 DEF IInv, LoopsShape, LoopShape, Working
<1>4. OneRunner'
  BY <1>2 DEF IInv, OneRunner, Working
<1> QED BY <1>1, <1>3, <1>4 DEF IInv, TableShape, FinishedMeansAll, CancelStopsSoon

LEMMA ProcessSteps ==
  ASSUME IInv, NEW p \in Procs, StartWithContext(p) \/ StopWithContext(p) \/ Crash(p)
  PROVE  IInv'
<1>a. NoLoop \in LoopRecord
  BY ProcsAssumption, JobsAssumption DEF NoLoop, LoopRecord, LoopSteps, Terminal
<1>b. loop \in [Loops -> LoopRecord] /\ running \in [Procs -> BOOLEAN]
      /\ current \in [Procs -> SUBSET Loops]
  BY DEF IInv, TypeOK
<1>1. CASE StartWithContext(p)
  <2>1. PICK l \in Loops :
          /\ loop' = [loop EXCEPT ![l] = [NoLoop EXCEPT !.pc = "wait", !.proc = p, !.live = TRUE]]
          /\ current' = [current EXCEPT ![p] = {l}]
    BY <1>1 DEF StartWithContext
  <2>2. [NoLoop EXCEPT !.pc = "wait", !.proc = p, !.live = TRUE] \in LoopRecord
    BY <1>a DEF LoopRecord, LoopSteps
  <2>3. [NoLoop EXCEPT !.pc = "wait", !.proc = p, !.live = TRUE].pc = "wait"
    BY <1>a DEF LoopRecord
  <2> HIDE DEF NoLoop
  <2>4. loop' \in [Loops -> LoopRecord] /\ \A k \in Loops : loop'[k].pc = "wait" \/ loop'[k] = loop[k]
    BY <1>b, <2>1, <2>2, <2>3
  <2>5. current' \in [Procs -> SUBSET Loops] /\ running' \in [Procs -> BOOLEAN]
    BY <1>1, <1>b, <2>1 DEF StartWithContext
  <2> QED BY <1>1, <2>4, <2>5, LoopsOnly DEF StartWithContext, tableVars
<1>2. CASE StopWithContext(p)
  <2>1. loop' \in [Loops -> LoopRecord]
    <3>1. \A l \in Loops : [loop[l] EXCEPT !.live = FALSE] \in LoopRecord
      BY <1>b DEF LoopRecord
    <3> QED BY <1>2, <1>b, <3>1 DEF StopWithContext
  <2>2. \A l \in Loops : loop'[l] = loop[l] \/ loop'[l] = [loop[l] EXCEPT !.live = FALSE]
    BY <1>2 DEF StopWithContext
  <2>3. current' \in [Procs -> SUBSET Loops] /\ running' \in [Procs -> BOOLEAN]
    BY <1>2, <1>b DEF StopWithContext
  <2> QED BY <1>2, <2>1, <2>2, <2>3, LoopsOnly DEF StopWithContext, tableVars
<1>3. CASE Crash(p)
  <2>1. loop' \in [Loops -> LoopRecord]
    BY <1>3, <1>a, <1>b DEF Crash
  <2>2. \A l \in Loops : loop'[l] = loop[l] \/ loop'[l].pc = "none"
    BY <1>3, <1>b DEF Crash, NoLoop
  <2>3. current' \in [Procs -> SUBSET Loops] /\ running' \in [Procs -> BOOLEAN]
    BY <1>3, <1>b DEF Crash
  <2> QED BY <1>3, <2>1, <2>2, <2>3, LoopsOnly DEF Crash, tableVars
<1> QED BY <1>1, <1>2, <1>3

-----------------------------------------------------------------------------
LEMMA CreateStep ==
  ASSUME IInv, NEW n \in 0 .. MaxSize, Create(n)
  PROVE  IInv'
<1>1. njobs + 1 \in JobIds /\ njobs' = njobs + 1 /\ njobs' \in 0 .. MaxJobs
  BY JobsAssumption DEF IInv, TypeOK, Create, JobIds
<1>2. TypeOK'
  BY <1>1 DEF IInv, TypeOK, Create, Status
<1>3. status[njobs + 1] = "none" /\ applied[njobs + 1] = 0 /\ late[njobs + 1] = 0
  <2>1. njobs + 1 > njobs
    BY DEF IInv, TypeOK
  <2>2. status[njobs + 1] = "none" /\ applied[njobs + 1] = 0
    BY <1>1, <2>1 DEF IInv, TableShape
  <2> QED BY <1>1, <2>2 DEF IInv, TableShape
<1>4. /\ \A j \in JobIds : j # njobs + 1 => status'[j] = status[j] /\ size'[j] = size[j]
      /\ status'[njobs + 1] = "queued"
      /\ UNCHANGED <<applied, late, loop>>
  BY <1>1 DEF IInv, TypeOK, Create
<1>5. TableShape'
  <2>1. \A j \in JobIds : j # njobs + 1 => (j > njobs' <=> j > njobs)
    BY <1>1 DEF IInv, TypeOK, JobIds
  <2>2. size'[njobs + 1] \in Nat
    BY <1>1, <1>2, JobsAssumption DEF TypeOK
  <2>3. ~(njobs + 1 > njobs')
    BY <1>1 DEF IInv, TypeOK
  <2> QED BY <1>1, <1>3, <1>4, <2>1, <2>2, <2>3 DEF IInv, TableShape
<1>6. LoopsShape'
  BY <1>3, <1>4 DEF IInv, TypeOK, LoopRecord, LoopsShape, LoopShape, Working
<1>7. OneRunner'
  BY <1>4 DEF IInv, OneRunner, Working
<1>8. FinishedMeansAll' /\ CancelStopsSoon'
  BY <1>1, <1>4 DEF IInv, FinishedMeansAll, CancelStopsSoon
<1> QED BY <1>2, <1>5, <1>6, <1>7, <1>8 DEF IInv

LEMMA CancelStep ==
  ASSUME IInv, NEW j \in JobIds, Cancel(j)
  PROVE  IInv'
<1>1. TypeOK'
  BY DEF IInv, TypeOK, Cancel, Status, Terminal
<1>2. /\ \A k \in JobIds : k # j => status'[k] = status[k]
      /\ status'[j] = "canceled" /\ status[j] \in {"queued", "running"}
      /\ UNCHANGED <<size, njobs, applied, late, loop>>
  BY DEF IInv, TypeOK, Cancel
<1>3. TableShape'
  BY <1>2 DEF IInv, TableShape
<1>4. LoopsShape'
  BY <1>2 DEF IInv, TypeOK, LoopRecord, LoopsShape, LoopShape, Working
<1>5. OneRunner' /\ FinishedMeansAll' /\ CancelStopsSoon'
  BY <1>2 DEF IInv, OneRunner, Working, FinishedMeansAll, CancelStopsSoon
<1> QED BY <1>1, <1>3, <1>4, <1>5 DEF IInv

-----------------------------------------------------------------------------
\* A step of loop l that changes the table at its own job only, which no other
\* loop works on.
LEMMA LoopMoves ==
  ASSUME IInv, NEW l \in Loops, NEW r,
         loop' = [loop EXCEPT ![l] = r],
         TypeOK', TableShape', LoopShape(l)', FinishedMeansAll', CancelStopsSoon',
         r.job = loop[l].job, UNCHANGED <<size, njobs>>,
         \A m \in Loops : m # l /\ Working(m) => loop[m].job # loop[l].job,
         \A k \in JobIds : \/ k # loop[l].job /\ status'[k] = status[k]
                              /\ applied'[k] = applied[k] /\ late'[k] = late[k]
                           \/ k = loop[l].job /\ status'[k] # "none"
  PROVE  IInv'
<1>1. loop'[l] = r /\ \A m \in Loops : m # l => loop'[m] = loop[m]
  BY DEF IInv, TypeOK
<1>2. ASSUME NEW m \in Loops, m # l PROVE LoopShape(m)'
  <2>1. LoopShape(m) /\ loop'[m] = loop[m]
    BY <1>1, <1>2 DEF IInv, LoopsShape
  <2>2. CASE Working(m)
    <3>1. loop[m].job \in JobIds /\ loop[m].job # loop[l].job
      BY <1>2, <2>1, <2>2 DEF LoopShape
    <3>2. /\ status'[loop[m].job] = status[loop[m].job]
          /\ applied'[loop[m].job] = applied[loop[m].job]
          /\ late'[loop[m].job] = late[loop[m].job]
      BY <3>1
    <3> QED BY <2>1, <3>2 DEF LoopShape, Working
  <2>3. CASE ~Working(m)
    <3>1. loop[m].pc \in {"none", "wait", "claim"}
      BY <2>3 DEF Working
    <3>2. loop[m].pc = "claim" => loop[m].job \in JobIds /\ status'[loop[m].job] # "none"
      BY <2>1 DEF LoopShape
    <3> QED BY <2>1, <3>1, <3>2 DEF LoopShape, Working
  <2> QED BY <2>2, <2>3
<1>3. LoopsShape'
  BY <1>2 DEF LoopsShape
<1>4. OneRunner'
  <2> SUFFICES ASSUME NEW m \in Loops, NEW n \in Loops, Working(m)', Working(n)',
                      loop'[m].job = loop'[n].job, m # n
               PROVE  FALSE
    BY DEF OneRunner
  <2>1. CASE m # l /\ n # l
    BY <1>1, <2>1 DEF IInv, OneRunner, Working
  <2>2. CASE m = l
    BY <1>1, <2>2 DEF Working
  <2>3. CASE n = l
    BY <1>1, <2>3 DEF Working
  <2> QED BY <2>1, <2>2, <2>3
<1> QED BY <1>3, <1>4 DEF IInv

\* A step of a loop that leaves the table alone, as far as the invariant reads it.
LEMMA LoopMovesOnly ==
  ASSUME IInv, NEW l \in Loops, NEW r \in LoopRecord,
         loop' = [loop EXCEPT ![l] = r], progress' \in [JobIds -> 0 .. 100],
         UNCHANGED <<status, size, njobs, running, current, applied, late>>,
         LoopShape(l)', r.job = loop[l].job, Working(l)
  PROVE  IInv'
<1>1. TypeOK'
  BY DEF IInv, TypeOK
<1>2. TableShape' /\ FinishedMeansAll' /\ CancelStopsSoon'
  BY DEF IInv, TableShape, FinishedMeansAll, CancelStopsSoon
<1>3. \A m \in Loops : m # l /\ Working(m) => loop[m].job # loop[l].job
  BY DEF IInv, OneRunner
<1>4. \A k \in JobIds : status[k] = "none" => k # loop[l].job
  BY DEF IInv, LoopsShape, LoopShape
<1> QED BY <1>1, <1>2, <1>3, <1>4, LoopMoves

LEMMA ProgressType ==
  ASSUME TypeOK, NEW l \in Loops, NEW n \in 0 .. 100, UpdateProgress(l, n)
  PROVE  progress' \in [JobIds -> 0 .. 100]
  BY DEF TypeOK, UpdateProgress

LEMMA ShareType ==
  ASSUME NEW i \in Nat, NEW n \in Nat, n > 0
  PROVE  Share(i, n) \in 0 .. 100
<1>1. (i * 100) \div n \in Nat
  <2>1. i * 100 \in Nat
    OBVIOUS
  <2> QED BY <2>1
<1> QED BY <1>1 DEF Share

-----------------------------------------------------------------------------
LEMMA WaitingSteps ==
  ASSUME IInv, NEW l \in Loops, LeaveLoop(l) \/ NextQueued(l)
  PROVE  IInv'
<1>a. loop \in [Loops -> LoopRecord] /\ NoLoop \in LoopRecord
  BY ProcsAssumption, JobsAssumption
  DEF IInv, TypeOK, NoLoop, LoopRecord, LoopSteps, Terminal
<1>1. CASE LeaveLoop(l)
  <2>1. loop' \in [Loops -> LoopRecord]
    BY <1>1, <1>a DEF LeaveLoop
  <2>2. \A m \in Loops : loop'[m] = loop[m] \/ loop'[m].pc = "none"
    BY <1>1, <1>a DEF LeaveLoop, NoLoop
  <2> QED BY <1>1, <2>1, <2>2, LoopsOnly DEF LeaveLoop, tableVars, IInv, TypeOK
<1>2. CASE NextQueued(l)
  <2>1. PICK j \in JobIds : /\ status[j] = "queued"
                           /\ loop' = [loop EXCEPT ![l].pc = "claim", ![l].job = j]
    BY <1>2 DEF NextQueued
  <2> DEFINE r == [loop[l] EXCEPT !.pc = "claim", !.job = j]
  <2>2. r \in LoopRecord /\ r.pc = "claim" /\ r.job = j
    BY <1>a DEF LoopRecord, LoopSteps
  <2>3. loop' = [loop EXCEPT ![l] = r]
    BY <2>1, <1>a
  <2> HIDE DEF r
  <2>4. loop'[l] = r /\ \A m \in Loops : m # l => loop'[m] = loop[m]
    BY <2>3, <1>a
  <2>5. UNCHANGED <<status, progress, size, njobs, running, current, applied, late>>
    BY <1>2 DEF NextQueued, tableVars
  <2>6. TypeOK'
    BY <2>2, <2>3, <2>5 DEF IInv, TypeOK
  <2>7. LoopsShape'
    <3>1. LoopShape(l)'
      BY <2>1, <2>2, <2>4, <2>5 DEF LoopShape, Working
    <3>2. \A m \in Loops : m # l => LoopShape(m)'
      BY <2>4, <2>5 DEF IInv, LoopsShape, LoopShape, Working
    <3> QED BY <3>1, <3>2 DEF LoopsShape
  <2>8. OneRunner'
    BY <2>2, <2>4 DEF IInv, OneRunner, Working
  <2>9. TableShape' /\ FinishedMeansAll' /\ CancelStopsSoon'
    BY <2>5 DEF IInv, TableShape, FinishedMeansAll, CancelStopsSoon
  <2> QED BY <2>6, <2>7, <2>8, <2>9 DEF IInv
<1> QED BY <1>1, <1>2

LEMMA MarkRunningStep ==
  ASSUME IInv, NEW l \in Loops, MarkRunning(l)
  PROVE  IInv'
<1>a. loop \in [Loops -> LoopRecord] /\ status \in [JobIds -> Status]
  BY DEF IInv, TypeOK
<1> DEFINE j == loop[l].job
<1>1. CASE loop[l].live /\ status[j] = "queued"
  <2> DEFINE r == [loop[l] EXCEPT !.pc = "start"]
  <2>1. r \in LoopRecord /\ r.pc = "start" /\ r.job = j
    BY <1>a DEF LoopRecord, LoopSteps
  <2>2. loop' = [loop EXCEPT ![l] = r] /\ status' = [status EXCEPT ![j] = "running"]
    BY <1>1, <1>a DEF MarkRunning, Goto
  <2>3. UNCHANGED <<progress, size, njobs, running, current, applied, late>>
    BY DEF MarkRunning
  <2>4. j \in JobIds
    BY DEF IInv, LoopsShape, LoopShape, MarkRunning
  <2>5. TypeOK'
    BY <2>1, <2>2, <2>3 DEF IInv, TypeOK, Status
  <2>6. /\ status'[j] = "running" /\ \A k \in JobIds : k # j => status'[k] = status[k]
        /\ applied[j] = 0 /\ late[j] = 0
    BY <1>1, <1>a, <2>2, <2>4 DEF IInv, TableShape
  <2>7. TableShape'
    BY <1>1, <2>3, <2>4, <2>6 DEF IInv, TableShape
  <2>8. loop'[l] = r
    BY <2>2, <1>a
  <2> HIDE DEF r
  <2>9. LoopShape(l)'
    BY <2>1, <2>3, <2>4, <2>6, <2>8 DEF LoopShape, Working
  <2>10. FinishedMeansAll' /\ CancelStopsSoon'
    BY <2>3, <2>4, <2>6 DEF IInv, FinishedMeansAll, CancelStopsSoon
  <2>11. \A m \in Loops : Working(m) => loop[m].job # j
    BY <1>1 DEF IInv, LoopsShape, LoopShape
  <2> QED BY <2>1, <2>2, <2>3, <2>5, <2>6, <2>7, <2>9, <2>10, <2>11, LoopMoves
<1>2. CASE ~(loop[l].live /\ status[j] = "queued")
  <2>1. loop' = [loop EXCEPT ![l].pc = "wait"]
        /\ UNCHANGED <<status, progress, size, njobs, running, current, applied, late>>
    BY <1>2 DEF MarkRunning, Goto
  <2>2. [loop[l] EXCEPT !.pc = "wait"] \in LoopRecord
        /\ [loop[l] EXCEPT !.pc = "wait"].pc = "wait"
    BY <1>a DEF LoopRecord, LoopSteps
  <2>3. loop' \in [Loops -> LoopRecord]
        /\ \A m \in Loops : loop'[m] = loop[m] \/ loop'[m].pc = "wait"
    BY <1>a, <2>1, <2>2
  <2> QED BY <2>1, <2>3, LoopsOnly DEF IInv, TypeOK
<1> QED BY <1>1, <1>2

\* The steps between MarkRunning and Finish that write progress at most.
LEMMA ReadingSteps ==
  ASSUME IInv, NEW l \in Loops,
         \/ StartJob(l) \/ CheckCanceled(l) \/ ReportProgress(l) \/ ModuleFails(l)
         \/ AfterModule(l) \/ LastProgress(l)
  PROVE  IInv'
<1> DEFINE j == loop[l].job
<1>a. loop[l] \in LoopRecord /\ loop \in [Loops -> LoopRecord] /\ TypeOK
      /\ progress \in [JobIds -> 0 .. 100]
  BY DEF IInv, TypeOK
<1>b. LoopShape(l)
  BY DEF IInv, LoopsShape
<1>c. Working(l)
  BY DEF Working, StartJob, CheckCanceled, ReportProgress, ModuleFails, AfterModule, LastProgress
<1>d. /\ j \in JobIds /\ status[j] \in {"running", "canceled"}
      /\ size[j] \in 0 .. MaxSize /\ applied[j] \in 0 .. MaxSize /\ applied[j] <= size[j]
      /\ late[j] > 0 => status[j] = "canceled"
      /\ loop[l].i \in 0 .. MaxSize
  <2>1. j \in JobIds /\ status[j] \in {"running", "canceled"}
    BY <1>b, <1>c DEF LoopShape
  <2>2. late[j] \in Nat
    BY <2>1, JobsAssumption DEF IInv, TypeOK
  <2> QED BY <1>a, <2>1, <2>2 DEF IInv, TypeOK, TableShape, LoopRecord
<1>1. CASE StartJob(l)
  <2>1. progress' \in [JobIds -> 0 .. 100]
    BY <1>1, <1>a, ProgressType DEF StartJob
  <2>2. UNCHANGED <<status, size, njobs, running, current, applied, late>>
    BY <1>1 DEF StartJob
  <2>3. CASE size[j] = 0
    <3> DEFINE r == [loop[l] EXCEPT !.pc = "finish", !.out = "failed"]
    <3>1. r \in LoopRecord /\ r.pc = "finish" /\ r.out = "failed" /\ r.job = j
      BY <1>a DEF LoopRecord, LoopSteps, Terminal
    <3>2. loop' = [loop EXCEPT ![l] = r] /\ loop'[l] = r
      BY <1>1, <1>a, <2>3 DEF StartJob
    <3> HIDE DEF r
    <3>3. LoopShape(l)'
      BY <1>d, <2>2, <3>1, <3>2 DEF LoopShape, Working
    <3> QED BY <1>c, <2>1, <2>2, <3>1, <3>2, <3>3, LoopMovesOnly
  <2>4. CASE size[j] # 0
    <3> DEFINE r == [loop[l] EXCEPT !.pc = "check", !.i = 0]
    <3>a. 0 \in 0 .. MaxSize
      BY JobsAssumption
    <3>1. r \in LoopRecord /\ r.pc = "check" /\ r.i = 0 /\ r.job = j
      BY <1>a, <3>a DEF LoopRecord, LoopSteps
    <3>2. loop' = [loop EXCEPT ![l] = r] /\ loop'[l] = r
      BY <1>1, <1>a, <2>4 DEF StartJob
    <3> HIDE DEF r
    <3>3. applied[j] = 0 /\ size[j] > 0
      BY <1>1, <1>b, <1>d, <2>4 DEF StartJob, LoopShape
    <3>4. LoopShape(l)'
      BY <1>d, <2>2, <3>1, <3>2, <3>3 DEF LoopShape, Working
    <3> QED BY <1>c, <2>1, <2>2, <3>1, <3>2, <3>4, LoopMovesOnly
  <2> QED BY <2>3, <2>4
<1>2. CASE CheckCanceled(l)
  <2>1. UNCHANGED <<status, progress, size, njobs, running, current, applied, late>>
    BY <1>2 DEF CheckCanceled, tableVars
  <2>2. CASE loop[l].live /\ status[j] = "canceled"
    <3> DEFINE r == [loop[l] EXCEPT !.pc = "finish", !.out = "canceled"]
    <3>1. r \in LoopRecord /\ r.pc = "finish" /\ r.out = "canceled" /\ r.job = j
      BY <1>a DEF LoopRecord, LoopSteps, Terminal
    <3>2. loop' = [loop EXCEPT ![l] = r] /\ loop'[l] = r
      BY <1>2, <1>a, <2>2 DEF CheckCanceled
    <3> HIDE DEF r
    <3>3. LoopShape(l)'
      BY <1>d, <2>1, <2>2, <3>1, <3>2 DEF LoopShape, Working
    <3> QED BY <1>a, <1>c, <2>1, <3>1, <3>2, <3>3, LoopMovesOnly
  <2>3. CASE ~(loop[l].live /\ status[j] = "canceled")
    <3> DEFINE r == [loop[l] EXCEPT !.pc = "report"]
    <3>1. r \in LoopRecord /\ r.pc = "report" /\ r.i = loop[l].i /\ r.job = j
          /\ r.live = loop[l].live
      BY <1>a DEF LoopRecord, LoopSteps
    <3>2. loop' = [loop EXCEPT ![l] = r] /\ loop'[l] = r
      BY <1>2, <1>a, <2>3 DEF CheckCanceled
    <3> HIDE DEF r
    <3>3. applied[j] = loop[l].i /\ loop[l].i < size[j] /\ size[j] > 0
      BY <1>2, <1>b DEF CheckCanceled, LoopShape
    <3>4. late[j] > 0 => ~loop[l].live
      BY <1>d, <2>3
    <3>5. LoopShape(l)'
      BY <1>d, <2>1, <3>1, <3>2, <3>3, <3>4 DEF LoopShape, Working
    <3> QED BY <1>a, <1>c, <2>1, <3>1, <3>2, <3>5, LoopMovesOnly
  <2> QED BY <2>2, <2>3
<1>3. CASE ReportProgress(l)
  <2> DEFINE r == [loop[l] EXCEPT !.pc = "apply"]
  <2>1. r \in LoopRecord /\ r.pc = "apply" /\ r.i = loop[l].i /\ r.job = j /\ r.live = loop[l].live
    BY <1>a DEF LoopRecord, LoopSteps
  <2>2. loop' = [loop EXCEPT ![l] = r] /\ loop'[l] = r
        /\ UNCHANGED <<status, size, njobs, running, current, applied, late>>
    BY <1>3, <1>a DEF ReportProgress, Goto
  <2>3. size[j] > 0
    BY <1>3, <1>b DEF ReportProgress, LoopShape
  <2>4. progress' \in [JobIds -> 0 .. 100]
    <3>1. Share(loop[l].i, size[j]) \in 0 .. 100
      BY <1>d, <2>3, JobsAssumption, ShareType
    <3> QED BY <1>3, <1>a, <3>1, ProgressType DEF ReportProgress
  <2> HIDE DEF r
  <2>5. LoopShape(l)'
    BY <1>3, <1>b, <1>d, <2>1, <2>2 DEF LoopShape, Working, ReportProgress
  <2> QED BY <1>c, <2>1, <2>2, <2>4, <2>5, LoopMovesOnly
<1>4. CASE ModuleFails(l)
  <2> DEFINE r == [loop[l] EXCEPT !.pc = "finish", !.out = "failed"]
  <2>1. r \in LoopRecord /\ r.pc = "finish" /\ r.out = "failed" /\ r.job = j
    BY <1>a DEF LoopRecord, LoopSteps, Terminal
  <2>2. loop' = [loop EXCEPT ![l] = r] /\ loop'[l] = r
        /\ UNCHANGED <<status, progress, size, njobs, running, current, applied, late>>
    BY <1>4, <1>a DEF ModuleFails, tableVars
  <2> HIDE DEF r
  <2>3. LoopShape(l)'
    BY <1>d, <2>1, <2>2 DEF LoopShape, Working
  <2> QED BY <1>a, <1>c, <2>1, <2>2, <2>3, LoopMovesOnly
<1>5. CASE AfterModule(l)
  <2> DEFINE r == [loop[l] EXCEPT !.pc = "check", !.i = loop[l].i + 1]
  <2>1. applied[j] = loop[l].i + 1 /\ size[j] > 0
    BY <1>5, <1>b DEF AfterModule, LoopShape
  <2>2. loop[l].i + 1 \in 0 .. MaxSize
    BY <1>d, <2>1
  <2>3. r \in LoopRecord /\ r.pc = "check" /\ r.i = loop[l].i + 1 /\ r.job = j
    BY <1>a, <2>2 DEF LoopRecord, LoopSteps
  <2>4. loop' = [loop EXCEPT ![l] = r] /\ loop'[l] = r
        /\ UNCHANGED <<status, size, njobs, running, current, applied, late>>
    BY <1>5, <1>a DEF AfterModule
  <2>5. progress' \in [JobIds -> 0 .. 100]
    <3>1. Share(loop[l].i, size[j]) \in 0 .. 100
      BY <1>d, <2>1, JobsAssumption, ShareType
    <3> QED BY <1>5, <1>a, <3>1, ProgressType DEF AfterModule
  <2> HIDE DEF r
  <2>6. LoopShape(l)'
    BY <1>d, <2>1, <2>3, <2>4 DEF LoopShape, Working
  <2> QED BY <1>c, <2>3, <2>4, <2>5, <2>6, LoopMovesOnly
<1>6. CASE LastProgress(l)
  <2> DEFINE r == [loop[l] EXCEPT !.pc = "finish", !.out = "finished"]
  <2>1. r \in LoopRecord /\ r.pc = "finish" /\ r.out = "finished" /\ r.job = j
    BY <1>a DEF LoopRecord, LoopSteps, Terminal
  <2>2. loop' = [loop EXCEPT ![l] = r] /\ loop'[l] = r
        /\ UNCHANGED <<status, size, njobs, running, current, applied, late>>
    BY <1>6, <1>a DEF LastProgress
  <2>3. progress' \in [JobIds -> 0 .. 100]
    BY <1>6, <1>a, ProgressType DEF LastProgress
  <2>4. applied[j] = size[j] /\ size[j] > 0
    BY <1>6, <1>b DEF LastProgress, LoopShape
  <2> HIDE DEF r
  <2>5. LoopShape(l)'
    BY <1>d, <2>1, <2>2, <2>4 DEF LoopShape, Working
  <2> QED BY <1>c, <2>1, <2>2, <2>3, <2>5, LoopMovesOnly
<1> QED BY <1>1, <1>2, <1>3, <1>4, <1>5, <1>6

LEMMA ApplyModuleStep ==
  ASSUME IInv, NEW l \in Loops, ApplyModule(l)
  PROVE  IInv'
<1> DEFINE j == loop[l].job
<1>a. loop[l] \in LoopRecord /\ loop \in [Loops -> LoopRecord] /\ LoopShape(l) /\ Working(l)
  BY DEF IInv, TypeOK, LoopsShape, ApplyModule, Working
<1>b. /\ j \in JobIds /\ status[j] \in {"running", "canceled"}
      /\ applied[j] = loop[l].i /\ loop[l].i < size[j] /\ (late[j] > 0 => ~loop[l].live)
      /\ loop[l].live
  BY <1>a DEF ApplyModule, LoopShape
<1>c. /\ size[j] \in 0 .. MaxSize /\ applied[j] \in 0 .. MaxSize /\ late[j] \in 0 .. MaxSize
      /\ applied \in [JobIds -> 0 .. MaxSize] /\ late \in [JobIds -> 0 .. MaxSize]
  BY <1>b DEF IInv, TypeOK
<1>d. late[j] = 0 /\ applied[j] + 1 \in 0 .. MaxSize /\ applied[j] + 1 <= size[j]
      /\ late[j] + 1 \in 0 .. MaxSize
  BY <1>b, <1>c, JobsAssumption
<1> DEFINE r == [loop[l] EXCEPT !.pc = "after"]
<1>1. r \in LoopRecord /\ r.pc = "after" /\ r.i = loop[l].i /\ r.job = j
  BY <1>a DEF LoopRecord, LoopSteps
<1>2. loop' = [loop EXCEPT ![l] = r] /\ loop'[l] = r
      /\ UNCHANGED <<status, progress, size, njobs, running, current>>
  BY <1>a DEF ApplyModule, Goto, tableVars
<1> HIDE DEF r
<1>3. /\ applied' = [applied EXCEPT ![j] = applied[j] + 1]
      /\ late' = IF status[j] = "canceled" THEN [late EXCEPT ![j] = late[j] + 1] ELSE late
  BY DEF ApplyModule
<1>4. applied' \in [JobIds -> 0 .. MaxSize] /\ late' \in [JobIds -> 0 .. MaxSize]
  BY <1>c, <1>d, <1>3
<1>5. TypeOK'
  BY <1>1, <1>2, <1>4 DEF IInv, TypeOK
<1>6. /\ applied'[j] = loop[l].i + 1
      /\ late'[j] = IF status[j] = "canceled" THEN 1 ELSE 0
      /\ \A k \in JobIds : k # j => applied'[k] = applied[k] /\ late'[k] = late[k]
  BY <1>b, <1>c, <1>d, <1>3
<1>7. TableShape'
  <2>1. \A k \in JobIds : k # j =>
          /\ status'[k] = status[k] /\ applied'[k] = applied[k] /\ late'[k] = late[k]
    BY <1>2, <1>6
  <2>2. /\ applied'[j] <= size[j] /\ late'[j] <= applied'[j]
        /\ status[j] \in {"none", "queued", "running"} => late'[j] = 0
    BY <1>b, <1>c, <1>d, <1>6
  <2> QED BY <1>2, <1>b, <2>1, <2>2 DEF IInv, TableShape
<1>8. LoopShape(l)'
  BY <1>1, <1>2, <1>6, <1>b, <1>c DEF LoopShape, Working
<1>9. FinishedMeansAll' /\ CancelStopsSoon'
  BY <1>2, <1>6, <1>b DEF IInv, FinishedMeansAll, CancelStopsSoon
<1>10. \A m \in Loops : m # l /\ Working(m) => loop[m].job # j
  BY <1>a DEF IInv, OneRunner
<1> QED BY <1>1, <1>2, <1>5, <1>6, <1>7, <1>8, <1>9, <1>10, <1>b, LoopMoves

LEMMA FinishJobStep ==
  ASSUME IInv, NEW l \in Loops, FinishJob(l)
  PROVE  IInv'
<1> DEFINE j == loop[l].job
<1>a. loop[l] \in LoopRecord /\ loop \in [Loops -> LoopRecord] /\ LoopShape(l) /\ Working(l)
      /\ TypeOK /\ status \in [JobIds -> Status]
  BY DEF IInv, TypeOK, LoopsShape, FinishJob, Working
<1>b. /\ j \in JobIds /\ status[j] \in {"running", "canceled"}
      /\ loop[l].out \in Terminal
      /\ loop[l].out = "finished" => applied[j] = size[j] /\ size[j] > 0
  BY <1>a DEF FinishJob, LoopShape, LoopRecord
<1> DEFINE r == [loop[l] EXCEPT !.pc = "wait"]
<1>1. r \in LoopRecord /\ r.pc = "wait" /\ r.job = j
  BY <1>a DEF LoopRecord, LoopSteps
<1>2. loop' = [loop EXCEPT ![l] = r] /\ loop'[l] = r
      /\ UNCHANGED <<size, njobs, running, current, applied, late>>
  BY <1>a DEF FinishJob, Goto
<1> HIDE DEF r
<1>3. progress' \in [JobIds -> 0 .. 100]
  BY <1>a, ProgressType DEF FinishJob
<1>4. status' = IF loop[l].live THEN [status EXCEPT ![j] = loop[l].out] ELSE status
  BY DEF FinishJob
<1>5. /\ \A k \in JobIds : k # j => status'[k] = status[k]
      /\ status'[j] \in {status[j], loop[l].out}
      /\ status' \in [JobIds -> Status]
  BY <1>a, <1>b, <1>4 DEF Status
<1>6. TypeOK'
  BY <1>1, <1>2, <1>3, <1>5 DEF IInv, TypeOK
<1>7. status'[j] = "running" => status[j] = "running"
  BY <1>b, <1>5 DEF Terminal
<1>8. status'[j] \notin {"none", "queued"}
  BY <1>b, <1>5 DEF Terminal
<1>9. TableShape'
  BY <1>b, <1>2, <1>5, <1>7, <1>8 DEF IInv, TableShape
<1>10. LoopShape(l)'
  BY <1>1, <1>2 DEF LoopShape, Working
<1>11. FinishedMeansAll' /\ CancelStopsSoon'
  BY <1>b, <1>2, <1>5 DEF IInv, FinishedMeansAll, CancelStopsSoon
<1>12. \A m \in Loops : m # l /\ Working(m) => loop[m].job # j
  BY <1>a DEF IInv, OneRunner
<1> QED BY <1>1, <1>2, <1>5, <1>6, <1>8, <1>9, <1>10, <1>11, <1>12, LoopMoves

-----------------------------------------------------------------------------
LEMMA StepInvariant == IInv /\ [Next]_vars => IInv'
<1> SUFFICES ASSUME IInv, [Next]_vars PROVE IInv'
  OBVIOUS
<1>1. CASE \E n \in 0 .. MaxSize : Create(n)
  BY <1>1, CreateStep
<1>2. CASE \E j \in JobIds : Cancel(j)
  BY <1>2, CancelStep
<1>3. CASE \E p \in Procs : StartWithContext(p) \/ StopWithContext(p) \/ Crash(p)
  BY <1>3, ProcessSteps
<1>4. CASE \E l \in Loops : LoopStep(l)
  BY <1>4, WaitingSteps, MarkRunningStep, ReadingSteps, ApplyModuleStep, FinishJobStep
  DEF LoopStep
<1>5. CASE UNCHANGED vars
  BY <1>5 DEF vars, IInv, TypeOK, TableShape, LoopsShape, LoopShape, OneRunner, Working,
              FinishedMeansAll, CancelStopsSoon
<1> QED BY <1>1, <1>2, <1>3, <1>4, <1>5 DEF Next

\* The inductive invariant holds in every reachable state (worker.go, app_jobs_store.go).
THEOREM Invariance == Spec => []IInv
  BY InitInvariant, StepInvariant, PTL DEF Spec

\* Every state has the types of the columns and of the worker's fields.
THEOREM TypeCorrect == Spec => []TypeOK
<1>1. IInv => TypeOK
  BY DEF IInv
<1> QED BY <1>1, Invariance, PTL

\* However many processes and left-over loops read the queue, a job is run by one of
\* them (appJobsStore.MarkRunning).
THEOREM RunsOnce == Spec => []OneRunner
<1>1. IInv => OneRunner
  BY DEF IInv
<1> QED BY <1>1, Invariance, PTL

\* A job recorded as finished has applied each of its modules (Worker.run, tick).
THEOREM FinishedIsComplete == Spec => []FinishedMeansAll
<1>1. IInv => FinishedMeansAll
  BY DEF IInv
<1> QED BY <1>1, Invariance, PTL

\* At most the module in progress is completed after a cancellation (isCanceled).
THEOREM CancelIsPrompt == Spec => []CancelStopsSoon
<1>1. IInv => CancelStopsSoon
  BY DEF IInv
<1> QED BY <1>1, Invariance, PTL

\* A cancellation that reached the table before any loop claimed the job is final.
THEOREM CanceledStays == Spec => CanceledUnclaimedStays
<1> DEFINE A == \A j \in JobIds :
             status[j] = "canceled" /\ ~Held(j) =>
               status'[j] = "canceled" /\ applied'[j] = applied[j]
<1>1. IInv /\ [Next]_vars => [A]_vars
  <2> SUFFICES ASSUME IInv, Next, NEW j \in JobIds, status[j] = "canceled",
                      ~(\E l \in Loops : Working(l) /\ loop[l].job = j)
               PROVE  status'[j] = "canceled" /\ applied'[j] = applied[j]
    BY DEF Held
  <2>a. status \in [JobIds -> Status] /\ applied \in [JobIds -> 0 .. MaxSize]
    BY DEF IInv, TypeOK
  <2>1. CASE \E n \in 0 .. MaxSize : Create(n)
    <3>1. njobs + 1 # j
      <4>1. ~(j > njobs) /\ njobs \in Nat /\ j \in Nat
        BY JobsAssumption DEF IInv, TypeOK, TableShape, JobIds
      <4> QED BY <4>1
    <3> QED BY <2>1, <2>a, <3>1 DEF Create
  <2>2. CASE \E k \in JobIds : Cancel(k)
    BY <2>2, <2>a DEF Cancel
  <2>3. CASE \E p \in Procs : StartWithContext(p) \/ StopWithContext(p) \/ Crash(p)
    BY <2>3 DEF StartWithContext, StopWithContext, Crash, tableVars
  <2>4. ASSUME NEW l \in Loops, LoopStep(l)
        PROVE  status'[j] = "canceled" /\ applied'[j] = applied[j]
    <3>1. CASE MarkRunning(l)
      BY <3>1, <2>a DEF MarkRunning
    <3>2. CASE ApplyModule(l)
      BY <3>2, <2>a DEF ApplyModule, tableVars, Working
    <3>3. CASE FinishJob(l)
      BY <3>3, <2>a DEF FinishJob, Working
    <3>4. CASE LeaveLoop(l) \/ NextQueued(l) \/ StartJob(l) \/ CheckCanceled(l)
               \/ ReportProgress(l) \/ ModuleFails(l) \/ AfterModule(l) \/ LastProgress(l)
      BY <3>4 DEF LeaveLoop, NextQueued, StartJob, CheckCanceled, ReportProgress, ModuleFails,
                  AfterModule, LastProgress, tableVars
    <3> QED BY <2>4, <3>1, <3>2, <3>3, <3>4 DEF LoopStep
  <2> QED BY <2>1, <2>2, <2>3, <2>4 DEF Next
<1>2. Spec => [][A]_vars
  BY <1>1, Invariance, PTL DEF Spec
<1> QED BY <1>2 DEF CanceledUnclaimedStays

-----------------------------------------------------------------------------
(***************************************************************************)
(* The progress of a running job, over the invariant above.                *)
(***************************************************************************)
LEMMA ShareBound ==
  ASSUME NEW i \in Nat, NEW n \in Nat, n > 0
  PROVE  Share(i, n) * n <= 100 * i
<1> DEFINE q == (i * 100) \div n
<1>1. q \in Nat /\ q * n <= i * 100
  <2>1. i * 100 \in Nat
    OBVIOUS
  <2> QED BY <2>1
<1>2. Share(i, n) \in Nat /\ Share(i, n) <= q
  BY <1>1 DEF Share
<1> HIDE DEF q
<1>3. Share(i, n) * n <= q * n
  BY <1>1, <1>2
<1> QED BY <1>1, <1>2, <1>3

\* ProgressHonest is not inductive alone: MarkRunning needs the 0 of a queued job.
ProgressInv == /\ ProgressHonest
               /\ \A j \in JobIds : status[j] \in {"none", "queued"} => progress[j] = 0

\* UpdateProgress by the loop that works on the job, which stays as it is otherwise.
LEMMA HonestUpdate ==
  ASSUME IInv, ProgressInv, NEW l \in Loops, Working(l), NEW n,
         n * size[loop[l].job] <= 100 * applied[loop[l].job],
         UpdateProgress(l, n), UNCHANGED <<status, size, applied>>
  PROVE  ProgressInv'
<1>1. loop[l].job \in JobIds /\ status[loop[l].job] \notin {"none", "queued"}
  BY DEF IInv, LoopsShape, LoopShape
<1>2. progress \in [JobIds -> 0 .. 100]
  BY DEF IInv, TypeOK
<1>3. \A k \in JobIds : k # loop[l].job => progress'[k] = progress[k]
  BY <1>2 DEF UpdateProgress
<1>4. progress'[loop[l].job] \in {progress[loop[l].job], n}
  BY <1>1, <1>2 DEF UpdateProgress
<1> QED BY <1>1, <1>3, <1>4 DEF ProgressInv, ProgressHonest

LEMMA ProgressStep == IInv /\ IInv' /\ ProgressInv /\ [Next]_vars => ProgressInv'
<1> SUFFICES ASSUME IInv, IInv', ProgressInv, [Next]_vars PROVE ProgressInv'
  OBVIOUS
<1>a. /\ status \in [JobIds -> Status] /\ progress \in [JobIds -> 0 .. 100]
      /\ size \in [JobIds -> 0 .. MaxSize] /\ applied \in [JobIds -> 0 .. MaxSize]
  BY DEF IInv, TypeOK
<1>b. \A j \in JobIds : size[j] \in Nat /\ applied[j] \in Nat /\ progress[j] \in Nat
  BY <1>a, JobsAssumption
<1>1. CASE \E n \in 0 .. MaxSize : Create(n)
  <2>1. njobs + 1 \in JobIds => status[njobs + 1] = "none"
    BY DEF IInv, TypeOK, TableShape
  <2>2. \A j \in JobIds : j # njobs + 1 => status'[j] = status[j] /\ size'[j] = size[j]
    BY <1>1, <1>a DEF Create
  <2>3. njobs + 1 \in JobIds => status'[njobs + 1] = "queued"
    BY <1>1, <1>a DEF Create
  <2>4. UNCHANGED <<progress, applied>>
    BY <1>1 DEF Create
  <2> QED BY <2>1, <2>2, <2>3, <2>4 DEF ProgressInv, ProgressHonest
<1>2. CASE \E j \in JobIds : Cancel(j)
  <2>1. PICK j \in JobIds : Cancel(j)
    BY <1>2
  <2>2. /\ status'[j] = "canceled" /\ UNCHANGED <<size, applied>>
        /\ \A k \in JobIds : k # j => status'[k] = status[k] /\ progress'[k] = progress[k]
    BY <2>1, <1>a DEF Cancel
  <2> QED BY <2>2 DEF ProgressInv, ProgressHonest
<1>3. CASE \E p \in Procs : StartWithContext(p) \/ StopWithContext(p) \/ Crash(p)
  BY <1>3 DEF StartWithContext, StopWithContext, Crash, tableVars, ProgressInv, ProgressHonest
<1>4. ASSUME NEW l \in Loops, LoopStep(l)
      PROVE  ProgressInv'
  <2> DEFINE j == loop[l].job
  <2>s. LoopShape(l)
    BY DEF IInv, LoopsShape
  <2>1. CASE MarkRunning(l)
    <3>1. UNCHANGED <<progress, size, applied>>
      BY <2>1 DEF MarkRunning
    <3>2. \A k \in JobIds : status'[k] = status[k] \/ (status[k] = "queued" /\ status'[k] = "running")
      BY <2>1, <1>a DEF MarkRunning
    <3>3. \A k \in JobIds : status[k] = "queued" => progress[k] * size[k] <= 100 * applied[k]
      BY <1>b DEF ProgressInv
    <3> QED BY <3>1, <3>2, <3>3 DEF ProgressInv, ProgressHonest
  <2>2. CASE StartJob(l)
    <3>1. Working(l) /\ j \in JobIds /\ UpdateProgress(l, 0)
          /\ UNCHANGED <<status, size, applied>>
      BY <2>2, <2>s DEF StartJob, Working, LoopShape
    <3>2. 0 * size[j] <= 100 * applied[j]
      BY <3>1, <1>b
    <3> QED BY <3>1, <3>2, HonestUpdate
  <2>3. CASE ReportProgress(l) \/ AfterModule(l)
    <3>1. Working(l) /\ j \in JobIds /\ UpdateProgress(l, Share(loop[l].i, size[j]))
          /\ UNCHANGED <<status, size, applied>>
      BY <2>3, <2>s DEF ReportProgress, AfterModule, Working, LoopShape
    <3>2. loop[l].i \in Nat
      BY JobsAssumption DEF IInv, TypeOK, LoopRecord
    <3>3. loop[l].i <= applied[j] /\ size[j] > 0
      BY <2>3, <2>s, <3>2 DEF ReportProgress, AfterModule, LoopShape
    <3>4. Share(loop[l].i, size[j]) * size[j] <= 100 * loop[l].i
      BY <1>b, <3>1, <3>2, <3>3, ShareBound
    <3>5. Share(loop[l].i, size[j]) \in 0 .. 100
      BY <1>b, <3>1, <3>2, <3>3, ShareType
    <3> DEFINE n == Share(loop[l].i, size[j])
    <3>6. n \in Nat /\ n * size[j] <= 100 * loop[l].i
      BY <3>4, <3>5
    <3> HIDE DEF n
    <3>7. n * size[j] <= 100 * applied[j]
      BY <1>b, <3>1, <3>2, <3>3, <3>6
    <3>8. UpdateProgress(l, n)
      BY <3>1 DEF n
    <3> QED BY <3>1, <3>7, <3>8, HonestUpdate
  <2>4. CASE LastProgress(l)
    <3>1. Working(l) /\ j \in JobIds /\ UpdateProgress(l, 99) /\ applied[j] = size[j]
          /\ UNCHANGED <<status, size, applied>>
      BY <2>4, <2>s DEF LastProgress, Working, LoopShape
    <3>2. 99 * size[j] <= 100 * applied[j]
      BY <1>b, <3>1
    <3> QED BY <3>1, <3>2, HonestUpdate
  <2>5. CASE ApplyModule(l)
    <3>1. UNCHANGED <<status, progress, size>> /\ j \in JobIds
      BY <2>5, <2>s DEF ApplyModule, tableVars, LoopShape, Working
    <3>2. \A k \in JobIds : applied'[k] \in Nat /\ applied'[k] >= applied[k]
      BY <2>5, <1>a, <1>b, <3>1 DEF ApplyModule
    <3>3. \A k \in JobIds : progress[k] * size[k] <= 100 * applied[k]
                              => progress[k] * size[k] <= 100 * applied'[k]
      <4> TAKE k \in JobIds
      <4> DEFINE m == progress[k] * size[k]
      <4>1. m \in Nat
        BY <1>b
      <4> HIDE DEF m
      <4>2. m <= 100 * applied[k] => m <= 100 * applied'[k]
        BY <4>1, <1>b, <3>2
      <4> QED BY <4>2 DEF m
    <3> QED BY <3>1, <3>3 DEF ProgressInv, ProgressHonest
  <2>6. CASE FinishJob(l)
    <3>1. j \in JobIds /\ UNCHANGED <<size, applied>>
          /\ status[j] \in {"running", "canceled"} /\ loop[l].out \in Terminal
      BY <2>6, <2>s DEF FinishJob, LoopShape, Working, IInv, TypeOK, LoopRecord
    <3>2. CASE loop[l].live
      <4>1. /\ status'[j] \in Terminal
            /\ \A k \in JobIds : k # j => status'[k] = status[k] /\ progress'[k] = progress[k]
        BY <2>6, <1>a, <3>1, <3>2 DEF FinishJob, UpdateProgress
      <4> QED BY <3>1, <4>1 DEF ProgressInv, ProgressHonest, Terminal
    <3>3. CASE ~loop[l].live
      <4>1. UNCHANGED <<status, progress>>
        BY <2>6, <3>3 DEF FinishJob, UpdateProgress
      <4> QED BY <3>1, <4>1 DEF ProgressInv, ProgressHonest
    <3> QED BY <3>2, <3>3
  <2>7. CASE LeaveLoop(l) \/ NextQueued(l) \/ CheckCanceled(l) \/ ModuleFails(l)
    BY <2>7 DEF LeaveLoop, NextQueued, CheckCanceled, ModuleFails, tableVars,
                ProgressInv, ProgressHonest
  <2> QED BY <1>4, <2>1, <2>2, <2>3, <2>4, <2>5, <2>6, <2>7 DEF LoopStep
<1>5. CASE UNCHANGED vars
  BY <1>5 DEF vars, ProgressInv, ProgressHonest
<1> QED BY <1>1, <1>2, <1>3, <1>4, <1>5 DEF Next

\* The progress of a running job is never ahead of the modules it has applied
\* (Worker.run).
THEOREM ProgressCorrect == Spec => []ProgressHonest
<1>1. Init => ProgressInv
  BY JobsAssumption DEF Init, ProgressInv, ProgressHonest
<1>2. ProgressInv => ProgressHonest
  BY DEF ProgressInv
<1>3. Spec => []ProgressInv
  BY <1>1, Invariance, ProgressStep, PTL DEF Spec
<1> QED BY <1>2, <1>3, PTL

-----------------------------------------------------------------------------
(***************************************************************************)
(* The refinement: every step of the table and of the loops is a step in   *)
(* the life of the watched job, or leaves it alone.                        *)
(***************************************************************************)
JobTable == <<status[Watched], size[Watched], applied[Watched], late[Watched]>>

\* Nobody starts or stops running the watched job.
LEMMA HeldSame ==
  ASSUME \A l \in Loops : /\ Working(l)' <=> Working(l)
                          /\ Working(l) => loop'[l].job = loop[l].job
  PROVE  Held(Watched)' <=> Held(Watched)
  BY DEF Held

LEMMA LifeAlone ==
  ASSUME UNCHANGED JobTable, Held(Watched)' <=> Held(Watched)
  PROVE  UNCHANGED J!vars
<1>1. Held(Watched)' = Held(Watched)
  BY DEF Held
<1> QED BY <1>1 DEF J!vars, JobTable

\* Who runs the watched job is the only one to do so.
LEMMA HeldBy ==
  ASSUME IInv, NEW l \in Loops, NEW r, loop' = [loop EXCEPT ![l] = r],
         Working(l), loop[l].job = Watched, r.job = Watched
  PROVE  Held(Watched) /\ (Held(Watched)' <=> r.pc \notin {"none", "wait", "claim"})
<1>1. loop'[l] = r /\ \A m \in Loops : m # l => loop'[m] = loop[m]
  BY DEF IInv, TypeOK
<1>2. \A m \in Loops : m # l => ~(Working(m) /\ loop[m].job = Watched)
  BY DEF IInv, OneRunner
<1> QED BY <1>1, <1>2 DEF Held, Working

LEMMA RequestLife ==
  ASSUME IInv, (\E n \in 0 .. MaxSize : Create(n)) \/ (\E j \in JobIds : Cancel(j))
  PROVE  [J!Next]_J!vars
<1>a. /\ status \in [JobIds -> Status] /\ size \in [JobIds -> 0 .. MaxSize]
      /\ njobs \in Nat /\ Watched \in JobIds
  BY WatchedAssumption, JobsAssumption DEF IInv, TypeOK, JobIds
<1>b. loop' = loop
  BY DEF Create, Cancel
<1>c. Held(Watched)' <=> Held(Watched)
  BY <1>b DEF Held, Working
<1>d. Held(Watched)' = Held(Watched)
  BY <1>c DEF Held
<1>1. ASSUME NEW n \in 0 .. MaxSize, Create(n)
      PROVE  [J!Next]_J!vars
  <2>1. CASE njobs + 1 = Watched
    <3>1. status[Watched] = "none"
      <4>1. Watched > njobs
        BY <1>a, <2>1
      <4> QED BY <1>a, <4>1 DEF IInv, TableShape
    <3>2. J!Submit
      BY <1>1, <1>a, <1>d, <2>1, <3>1 DEF Create, J!Submit
    <3> QED BY <3>2 DEF J!Next
  <2>2. CASE njobs + 1 # Watched
    <3>1. UNCHANGED JobTable
      BY <1>1, <1>a, <2>2 DEF Create, JobTable
    <3> QED BY <1>c, <3>1, LifeAlone
  <2> QED BY <2>1, <2>2
<1>2. ASSUME NEW j \in JobIds, Cancel(j)
      PROVE  [J!Next]_J!vars
  <2>1. CASE j = Watched
    <3>1. J!Cancel
      BY <1>2, <1>a, <1>d, <2>1 DEF Cancel, J!Cancel
    <3> QED BY <3>1 DEF J!Next
  <2>2. CASE j # Watched
    <3>1. UNCHANGED JobTable
      BY <1>2, <1>a, <2>2 DEF Cancel, JobTable
    <3> QED BY <1>c, <3>1, LifeAlone
  <2> QED BY <2>1, <2>2
<1> QED BY <1>1, <1>2

LEMMA ProcessLife ==
  ASSUME IInv, NEW p \in Procs, StartWithContext(p) \/ StopWithContext(p) \/ Crash(p)
  PROVE  [J!Next]_J!vars
<1>a. loop \in [Loops -> LoopRecord] /\ NoLoop.pc = "none" /\ NoLoop \in LoopRecord
  BY ProcsAssumption, JobsAssumption
  DEF IInv, TypeOK, NoLoop, LoopRecord, LoopSteps, Terminal
<1>b. UNCHANGED JobTable
  BY DEF StartWithContext, StopWithContext, Crash, tableVars, JobTable
<1>1. CASE StartWithContext(p)
  <2>1. PICK l \in Loops :
          /\ loop[l].pc = "none"
          /\ loop' = [loop EXCEPT ![l] = [NoLoop EXCEPT !.pc = "wait", !.proc = p, !.live = TRUE]]
    BY <1>1 DEF StartWithContext
  <2>2. [NoLoop EXCEPT !.pc = "wait", !.proc = p, !.live = TRUE].pc = "wait"
    BY <1>a DEF LoopRecord
  <2> HIDE DEF NoLoop
  <2>3. \A m \in Loops : /\ Working(m)' <=> Working(m)
                         /\ Working(m) => loop'[m].job = loop[m].job
    BY <1>a, <2>1, <2>2 DEF Working
  <2> QED BY <1>b, <2>3, HeldSame, LifeAlone
<1>2. CASE StopWithContext(p)
  <2>1. \A m \in Loops : loop'[m].pc = loop[m].pc /\ loop'[m].job = loop[m].job
    BY <1>2, <1>a DEF StopWithContext, LoopRecord
  <2> QED BY <1>b, <2>1, HeldSame, LifeAlone DEF Working
<1>3. CASE Crash(p)
  <2>1. \A m \in Loops : loop'[m] = loop[m] \/ loop'[m].pc = "none"
    BY <1>3, <1>a DEF Crash
  <2>2. Held(Watched)' => Held(Watched)
    BY <2>1 DEF Held, Working
  <2>3. CASE Held(Watched) /\ ~Held(Watched)'
    <3>1. Held(Watched) = TRUE /\ Held(Watched)' = FALSE
      BY <2>3 DEF Held
    <3>2. J!Abandon
      BY <1>b, <3>1 DEF J!Abandon, JobTable
    <3> QED BY <3>2 DEF J!Next
  <2> QED BY <1>b, <2>2, <2>3, LifeAlone
<1> QED BY <1>1, <1>2, <1>3

LEMMA WaitingLife ==
  ASSUME IInv, NEW l \in Loops, LeaveLoop(l) \/ NextQueued(l) \/ MarkRunning(l)
  PROVE  [J!Next]_J!vars
<1>a. /\ loop \in [Loops -> LoopRecord] /\ NoLoop.pc = "none"
      /\ status \in [JobIds -> Status] /\ Watched \in JobIds
  BY WatchedAssumption DEF IInv, TypeOK, NoLoop, JobIds
<1>b. UNCHANGED <<size, applied, late>>
  BY DEF LeaveLoop, NextQueued, MarkRunning, tableVars
<1>1. CASE LeaveLoop(l)
  <2>1. \A m \in Loops : /\ Working(m)' <=> Working(m)
                         /\ Working(m) => loop'[m].job = loop[m].job
    BY <1>1, <1>a DEF LeaveLoop, Working
  <2>2. UNCHANGED JobTable
    BY <1>1 DEF LeaveLoop, tableVars, JobTable
  <2> QED BY <2>1, <2>2, HeldSame, LifeAlone
<1>2. CASE NextQueued(l)
  <2>1. PICK j \in JobIds : loop' = [loop EXCEPT ![l].pc = "claim", ![l].job = j]
    BY <1>2 DEF NextQueued
  <2>2. loop'[l].pc = "claim" /\ loop[l].pc = "wait"
    BY <1>2, <1>a, <2>1 DEF NextQueued, LoopRecord
  <2>3. \A m \in Loops : m # l => loop'[m] = loop[m]
    BY <1>a, <2>1
  <2>4. \A m \in Loops : /\ Working(m)' <=> Working(m)
                         /\ Working(m) => loop'[m].job = loop[m].job
    BY <2>2, <2>3 DEF Working
  <2>5. UNCHANGED JobTable
    BY <1>2 DEF NextQueued, tableVars, JobTable
  <2> QED BY <2>4, <2>5, HeldSame, LifeAlone
<1>3. CASE MarkRunning(l)
  <2>1. loop[l].pc = "claim" /\ \A m \in Loops : m # l => loop'[m] = loop[m]
    BY <1>3, <1>a DEF MarkRunning, Goto
  <2>2. CASE loop[l].live /\ status[loop[l].job] = "queued"
    <3>1. /\ loop'[l].pc = "start" /\ loop'[l].job = loop[l].job
          /\ status' = [status EXCEPT ![loop[l].job] = "running"]
      BY <1>3, <1>a, <2>2 DEF MarkRunning, Goto, LoopRecord
    <3>2. CASE loop[l].job = Watched
      <4>1. ~Held(Watched)
        BY <2>2, <3>2 DEF Held, IInv, LoopsShape, LoopShape
      <4>2. Held(Watched)'
        BY <3>1, <3>2 DEF Held, Working
      <4>3. Held(Watched)' = TRUE
        BY <4>2 DEF Held
      <4>4. status[Watched] = "queued" /\ status'[Watched] = "running"
        BY <1>a, <2>2, <3>1, <3>2
      <4>5. J!Claim
        BY <1>b, <4>1, <4>3, <4>4 DEF J!Claim
      <4> QED BY <4>5 DEF J!Next
    <3>3. CASE loop[l].job # Watched
      <4>1. Held(Watched)' <=> Held(Watched)
        BY <2>1, <3>1, <3>3 DEF Held, Working
      <4>2. UNCHANGED JobTable
        BY <1>a, <1>b, <3>1, <3>3 DEF JobTable
      <4> QED BY <4>1, <4>2, LifeAlone
    <3> QED BY <3>2, <3>3
  <2>3. CASE ~(loop[l].live /\ status[loop[l].job] = "queued")
    <3>1. loop'[l].pc = "wait" /\ status' = status
      BY <1>3, <1>a, <2>3 DEF MarkRunning, Goto, LoopRecord
    <3>2. \A m \in Loops : /\ Working(m)' <=> Working(m)
                           /\ Working(m) => loop'[m].job = loop[m].job
      BY <2>1, <3>1 DEF Working
    <3>3. UNCHANGED JobTable
      BY <1>b, <3>1 DEF JobTable
    <3> QED BY <3>2, <3>3, HeldSame, LifeAlone
  <2> QED BY <2>2, <2>3
<1> QED BY <1>1, <1>2, <1>3

LEMMA ReadingLife ==
  ASSUME IInv, NEW l \in Loops,
         \/ StartJob(l) \/ CheckCanceled(l) \/ ReportProgress(l) \/ ModuleFails(l)
         \/ AfterModule(l) \/ LastProgress(l)
  PROVE  [J!Next]_J!vars
<1>a. loop \in [Loops -> LoopRecord]
  BY DEF IInv, TypeOK
<1>1. /\ Working(l) /\ Working(l)' /\ loop'[l].job = loop[l].job
      /\ \A m \in Loops : m # l => loop'[m] = loop[m]
  BY <1>a DEF StartJob, CheckCanceled, ReportProgress, ModuleFails, AfterModule, LastProgress,
              Goto, Working, LoopRecord
<1>2. \A m \in Loops : /\ Working(m)' <=> Working(m)
                       /\ Working(m) => loop'[m].job = loop[m].job
  BY <1>1 DEF Working
<1>3. UNCHANGED JobTable
  BY DEF StartJob, CheckCanceled, ReportProgress, ModuleFails, AfterModule, LastProgress,
         tableVars, JobTable
<1> QED BY <1>2, <1>3, HeldSame, LifeAlone

LEMMA ApplyModuleLife ==
  ASSUME IInv, NEW l \in Loops, ApplyModule(l)
  PROVE  [J!Next]_J!vars
<1>a. /\ loop \in [Loops -> LoopRecord] /\ status \in [JobIds -> Status]
      /\ applied \in [JobIds -> 0 .. MaxSize] /\ late \in [JobIds -> 0 .. MaxSize]
      /\ size \in [JobIds -> 0 .. MaxSize] /\ Watched \in JobIds
  BY WatchedAssumption DEF IInv, TypeOK, JobIds
<1>b. LoopShape(l)
  BY DEF IInv, LoopsShape
<1>1. /\ Working(l) /\ Working(l)' /\ loop'[l].job = loop[l].job
      /\ \A m \in Loops : m # l => loop'[m] = loop[m]
  BY <1>a DEF ApplyModule, Goto, Working, LoopRecord
<1>2. \A m \in Loops : /\ Working(m)' <=> Working(m)
                       /\ Working(m) => loop'[m].job = loop[m].job
  BY <1>1 DEF Working
<1>3. Held(Watched)' <=> Held(Watched)
  BY <1>2, HeldSame
<1>4. CASE loop[l].job = Watched
  <2>1. Held(Watched) /\ Held(Watched)' = Held(Watched)
    BY <1>1, <1>3, <1>4 DEF Held
  <2>2. applied[Watched] < size[Watched] /\ (late[Watched] > 0 => ~loop[l].live)
    BY <1>a, <1>b, <1>4 DEF LoopShape, ApplyModule, LoopRecord
  <2>3. late[Watched] = 0
    BY <1>a, <2>2, JobsAssumption DEF ApplyModule
  <2>4. applied'[Watched] = applied[Watched] + 1
    BY <1>a, <1>4 DEF ApplyModule
  <2>5. IF status[Watched] = "canceled" THEN late'[Watched] = 1 ELSE late'[Watched] = late[Watched]
    BY <1>a, <1>4, <2>3 DEF ApplyModule
  <2>6. J!Deal
    BY <2>1, <2>2, <2>3, <2>4, <2>5 DEF J!Deal, ApplyModule, tableVars
  <2> QED BY <2>6 DEF J!Next
<1>5. CASE loop[l].job # Watched
  <2>1. UNCHANGED JobTable
    BY <1>a, <1>5 DEF ApplyModule, tableVars, JobTable
  <2> QED BY <1>3, <2>1, LifeAlone
<1> QED BY <1>4, <1>5

LEMMA FinishJobLife ==
  ASSUME IInv, NEW l \in Loops, FinishJob(l)
  PROVE  [J!Next]_J!vars
<1>a. /\ loop \in [Loops -> LoopRecord] /\ status \in [JobIds -> Status] /\ Watched \in JobIds
  BY WatchedAssumption DEF IInv, TypeOK, JobIds
<1>b. LoopShape(l)
  BY DEF IInv, LoopsShape
<1> DEFINE r == [loop[l] EXCEPT !.pc = "wait"]
<1>1. loop' = [loop EXCEPT ![l] = r] /\ r.pc = "wait" /\ r.job = loop[l].job
  BY <1>a DEF FinishJob, Goto, LoopRecord
<1>2. loop[l].pc = "finish" /\ Working(l) /\ UNCHANGED <<size, applied, late>>
  BY DEF FinishJob, Working
<1> HIDE DEF r
<1>3. CASE loop[l].job = Watched
  <2>1. Held(Watched) /\ ~Held(Watched)'
    BY <1>1, <1>2, <1>3, HeldBy
  <2>2. Held(Watched) = TRUE /\ Held(Watched)' = FALSE
    BY <2>1 DEF Held
  <2>3. CASE loop[l].live
    <3>1. status'[Watched] = loop[l].out
      BY <1>a, <1>3, <2>3 DEF FinishJob
    <3>2. loop[l].out \in {"finished", "failed", "canceled"}
      BY <1>a DEF LoopRecord, Terminal
    <3>3. /\ loop[l].out = "finished" => applied[Watched] = size[Watched] /\ size[Watched] > 0
          /\ loop[l].out = "canceled" => status[Watched] = "canceled"
      BY <1>b, <1>2, <1>3 DEF LoopShape
    <3>4. J!End
      BY <1>2, <2>2, <3>1, <3>2, <3>3 DEF J!End
    <3> QED BY <3>4 DEF J!Next
  <2>4. CASE ~loop[l].live
    <3>1. J!Abandon
      BY <1>2, <2>2, <2>4 DEF J!Abandon, FinishJob
    <3> QED BY <3>1 DEF J!Next
  <2> QED BY <2>3, <2>4
<1>4. CASE loop[l].job # Watched
  <2>1. loop'[l] = r /\ \A m \in Loops : m # l => loop'[m] = loop[m]
    BY <1>1, <1>a
  <2>2. Held(Watched)' <=> Held(Watched)
    BY <1>1, <1>4, <2>1 DEF Held, Working
  <2>3. UNCHANGED JobTable
    BY <1>a, <1>2, <1>4 DEF FinishJob, JobTable
  <2> QED BY <2>2, <2>3, LifeAlone
<1> QED BY <1>3, <1>4

\* Whatever the loops, the requests and the stops do, every job lives the life of JobLife:
\* a step of AppJobs is one of its steps or leaves the job alone (worker.go, app_jobs_store.go).
THEOREM JobImplemented == Spec => JobKept
<1>1. Init => J!Init
  <2> SUFFICES ASSUME Init PROVE J!Init
    OBVIOUS
  <2>1. Watched \in JobIds
    BY WatchedAssumption DEF JobIds
  <2>2. \A l \in Loops : ~Working(l)
    BY DEF Init, NoLoop, Working
  <2>3. Held(Watched) = FALSE
    BY <2>2 DEF Held
  <2> QED BY <2>1, <2>3 DEF Init, J!Init
<1>2. IInv /\ [Next]_vars => [J!Next]_J!vars
  <2> SUFFICES ASSUME IInv, [Next]_vars PROVE [J!Next]_J!vars
    OBVIOUS
  <2>1. CASE UNCHANGED vars
    <3>1. UNCHANGED JobTable /\ (Held(Watched)' <=> Held(Watched))
      BY <2>1 DEF vars, JobTable, Held, Working
    <3> QED BY <3>1, LifeAlone
  <2>2. ASSUME NEW l \in Loops, LoopStep(l)
        PROVE  [J!Next]_J!vars
    BY <2>2, WaitingLife, ReadingLife, ApplyModuleLife, FinishJobLife DEF LoopStep
  <2> QED BY <2>1, <2>2, RequestLife, ProcessLife DEF Next
<1> QED BY <1>1, <1>2, Invariance, PTL DEF Spec, JobKept, J!Spec
=============================================================================
