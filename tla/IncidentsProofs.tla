--------------------------- MODULE IncidentsProofs ---------------------------
(***************************************************************************)
(* What Incidents guarantees for any requests, stages and bounds.          *)
(*                                                                         *)
(* NoLostUpdate, ClosedIsFinal and DoneIsFinal rest on CopyInv: a request  *)
(* that will write names a version that is not newer than its copy's, its  *)
(* copy is not newer than the row, and one version stands for one row,     *)
(* since no statement changes the row without counting.                    *)
(***************************************************************************)
EXTENDS Incidents, TLAPS

Reading == Checked \union {"list", "entry"}

\* What a request x that has read the incident, now w, holds of it.
CopyOf(x, w) ==
  x.at \in Reading =>
    /\ x.expected <= x.copy.ver /\ x.copy.ver <= w.ver
    /\ x.copy.ver = w.ver => x.copy = w
    /\ ~x.copy.closed
CopyInv == \A r \in Requests : CopyOf(req[r], row)

\* A request x to rename names a version that its stage, now w, had when it was open.
NameOf(x, w) ==
  x.at = "rename" =>
    \/ w.is = "gone"
    \/ w.is = "open" /\ x.expected <= w.ver
    \/ w.is = "done" /\ x.expected < w.ver
NameInv == \A r \in Requests : NameOf(req[r], stages[req[r].stage])

\* The steps of the handlers of stages are about a stage.
StageSteps == {"stage", "insert", "insert entry", "rename", "content", "remove", "complete"}
StageKnown ==
  \A r \in Requests :
    req[r].at \in StageSteps => req[r].stage \in Stages /\ req[r].then \in StageSteps

TypeInv == TypeOK /\ StageKnown

IInv == TypeInv /\ CopyInv /\ NameInv

-----------------------------------------------------------------------------
LEMMA NewType == New \in Rows
BY MaxVersionAssumption DEF Rows, New

LEMMA RowEdits ==
  ASSUME NEW x \in Rows, NEW v \in 1 .. MaxVersion, NEW b \in BOOLEAN
  PROVE  /\ [x EXCEPT !.ver = v, !.deleted = b] \in Rows
         /\ [x EXCEPT !.deleted = b, !.ver = v] \in Rows
         /\ [x EXCEPT !.closed = b, !.ver = v] \in Rows
BY DEF Rows

LEMMA FieldEdits ==
  ASSUME NEW x \in Rows, NEW b \in BOOLEAN
  PROVE  [x EXCEPT !.severe = b] \in Rows
BY DEF Rows

LEMMA EditsType ==
  ASSUME NEW x \in Rows, NEW at \in Checked, NEW new \in Edits(at, x)
  PROVE  new \in Rows
BY DEF Edits, Rows, Checked

LEMMA IdleReqType == IdleReq \in Reqs /\ IdleReq.at = Idle
BY NewType DEF IdleReq, Reqs, Steps

LEMMA StageEdits ==
  ASSUME NEW f \in [Stages -> StageRows], NEW s \in Stages
  PROVE  /\ f[s].ver \in Nat
         /\ f[s].ver < MaxStageVersion => [f EXCEPT ![s].ver = @ + 1] \in [Stages -> StageRows]
BY MaxVersionAssumption DEF StageRows

LEMMA StageSet ==
  ASSUME NEW f \in [Stages -> StageRows], NEW s \in Stages,
         NEW is \in {"open", "done", "gone"}, NEW v \in 0 .. MaxStageVersion
  PROVE  [f EXCEPT ![s] = [is |-> is, ver |-> v]] \in [Stages -> StageRows]
BY DEF StageRows

LEMMA EntrySet ==
  ASSUME NEW f \in [Stages -> EntryRows], NEW s \in Stages
  PROVE  /\ [f EXCEPT ![s].ver = 1] \in [Stages -> EntryRows]
         /\ [f EXCEPT ![s] = NoEntry] \in [Stages -> EntryRows]
BY MaxVersionAssumption DEF EntryRows, NoEntry, Contents

LEMMA EntryEdits ==
  ASSUME NEW f \in [Stages -> EntryRows], NEW s \in Stages, NEW c \in Contents
  PROVE  /\ f[s].ver \in Nat
         /\ f[s].ver < MaxStageVersion
              => [f EXCEPT ![s] = [content |-> c, ver |-> @.ver + 1]] \in [Stages -> EntryRows]
BY MaxVersionAssumption DEF EntryRows

\* One request goes on, about a stage or not.
LEMMA ReqStep ==
  ASSUME TypeInv, NEW r \in Requests, NEW x \in Reqs,
         x.at \in StageSteps => x.stage \in Stages /\ x.then \in StageSteps,
         req' = [req EXCEPT ![r] = x]
  PROVE  req' \in [Requests -> Reqs] /\ StageKnown'
BY DEF TypeInv, TypeOK, StageKnown

LEMMA StepNames ==
  /\ Idle \in Steps \ StageSteps /\ "close" \in Steps \ StageSteps
  /\ "list" \in Steps \ StageSteps /\ "entry" \in Steps \ StageSteps
  /\ "delete" \in Steps \ StageSteps /\ Checked \subseteq Steps \ StageSteps
  /\ StageSteps \subseteq Steps
BY DEF Steps, StageSteps, Checked, Idle

LEMMA EndType ==
  ASSUME TypeInv, NEW r \in Requests, End(r)
  PROVE  req' \in [Requests -> Reqs] /\ StageKnown'
BY IdleReqType, StepNames, ReqStep DEF End

LEMMA GoType ==
  ASSUME TypeInv, NEW r \in Requests, NEW at \in Steps,
         at \in StageSteps => req[r].stage \in Stages /\ req[r].then \in StageSteps, Go(r, at)
  PROVE  req' \in [Requests -> Reqs] /\ StageKnown'
<1>1. req[r] \in Reqs
  BY DEF TypeInv, TypeOK
<1>2. req' = [req EXCEPT ![r] = [req[r] EXCEPT !.at = at]]
  BY DEF Go
<1>3. [req[r] EXCEPT !.at = at] \in Reqs
  BY <1>1 DEF Reqs
<1>4. /\ [req[r] EXCEPT !.at = at].at = at
      /\ [req[r] EXCEPT !.at = at].stage = req[r].stage
      /\ [req[r] EXCEPT !.at = at].then = req[r].then
  BY <1>1 DEF Reqs
<1> QED
  BY <1>2, <1>3, <1>4, ReqStep

LEMMA InitType == Init => TypeInv
<1> SUFFICES ASSUME Init PROVE TypeInv
  OBVIOUS
<1>1. row \in Rows
  <2>1. PICK severe \in BOOLEAN : row = [New EXCEPT !.severe = severe]
    BY DEF Init
  <2> QED
    BY <2>1, NewType, FieldEdits
<1>2. stages \in [Stages -> StageRows] /\ entries \in [Stages -> EntryRows]
  BY MaxVersionAssumption DEF Init, NoStage, NoEntry, StageRows, EntryRows, Contents
<1>3. req \in [Requests -> Reqs] /\ StageKnown
  BY IdleReqType, StepNames DEF Init, StageKnown
<1> QED
  BY <1>1, <1>2, <1>3 DEF TypeInv, TypeOK

LEMMA RowTypes ==
  ASSUME TypeOK
  PROVE  row.ver \in 1 .. MaxVersion /\ row.deleted \in BOOLEAN /\ row.closed \in BOOLEAN
BY DEF TypeOK, Rows

LEMMA CloseType ==
  ASSUME TypeOK, Close
  PROVE  row' \in Rows
<1>1. row.ver + 1 \in 1 .. MaxVersion
  BY RowTypes, MaxVersionAssumption DEF Close
<1>2. row' = [row EXCEPT !.closed = TRUE, !.ver = row.ver + 1]
  BY DEF Close
<1> QED
  BY <1>1, <1>2, RowEdits DEF TypeOK

LEMMA IncidentType ==
  ASSUME TypeInv, NEW r \in Requests, Incident(r)
  PROVE  TypeInv'
<1>0. TypeOK /\ StageKnown /\ req[r] \in Reqs /\ req[r].copy \in Rows
  BY DEF TypeInv, TypeOK, Reqs
<1>rest. ASSUME row' \in Rows, Rest, req' \in [Requests -> Reqs] /\ StageKnown' PROVE TypeInv'
  BY <1>0, <1>rest DEF Rest, TypeInv, TypeOK
<1>1. ASSUME NEW at \in {"update", "postmortem"}, ReadIncident(r, at) PROVE TypeInv'
  <2>1. PICK expected \in 1 .. row.ver :
          req' = [req EXCEPT ![r] = [IdleReq EXCEPT !.at = at, !.copy = row, !.expected = expected]]
    BY <1>1 DEF ReadIncident
  <2>2. expected \in Nat /\ at \in Steps \ StageSteps /\ row \in Rows
    BY <2>1, <1>0, RowTypes, MaxVersionAssumption, StepNames DEF Checked, TypeOK
  <2> DEFINE x == [IdleReq EXCEPT !.at = at, !.copy = row, !.expected = expected]
  <2>4. x \in Reqs /\ x.at = at
    BY <2>2, IdleReqType DEF Reqs
  <2>5. req' = [req EXCEPT ![r] = x]
    BY <2>1
  <2> HIDE DEF x
  <2>3. req' \in [Requests -> Reqs] /\ StageKnown'
    BY <2>2, <2>4, <2>5, ReqStep
  <2> QED
    BY <1>1, <1>rest, <2>2, <2>3 DEF ReadIncident
<1>2. CASE UpdateIncident(r)
  <2>1. PICK new \in Edits(req[r].at, req[r].copy) :
          row' = [new EXCEPT !.ver = row.ver + 1, !.deleted = row.deleted]
    BY <1>2 DEF UpdateIncident
  <2>2. new \in Rows
    BY <1>2, <1>0, EditsType DEF UpdateIncident
  <2>3. row.ver + 1 \in 1 .. MaxVersion /\ row.deleted \in BOOLEAN
    BY <1>2, <1>0, RowTypes, MaxVersionAssumption DEF UpdateIncident
  <2>4. row' \in Rows
    BY <2>1, <2>2, <2>3, RowEdits
  <2>5. req' \in [Requests -> Reqs] /\ StageKnown'
    BY <1>2, EndType, GoType, StepNames DEF UpdateIncident
  <2> QED
    BY <1>2, <1>rest, <2>4, <2>5 DEF UpdateIncident
<1>3. CASE Conflict(r)
  BY <1>3, <1>0, <1>rest, EndType DEF Conflict, TypeOK
<1>4. CASE ReadForClose(r)
  <2>1. row.ver \in Nat /\ row \in Rows
    BY <1>0, RowTypes, MaxVersionAssumption DEF TypeOK
  <2> DEFINE x == [IdleReq EXCEPT !.at = "list", !.copy = row, !.expected = row.ver]
  <2>3. x \in Reqs /\ x.at = "list"
    BY <2>1, IdleReqType, StepNames DEF Reqs
  <2>4. req' = [req EXCEPT ![r] = x]
    BY <1>4 DEF ReadForClose
  <2> HIDE DEF x
  <2>2. req' \in [Requests -> Reqs] /\ StageKnown'
    BY <2>3, <2>4, ReqStep, StepNames
  <2> QED
    BY <1>4, <1>rest, <2>1, <2>2 DEF ReadForClose
<1>5. CASE ListStages(r)
  <2> DEFINE done == {s \in Stages : stages[s].is = "done"}
  <2>1. req' = [req EXCEPT ![r] = [req[r] EXCEPT !.at = "entry", !.done = done]]
    BY <1>5 DEF ListStages
  <2>2. [req[r] EXCEPT !.at = "entry", !.done = done] \in Reqs
    BY <1>0, StepNames DEF Reqs
  <2>3. [req[r] EXCEPT !.at = "entry", !.done = done].at = "entry"
    BY <1>0 DEF Reqs
  <2>4. req' \in [Requests -> Reqs] /\ StageKnown'
    BY <2>1, <2>2, <2>3, ReqStep, StepNames
  <2> QED
    BY <1>5, <1>0, <1>rest, <2>4 DEF ListStages, TypeOK
<1>6. CASE ReadEntry(r)
  <2>1. PICK next \in {"outcome", "close"} : Go(r, next)
    BY <1>6 DEF ReadEntry
  <2>2. req' \in [Requests -> Reqs] /\ StageKnown'
    BY <2>1, GoType, StepNames DEF Checked
  <2> QED
    BY <1>6, <1>0, <1>rest, <2>2 DEF ReadEntry, TypeOK
<1>7. CASE CloseIncident(r)
  <2>1. row' \in Rows
    BY <1>7, <1>0, CloseType DEF CloseIncident, TypeOK
  <2> QED
    BY <1>7, <1>rest, <2>1, EndType DEF CloseIncident
<1>8. CASE ReadForDelete(r)
  <2>1. req' \in [Requests -> Reqs] /\ StageKnown'
    BY <1>8, IdleReqType, StepNames, ReqStep DEF ReadForDelete, Reqs
  <2> QED
    BY <1>8, <1>0, <1>rest, <2>1 DEF ReadForDelete, TypeOK
<1>9. CASE SoftDelete(r)
  <2>1. row' \in Rows
    <3>1. CASE row.deleted
      BY <1>9, <3>1, <1>0 DEF SoftDelete, TypeOK
    <3>2. CASE ~row.deleted
      <4>1. row.ver + 1 \in 1 .. MaxVersion
        BY <1>9, <3>2, <1>0, RowTypes, MaxVersionAssumption DEF SoftDelete
      <4>2. row' = [row EXCEPT !.deleted = TRUE, !.ver = row.ver + 1]
        BY <1>9, <3>2 DEF SoftDelete
      <4> QED
        BY <4>1, <4>2, <1>0, RowEdits DEF TypeOK
    <3> QED
      BY <3>1, <3>2
  <2> QED
    BY <1>9, <1>rest, <2>1, EndType DEF SoftDelete
<1>10. CASE Restore(r)
  <2>1. row.ver + 1 \in 1 .. MaxVersion
    BY <1>10, <1>0, RowTypes, MaxVersionAssumption DEF Restore
  <2>2. row' = [row EXCEPT !.deleted = FALSE, !.ver = row.ver + 1]
    BY <1>10 DEF Restore
  <2>3. row' \in Rows
    BY <2>1, <2>2, <1>0, RowEdits DEF TypeOK
  <2> QED
    BY <1>10, <1>0, <1>rest, <2>3 DEF Restore, TypeOK, StageKnown
<1>11. CASE Fails(r)
  BY <1>11, <1>0, <1>rest, EndType DEF Fails, TypeOK
<1> QED
  BY <1>1, <1>2, <1>3, <1>4, <1>5, <1>6, <1>7, <1>8, <1>9, <1>10, <1>11 DEF Incident, Cleanup

LEMMA StageOfType ==
  ASSUME TypeInv, NEW r \in Requests, StageOf(r)
  PROVE  TypeInv'
<1>0. TypeOK /\ StageKnown /\ req[r] \in Reqs
  BY DEF TypeInv, TypeOK
<1>rest. ASSUME UNCHANGED row, stages' \in [Stages -> StageRows],
                entries' \in [Stages -> EntryRows],
                req' \in [Requests -> Reqs] /\ StageKnown'
         PROVE  TypeInv'
  BY <1>0, <1>rest DEF TypeInv, TypeOK
<1>same. stages \in [Stages -> StageRows] /\ entries \in [Stages -> EntryRows]
  BY <1>0 DEF TypeOK
<1>known. req[r].at \in StageSteps => req[r].stage \in Stages /\ req[r].then \in StageSteps
  BY <1>0 DEF StageKnown
<1>1. ASSUME NEW s \in Stages,
             NEW then \in {"insert", "rename", "content", "remove", "complete"},
             ReadForStage(r, s, then)
      PROVE  TypeInv'
  <2> DEFINE at == IF then = "insert" THEN then ELSE "stage"
             read == [IdleReq EXCEPT !.at = at, !.stage = s, !.then = then]
  <2>1. at \in Steps /\ then \in Steps
    BY DEF Steps
  <2>2. read \in Reqs /\ read.stage = s /\ read.then = then /\ then \in StageSteps
    BY <2>1, IdleReqType DEF Reqs, StageSteps
  <2>3. req' = [req EXCEPT ![r] = read]
    BY <1>1 DEF ReadForStage
  <2>4. req' \in [Requests -> Reqs] /\ StageKnown'
    BY <2>2, <2>3, ReqStep
  <2> QED
    BY <1>1, <1>rest, <1>same, <2>4 DEF ReadForStage, Rest
<1>2. CASE ReadStage(r)
  <2> DEFINE s == req[r].stage
             then == req[r].then
  <2>1. s \in Stages /\ then \in StageSteps
    BY <1>2, <1>known DEF ReadStage, StageSteps
  <2>2. PICK expected \in Seen(s, then) :
          req' = [req EXCEPT ![r].at = then, ![r].expected = expected]
    BY <1>2 DEF ReadStage
  <2>3. expected \in Nat
    BY <2>1, <2>2, <1>same DEF Seen, StageRows, EntryRows
  <2>4. req' = [req EXCEPT ![r] = [req[r] EXCEPT !.at = then, !.expected = expected]]
    BY <2>2
  <2>5. then \in Steps /\ req[r] \in Reqs
    BY <1>0 DEF Reqs
  <2>6. /\ [req[r] EXCEPT !.at = then, !.expected = expected] \in Reqs
        /\ [req[r] EXCEPT !.at = then, !.expected = expected].stage = s
        /\ [req[r] EXCEPT !.at = then, !.expected = expected].then = then
    BY <2>3, <2>5 DEF Reqs
  <2>7. req' \in [Requests -> Reqs] /\ StageKnown'
    BY <2>1, <2>4, <2>6, ReqStep
  <2> QED
    BY <1>2, <1>rest, <1>same, <2>7 DEF ReadStage, Rest
<1>3. CASE InsertStage(r)
  <2>1. stages' \in [Stages -> StageRows]
    <3>1. req[r].stage \in Stages
      BY <1>3, <1>known DEF InsertStage, StageSteps
    <3>2. 1 \in 0 .. MaxStageVersion
      BY MaxVersionAssumption
    <3> QED
      BY <1>3, <3>1, <3>2, <1>same, StageSet DEF InsertStage
  <2>2. req' \in [Requests -> Reqs] /\ StageKnown'
    BY <1>3, <1>known, GoType, StepNames DEF InsertStage, StageSteps
  <2> QED
    BY <1>3, <1>rest, <1>same, <2>1, <2>2 DEF InsertStage
<1>4. CASE InsertEntry(r)
  <2>1. entries' \in [Stages -> EntryRows]
    <3>1. req[r].stage \in Stages
      BY <1>4, <1>known DEF InsertEntry, StageSteps
    <3> QED
      BY <1>4, <3>1, <1>same, EntrySet DEF InsertEntry
  <2> QED
    BY <1>4, <1>rest, <1>same, <2>1, EndType DEF InsertEntry
<1>5. CASE UpdateStage(r)
  <2>1. req[r].stage \in Stages
    BY <1>5, <1>known DEF UpdateStage, StageSteps
  <2>2. stages' \in [Stages -> StageRows]
    BY <1>5, <2>1, <1>same, StageEdits, MaxVersionAssumption DEF UpdateStage
  <2> QED
    BY <1>5, <1>rest, <1>same, <2>2, EndType DEF UpdateStage
<1>6. CASE UpdateStageContent(r)
  <2>1. req[r].stage \in Stages
    BY <1>6, <1>known DEF UpdateStageContent, StageSteps
  <2>2. entries' \in [Stages -> EntryRows]
    <3>1. CASE entries' = entries
      BY <3>1, <1>same
    <3>2. ASSUME entries[req[r].stage].ver < MaxStageVersion, NEW content \in Contents,
                 entries' = [entries EXCEPT ![req[r].stage] =
                               [content |-> content, ver |-> @.ver + 1]]
          PROVE  entries' \in [Stages -> EntryRows]
      BY <3>2, <2>1, <1>same, EntryEdits
    <3> QED
      BY <1>6, <3>1, <3>2 DEF UpdateStageContent
  <2> QED
    BY <1>6, <1>rest, <1>same, <2>2, EndType DEF UpdateStageContent
<1>7. CASE DeleteStage(r)
  <2>1. stages' \in [Stages -> StageRows] /\ entries' \in [Stages -> EntryRows]
    <3>1. req[r].stage \in Stages
      BY <1>7, <1>known DEF DeleteStage, StageSteps
    <3>2. 0 \in 0 .. MaxStageVersion
      BY MaxVersionAssumption
    <3> QED
      BY <1>7, <3>1, <3>2, <1>same, StageSet, EntrySet DEF DeleteStage
  <2> QED
    BY <1>7, <1>rest, <2>1, EndType DEF DeleteStage
<1>8. CASE CompleteStage(r)
  <2>1. req[r].stage \in Stages
    BY <1>8, <1>known DEF CompleteStage, StageSteps
  <2>2. stages' \in [Stages -> StageRows]
    BY <1>8, <2>1, <1>same, MaxVersionAssumption DEF CompleteStage, StageRows
  <2> QED
    BY <1>8, <1>rest, <1>same, <2>2, EndType DEF CompleteStage
<1> QED
  BY <1>1, <1>2, <1>3, <1>4, <1>5, <1>6, <1>7, <1>8 DEF StageOf

LEMMA TypeStep == TypeInv /\ [Next]_vars => TypeInv'
<1>1. CASE UNCHANGED vars
  BY <1>1 DEF vars, TypeInv, TypeOK, StageKnown
<1>2. ASSUME TypeInv, CloseBySource PROVE TypeInv'
  BY <1>2, CloseType DEF CloseBySource, TypeInv, TypeOK, StageKnown
<1> QED
  BY <1>1, <1>2, IncidentType, StageOfType DEF Next

\* Every reachable state has its type: the rows, their versions within the bounds, and what
\* each request has read.
THEOREM TypeCorrect == Spec => []TypeOK
BY InitType, TypeStep, PTL DEF Spec, TypeInv

-----------------------------------------------------------------------------
\* A step of the incident: the row is counted or stays.
Counted == row' = row \/ row'.ver > row.ver

\* What another's step leaves of a copy.
LEMMA CopyKept ==
  ASSUME TypeOK, TypeOK', Counted, NEW x \in Reqs, CopyOf(x, row)
  PROVE  CopyOf(x, row')
<1>1. x.expected \in Nat /\ x.copy.ver \in Nat /\ row.ver \in Nat /\ row'.ver \in Nat
  BY DEF TypeOK, Reqs, Rows
<1> QED
  BY <1>1 DEF CopyOf, Counted

\* One request goes on to x.
LEMMA CopyStep ==
  ASSUME TypeInv, TypeInv', CopyInv, Counted, NEW r \in Requests, NEW x,
         req' = [req EXCEPT ![r] = x], CopyOf(x, row')
  PROVE  CopyInv'
<1> SUFFICES ASSUME NEW q \in Requests PROVE CopyOf(req'[q], row')
  BY DEF CopyInv
<1>1. CASE q = r
  BY <1>1 DEF TypeInv, TypeOK
<1>2. CASE q # r
  <2>1. req'[q] = req[q] /\ req[q] \in Reqs /\ CopyOf(req[q], row)
    BY <1>2 DEF TypeInv, TypeOK, CopyInv
  <2> QED
    BY <2>1, CopyKept DEF TypeInv
<1> QED
  BY <1>1, <1>2

LEMMA ReadingNames ==
  /\ Idle \notin Reading /\ "close" \notin Reading /\ "delete" \notin Reading
  /\ StageSteps \cap Reading = {} /\ {"list", "entry"} \union Checked \subseteq Reading
BY DEF Reading, Checked, StageSteps, Idle

LEMMA CopyEnd ==
  ASSUME TypeInv, TypeInv', CopyInv, Counted, NEW r \in Requests, End(r)
  PROVE  CopyInv'
BY CopyStep, IdleReqType, ReadingNames DEF End, CopyOf

LEMMA CopyGo ==
  ASSUME TypeInv, TypeInv', CopyInv, Counted, NEW r \in Requests, NEW at, Go(r, at),
         at \notin Reading
  PROVE  CopyInv'
<1>1. req' = [req EXCEPT ![r] = [req[r] EXCEPT !.at = at]] /\ req[r] \in Reqs
  BY DEF Go, TypeInv, TypeOK
<1>2. [req[r] EXCEPT !.at = at].at = at
  BY <1>1 DEF Reqs
<1> QED
  BY <1>1, <1>2, CopyStep DEF CopyOf

LEMMA CloseCounts == TypeOK /\ Close => Counted
<1> SUFFICES ASSUME TypeOK, Close PROVE Counted
  OBVIOUS
<1>1. row.ver \in Nat
  BY RowTypes, MaxVersionAssumption
<1>2. row'.ver = row.ver + 1
  BY DEF Close, TypeOK, Rows
<1> QED
  BY <1>1, <1>2 DEF Counted

LEMMA CopyIncident ==
  ASSUME TypeInv, TypeInv', CopyInv, NEW r \in Requests, Incident(r)
  PROVE  CopyInv' /\ Counted
<1>0. TypeOK /\ row \in Rows /\ req[r] \in Reqs /\ row.ver \in Nat
  BY RowTypes, MaxVersionAssumption DEF TypeInv, TypeOK
<1>1. ASSUME NEW at \in {"update", "postmortem"}, ReadIncident(r, at) PROVE CopyInv' /\ Counted
  <2>1. PICK expected \in 1 .. row.ver :
          req' = [req EXCEPT ![r] = [IdleReq EXCEPT !.at = at, !.copy = row, !.expected = expected]]
    BY <1>1 DEF ReadIncident
  <2> DEFINE x == [IdleReq EXCEPT !.at = at, !.copy = row, !.expected = expected]
  <2>2. x.copy = row /\ x.expected = expected /\ expected <= row.ver
    BY <2>1, <1>0, IdleReqType DEF Reqs
  <2>3. row' = row /\ ~row.closed
    BY <1>1 DEF ReadIncident, Open
  <2>4. req' = [req EXCEPT ![r] = x]
    BY <2>1
  <2> HIDE DEF x
  <2>5. CopyOf(x, row') /\ Counted
    BY <2>2, <2>3, <1>0 DEF CopyOf, Counted
  <2> QED
    BY <2>4, <2>5, CopyStep
<1>2. CASE UpdateIncident(r)
  <2>1. PICK new \in Edits(req[r].at, req[r].copy) :
          row' = [new EXCEPT !.ver = row.ver + 1, !.deleted = row.deleted]
    BY <1>2 DEF UpdateIncident
  <2>2. new \in Rows
    BY <1>2, <1>0, EditsType DEF UpdateIncident, Reqs
  <2>3. row'.ver = row.ver + 1
    BY <2>1, <2>2 DEF Rows
  <2>4. Counted
    BY <2>3, <1>0 DEF Counted
  <2> QED
    BY <1>2, <2>4, CopyEnd, CopyGo, ReadingNames DEF UpdateIncident
<1>3. CASE Conflict(r)
  BY <1>3, CopyEnd DEF Conflict, Counted
<1>4. CASE ReadForClose(r)
  <2> DEFINE x == [IdleReq EXCEPT !.at = "list", !.copy = row, !.expected = row.ver]
  <2>1. x.copy = row /\ x.expected = row.ver
    BY <1>0, IdleReqType DEF Reqs
  <2>2. row' = row /\ ~row.closed /\ req' = [req EXCEPT ![r] = x]
    BY <1>4 DEF ReadForClose, Open
  <2> HIDE DEF x
  <2>3. CopyOf(x, row') /\ Counted
    BY <2>1, <2>2, <1>0 DEF CopyOf, Counted
  <2> QED
    BY <2>2, <2>3, CopyStep
<1>5. CASE ListStages(r)
  <2> DEFINE x == [req[r] EXCEPT !.at = "entry", !.done = {s \in Stages : stages[s].is = "done"}]
  <2>1. x.copy = req[r].copy /\ x.expected = req[r].expected
    BY <1>0 DEF Reqs
  <2>2. row' = row /\ req' = [req EXCEPT ![r] = x] /\ req[r].at = "list"
    BY <1>5 DEF ListStages
  <2>3. CopyOf(req[r], row)
    BY DEF CopyInv
  <2> HIDE DEF x
  <2>4. CopyOf(x, row') /\ Counted
    BY <2>1, <2>2, <2>3, ReadingNames DEF CopyOf, Counted
  <2> QED
    BY <2>2, <2>4, CopyStep
<1>6. CASE ReadEntry(r)
  <2>1. PICK next \in {"outcome", "close"} : Go(r, next)
    BY <1>6 DEF ReadEntry
  <2> DEFINE x == [req[r] EXCEPT !.at = next]
  <2>2. x.copy = req[r].copy /\ x.expected = req[r].expected
    BY <1>0 DEF Reqs
  <2>3. row' = row /\ req' = [req EXCEPT ![r] = x] /\ req[r].at = "entry"
    BY <1>6, <2>1 DEF ReadEntry, Go
  <2>4. CopyOf(req[r], row)
    BY DEF CopyInv
  <2> HIDE DEF x
  <2>5. CopyOf(x, row') /\ Counted
    BY <2>2, <2>3, <2>4, ReadingNames DEF CopyOf, Counted
  <2> QED
    BY <2>3, <2>5, CopyStep
<1>7. CASE CloseIncident(r)
  <2>1. Counted
    BY <1>7, <1>0, CloseCounts DEF CloseIncident, Counted
  <2> QED
    BY <1>7, <2>1, CopyEnd DEF CloseIncident
<1>8. CASE ReadForDelete(r)
  <2> DEFINE x == [IdleReq EXCEPT !.at = "delete"]
  <2>1. x.at = "delete"
    BY IdleReqType DEF Reqs
  <2>2. row' = row /\ req' = [req EXCEPT ![r] = x]
    BY <1>8 DEF ReadForDelete
  <2> HIDE DEF x
  <2> QED
    BY <2>1, <2>2, CopyStep, ReadingNames DEF CopyOf, Counted
<1>9. CASE SoftDelete(r)
  <2>1. row' = row \/ row'.ver = row.ver + 1
    BY <1>9, <1>0 DEF SoftDelete, Rows
  <2>2. Counted
    BY <2>1, <1>0 DEF Counted
  <2> QED
    BY <1>9, <2>2, CopyEnd DEF SoftDelete
<1>10. CASE Restore(r)
  <2>1. row'.ver = row.ver + 1
    BY <1>10, <1>0 DEF Restore, Rows
  <2>2. Counted
    BY <2>1, <1>0 DEF Counted
  <2>3. req' = req
    BY <1>10 DEF Restore
  <2>4. \A q \in Requests : CopyOf(req[q], row')
    BY <2>2, CopyKept DEF TypeInv, TypeOK, CopyInv
  <2> QED
    BY <2>2, <2>3, <2>4 DEF CopyInv
<1>11. CASE Fails(r)
  BY <1>11, CopyEnd DEF Fails, Counted
<1> QED
  BY <1>1, <1>2, <1>3, <1>4, <1>5, <1>6, <1>7, <1>8, <1>9, <1>10, <1>11 DEF Incident, Cleanup

LEMMA CopyStageOf ==
  ASSUME TypeInv, TypeInv', CopyInv, NEW r \in Requests, StageOf(r)
  PROVE  CopyInv' /\ Counted
<1>0. TypeOK /\ req[r] \in Reqs
  BY DEF TypeInv, TypeOK
<1>1. ASSUME NEW s \in Stages,
             NEW then \in {"insert", "rename", "content", "remove", "complete"},
             ReadForStage(r, s, then)
      PROVE  CopyInv' /\ Counted
  <2> DEFINE at == IF then = "insert" THEN then ELSE "stage"
             x == [IdleReq EXCEPT !.at = at, !.stage = s, !.then = then]
  <2>1. x.at = at /\ at \in StageSteps
    BY IdleReqType DEF Reqs, StageSteps
  <2>2. row' = row /\ req' = [req EXCEPT ![r] = x]
    BY <1>1 DEF ReadForStage
  <2> HIDE DEF x, at
  <2> QED
    BY <2>1, <2>2, CopyStep, ReadingNames DEF CopyOf, Counted
<1>2. CASE ReadStage(r)
  <2> DEFINE s == req[r].stage
             then == req[r].then
  <2>1. then \in StageSteps
    BY <1>2 DEF ReadStage, StageSteps, TypeInv, StageKnown
  <2>2. PICK expected \in Seen(s, then) :
          req' = [req EXCEPT ![r].at = then, ![r].expected = expected]
    BY <1>2 DEF ReadStage
  <2> DEFINE x == [req[r] EXCEPT !.at = then, !.expected = expected]
  <2>3. x.at = then
    BY <1>0 DEF Reqs
  <2>4. row' = row /\ req' = [req EXCEPT ![r] = x]
    BY <1>2, <2>2 DEF ReadStage
  <2> HIDE DEF x, then
  <2> QED
    BY <2>1, <2>3, <2>4, CopyStep, ReadingNames DEF CopyOf, Counted
<1>3. CASE InsertStage(r)
  BY <1>3, CopyGo, ReadingNames DEF InsertStage, Counted, StageSteps
<1>4. CASE InsertEntry(r)
  BY <1>4, CopyEnd DEF InsertEntry, Counted
<1>5. CASE UpdateStage(r)
  BY <1>5, CopyEnd DEF UpdateStage, Counted
<1>6. CASE UpdateStageContent(r)
  BY <1>6, CopyEnd DEF UpdateStageContent, Counted
<1>7. CASE DeleteStage(r)
  BY <1>7, CopyEnd DEF DeleteStage, Counted
<1>8. CASE CompleteStage(r)
  BY <1>8, CopyEnd DEF CompleteStage, Counted
<1> QED
  BY <1>1, <1>2, <1>3, <1>4, <1>5, <1>6, <1>7, <1>8 DEF StageOf

LEMMA CopyNext ==
  ASSUME TypeInv, TypeInv', CopyInv, [Next]_vars
  PROVE  CopyInv'
<1>1. ASSUME Counted, UNCHANGED req PROVE CopyInv'
  BY <1>1, CopyKept DEF CopyInv, TypeInv, TypeOK
<1>2. CASE UNCHANGED vars
  BY <1>1, <1>2 DEF vars, Counted
<1>3. CASE CloseBySource
  BY <1>1, <1>3, CloseCounts DEF CloseBySource, TypeInv
<1> QED
  BY <1>2, <1>3, CopyIncident, CopyStageOf DEF Next

-----------------------------------------------------------------------------
LEMMA AboutStage ==
  ASSUME TypeInv, NEW r \in Requests, req[r].at \in StageSteps
  PROVE  /\ req[r].stage \in Stages
         /\ stages[req[r].stage].ver \in Nat
         /\ stages[req[r].stage].is \in {"none", "open", "done", "gone"}
         /\ req[r].expected \in Nat
<1>1. req[r].stage \in Stages
  BY DEF TypeInv, StageKnown
<1>2. stages[req[r].stage] \in StageRows /\ req[r] \in Reqs
  BY <1>1 DEF TypeInv, TypeOK
<1> QED
  BY <1>1, <1>2, MaxVersionAssumption DEF StageRows, Reqs

LEMMA NoStageIs == NoStage.is = "none"
BY DEF NoStage

\* What a step does to a stage that is there: it stays, goes, or is counted.
Advances(w, v) ==
  \/ v = w \/ w.is = "none" \/ v.is = "gone"
  \/ w.is = "open" /\ v.is \in {"open", "done"} /\ v.ver > w.ver

LEMMA NameStep ==
  ASSUME TypeInv, TypeInv', NameInv, NEW r \in Requests, NEW x,
         \A s \in Stages : Advances(stages[s], stages'[s]),
         req' = [req EXCEPT ![r] = x], NameOf(x, stages'[x.stage])
  PROVE  NameInv'
<1> SUFFICES ASSUME NEW q \in Requests PROVE NameOf(req'[q], stages'[req'[q].stage])
  BY DEF NameInv
<1>1. CASE q = r
  BY <1>1 DEF TypeInv, TypeOK
<1>2. CASE q # r
  <2>1. req'[q] = req[q] /\ req[q] \in Reqs
    BY <1>2 DEF TypeInv, TypeOK
  <2>2. CASE req[q].at = "rename"
    <3> DEFINE s == req[q].stage
    <3>1. s \in Stages
      BY <2>2 DEF TypeInv, StageKnown, StageSteps
    <3>2. /\ stages[s].ver \in Nat /\ stages'[s].ver \in Nat /\ req[q].expected \in Nat
          /\ stages[s].is \in {"none", "open", "done", "gone"}
      BY <3>1, <2>1, MaxVersionAssumption DEF TypeInv, TypeOK, StageRows, Reqs
    <3>3. NameOf(req[q], stages[s]) /\ Advances(stages[s], stages'[s])
      BY <3>1 DEF NameInv
    <3> QED
      BY <2>1, <2>2, <3>2, <3>3 DEF NameOf, Advances
  <2> QED
    BY <2>1, <2>2 DEF NameOf
<1> QED
  BY <1>1, <1>2

LEMMA NameEnd ==
  ASSUME TypeInv, TypeInv', NameInv, NEW r \in Requests, End(r),
         \A s \in Stages : Advances(stages[s], stages'[s])
  PROVE  NameInv'
BY NameStep, IdleReqType DEF End, NameOf, Idle

LEMMA NameGo ==
  ASSUME TypeInv, TypeInv', NameInv, NEW r \in Requests, NEW at, at # "rename", Go(r, at),
         \A s \in Stages : Advances(stages[s], stages'[s])
  PROVE  NameInv'
<1>1. req' = [req EXCEPT ![r] = [req[r] EXCEPT !.at = at]] /\ req[r] \in Reqs
  BY DEF Go, TypeInv, TypeOK
<1>2. [req[r] EXCEPT !.at = at].at = at
  BY <1>1 DEF Reqs
<1> QED
  BY <1>1, <1>2, NameStep DEF NameOf

LEMMA Stays == Rest => \A s \in Stages : Advances(stages[s], stages'[s])
BY DEF Rest, Advances

LEMMA NameIncident ==
  ASSUME TypeInv, TypeInv', NameInv, NEW r \in Requests, Incident(r)
  PROVE  NameInv'
<1>0. req[r] \in Reqs
  BY DEF TypeInv, TypeOK
<1>1. ASSUME NEW x, req' = [req EXCEPT ![r] = x], x.at # "rename", Rest PROVE NameInv'
  BY <1>1, Stays, NameStep DEF NameOf
<1>2. ASSUME NEW at \in {"update", "postmortem"}, ReadIncident(r, at) PROVE NameInv'
  <2>1. PICK expected \in 1 .. row.ver :
          req' = [req EXCEPT ![r] = [IdleReq EXCEPT !.at = at, !.copy = row, !.expected = expected]]
    BY <1>2 DEF ReadIncident
  <2>2. [IdleReq EXCEPT !.at = at, !.copy = row, !.expected = expected].at = at
    BY IdleReqType DEF Reqs
  <2> QED
    BY <1>1, <1>2, <2>1, <2>2 DEF ReadIncident
<1>3. CASE UpdateIncident(r)
  BY <1>3, Stays, NameEnd, NameGo DEF UpdateIncident
<1>4. CASE ReadForClose(r)
  <2>1. [IdleReq EXCEPT !.at = "list", !.copy = row, !.expected = row.ver].at = "list"
    BY IdleReqType DEF Reqs
  <2> QED
    BY <1>1, <1>4, <2>1 DEF ReadForClose
<1>5. CASE ListStages(r)
  <2>1. [req[r] EXCEPT !.at = "entry", !.done = {s \in Stages : stages[s].is = "done"}].at = "entry"
    BY <1>0 DEF Reqs
  <2> QED
    BY <1>1, <1>5, <2>1 DEF ListStages
<1>6. CASE ReadEntry(r)
  BY <1>6, Stays, NameGo DEF ReadEntry
<1>7. CASE ReadForDelete(r)
  <2>1. [IdleReq EXCEPT !.at = "delete"].at = "delete"
    BY IdleReqType DEF Reqs
  <2> QED
    BY <1>1, <1>7, <2>1 DEF ReadForDelete
<1>8. CASE Restore(r)
  BY <1>8, Stays DEF Restore, NameInv, Rest
<1>9. CASE Conflict(r) \/ CloseIncident(r) \/ SoftDelete(r) \/ Fails(r)
  BY <1>9, Stays, NameEnd DEF Conflict, CloseIncident, SoftDelete, Fails
<1> QED
  BY <1>2, <1>3, <1>4, <1>5, <1>6, <1>7, <1>8, <1>9 DEF Incident, Cleanup

LEMMA NameStageOf ==
  ASSUME TypeInv, TypeInv', NameInv, NEW r \in Requests, StageOf(r)
  PROVE  NameInv'
<1>0. req[r] \in Reqs /\ stages \in [Stages -> StageRows]
  BY DEF TypeInv, TypeOK
<1>1. ASSUME NEW s \in Stages,
             NEW then \in {"insert", "rename", "content", "remove", "complete"},
             ReadForStage(r, s, then)
      PROVE  NameInv'
  <2> DEFINE at == IF then = "insert" THEN then ELSE "stage"
             x == [IdleReq EXCEPT !.at = at, !.stage = s, !.then = then]
  <2>1. x.at = at /\ at # "rename"
    BY IdleReqType DEF Reqs
  <2>2. Rest /\ req' = [req EXCEPT ![r] = x]
    BY <1>1 DEF ReadForStage
  <2> HIDE DEF x, at
  <2> QED
    BY <2>1, <2>2, Stays, NameStep DEF NameOf
<1>2. CASE ReadStage(r)
  <2> DEFINE s == req[r].stage
             then == req[r].then
  <2>2. PICK expected \in Seen(s, then) :
          req' = [req EXCEPT ![r].at = then, ![r].expected = expected]
    BY <1>2 DEF ReadStage
  <2> DEFINE x == [req[r] EXCEPT !.at = then, !.expected = expected]
  <2>3. x.at = then /\ x.stage = s /\ x.expected = expected
    BY <1>0 DEF Reqs
  <2>4. Rest /\ req' = [req EXCEPT ![r] = x] /\ stages[s].is = "open" /\ stages' = stages
    BY <1>2, <2>2 DEF ReadStage, Rest
  <2>5. then = "rename" => expected <= stages[s].ver
    BY <2>2 DEF Seen
  <2> HIDE DEF x, then, s
  <2>6. NameOf(x, stages'[x.stage])
    BY <2>3, <2>4, <2>5 DEF NameOf
  <2> QED
    BY <2>4, <2>6, Stays, NameStep
<1>3. CASE InsertStage(r)
  <2>0. stages[req[r].stage].is = "none"
    BY <1>3, NoStageIs DEF InsertStage
  <2>1. \A s \in Stages : Advances(stages[s], stages'[s])
    BY <1>3, <2>0, <1>0 DEF InsertStage, Advances
  <2> QED
    BY <1>3, <2>1, NameGo DEF InsertStage
<1>4. CASE InsertEntry(r) \/ UpdateStageContent(r)
  BY <1>4, NameEnd DEF InsertEntry, UpdateStageContent, Advances
<1>5. CASE UpdateStage(r)
  <2> DEFINE s == req[r].stage
  <2>1. s \in Stages /\ stages[s].ver \in Nat /\ NameOf(req[r], stages[s])
    BY <1>5, AboutStage DEF UpdateStage, StageSteps, NameInv
  <2>2. CASE UNCHANGED stages
    BY <1>5, <2>2, NameEnd DEF UpdateStage, Advances
  <2>3. CASE /\ stages[s].is # "gone" /\ stages[s].ver = req[r].expected
             /\ stages' = [stages EXCEPT ![s].ver = @ + 1]
    <3>1. stages[s].is = "open"
      BY <1>5, <2>1, <2>3 DEF UpdateStage, NameOf
    <3>2. stages'[s].is = "open" /\ stages'[s].ver = stages[s].ver + 1
      BY <2>1, <2>3, <3>1, <1>0 DEF StageRows
    <3>3. \A t \in Stages : t # s => stages'[t] = stages[t]
      BY <2>1, <2>3, <1>0
    <3>4. \A t \in Stages : Advances(stages[t], stages'[t])
      BY <2>1, <3>1, <3>2, <3>3 DEF Advances
    <3> QED
      BY <1>5, <3>4, NameEnd DEF UpdateStage
  <2> QED
    BY <1>5, <2>2, <2>3 DEF UpdateStage
<1>6. CASE DeleteStage(r)
  <2>1. \A s \in Stages : Advances(stages[s], stages'[s])
    BY <1>6, <1>0 DEF DeleteStage, Advances
  <2> QED
    BY <1>6, <2>1, NameEnd DEF DeleteStage
<1>7. CASE CompleteStage(r)
  <2> DEFINE s == req[r].stage
  <2>1. s \in Stages /\ stages[s].ver \in Nat
    BY <1>7, AboutStage DEF CompleteStage, StageSteps
  <2>2. \A t \in Stages : Advances(stages[t], stages'[t])
    BY <1>7, <2>1, <1>0 DEF CompleteStage, Advances
  <2> QED
    BY <1>7, <2>2, NameEnd DEF CompleteStage
<1> QED
  BY <1>1, <1>2, <1>3, <1>4, <1>5, <1>6, <1>7 DEF StageOf

LEMMA NameNext ==
  ASSUME TypeInv, TypeInv', NameInv, [Next]_vars
  PROVE  NameInv'
<1>1. CASE UNCHANGED vars
  BY <1>1 DEF vars, NameInv
<1>2. CASE CloseBySource
  BY <1>2 DEF CloseBySource, NameInv
<1> QED
  BY <1>1, <1>2, NameIncident, NameStageOf DEF Next

-----------------------------------------------------------------------------
LEMMA IInvInductive == (Init => IInv) /\ (IInv /\ [Next]_vars => IInv')
<1>1. Init => IInv
  <2>1. Init => CopyInv /\ NameInv
    BY IdleReqType, ReadingNames DEF Init, CopyInv, CopyOf, NameInv, NameOf, Idle
  <2> QED
    BY <2>1, InitType DEF IInv
<1>2. IInv /\ [Next]_vars => IInv'
  BY TypeStep, CopyNext, NameNext DEF IInv
<1> QED
  BY <1>1, <1>2

\* A write that its version lets through replaces what its request has read: CopyInv, for a
\* request that names the version of the row.
THEOREM NoUpdateLost == Spec => []NoLostUpdate
<1>1. IInv => NoLostUpdate
  <2> SUFFICES ASSUME IInv, NEW r \in Requests,
                      req[r].at \in Checked, req[r].expected = row.ver
               PROVE  req[r].copy = row
    BY DEF NoLostUpdate
  <2>1. /\ req[r].expected \in Nat /\ req[r].copy.ver \in Nat /\ row.ver \in Nat
        /\ CopyOf(req[r], row)
    BY MaxVersionAssumption DEF IInv, TypeInv, TypeOK, Reqs, Rows, CopyInv
  <2> QED
    BY <2>1, ReadingNames DEF CopyOf
<1> QED
  BY <1>1, IInvInductive, PTL DEF Spec

\* A closed incident is read-only, since a write that its version lets through was made of a
\* copy that was open, and is the row.
THEOREM ClosedStays == Spec => ClosedIsFinal
<1> DEFINE Final == row.closed => row' = [row EXCEPT !.deleted = row'.deleted, !.ver = row'.ver]
<1>1. ASSUME IInv, [Next]_vars, row.closed PROVE Final
  <2>0. row \in Rows
    BY <1>1 DEF IInv, TypeInv, TypeOK
  <2>1. CASE row' = row
    BY <2>0, <2>1 DEF Rows
  <2>2. ASSUME NEW r \in Requests, UpdateIncident(r) PROVE FALSE
    <3>1. /\ req[r].at \in Checked /\ req[r].expected = row.ver
      BY <2>2 DEF UpdateIncident
    <3>2. /\ req[r].expected \in Nat /\ req[r].copy.ver \in Nat /\ row.ver \in Nat
          /\ CopyOf(req[r], row)
      BY <1>1, MaxVersionAssumption DEF IInv, TypeInv, TypeOK, Reqs, Rows, CopyInv
    <3> QED
      BY <1>1, <3>1, <3>2, ReadingNames DEF CopyOf
  <2>3. ASSUME NEW r \in Requests, SoftDelete(r) PROVE Final
    BY <2>0, <2>1, <2>3 DEF SoftDelete, Rows
  <2>4. ASSUME NEW r \in Requests, Restore(r) PROVE Final
    BY <2>0, <2>4 DEF Restore, Rows
  <2>5. ASSUME NEW r \in Requests, Incident(r) PROVE Final
    BY <1>1, <2>1, <2>2, <2>3, <2>4, <2>5
    DEF Incident, ReadIncident, Conflict, ReadForClose, ListStages, ReadEntry, CloseIncident,
        Close, Cleanup, ReadForDelete, Fails
  <2>6. ASSUME NEW r \in Requests, StageOf(r) PROVE row' = row
    BY <2>6
    DEF StageOf, ReadForStage, ReadStage, InsertStage, InsertEntry, UpdateStage,
        UpdateStageContent, DeleteStage, CompleteStage
  <2> QED
    BY <1>1, <2>1, <2>5, <2>6 DEF Next, CloseBySource, Close, vars
<1>2. IInv /\ [Next]_vars => [Final]_vars
  BY <1>1
<1> QED
  BY <1>2, IInvInductive, PTL DEF Spec, ClosedIsFinal

\* A completed stage stays until it is deleted, since a request to rename it names a version
\* that the stage had before it was completed.
THEOREM DoneStays == Spec => DoneIsFinal
<1> DEFINE Final == \A s \in Stages : stages[s].is = "done" =>
                      stages'[s].is = "gone" \/ stages'[s] = stages[s]
<1>1. ASSUME IInv, [Next]_vars PROVE Final
  <2>0. TypeOK /\ TypeInv /\ TypeInv' /\ NameInv /\ stages \in [Stages -> StageRows]
    BY <1>1, IInvInductive DEF IInv, TypeInv, TypeOK
  <2>1. CASE stages' = stages
    BY <2>1
  <2>2. ASSUME NEW r \in Requests, InsertStage(r) PROVE Final
    <3>1. stages[req[r].stage].is = "none"
      BY <2>2, NoStageIs DEF InsertStage
    <3> QED
      BY <2>0, <2>2, <3>1 DEF InsertStage
  <2>3. ASSUME NEW r \in Requests, UpdateStage(r) PROVE Final
    <3> DEFINE s == req[r].stage
    <3>1. /\ s \in Stages /\ stages[s].ver \in Nat /\ req[r].expected \in Nat
          /\ NameOf(req[r], stages[s]) /\ req[r].at = "rename"
      BY <2>0, <2>3, AboutStage DEF UpdateStage, StageSteps, NameInv
    <3>2. stages[s].is = "done" => stages' = stages
      BY <2>3, <3>1 DEF UpdateStage, NameOf
    <3>3. \A t \in Stages : t # s => stages'[t] = stages[t]
      BY <2>0, <2>3 DEF UpdateStage
    <3> QED
      BY <3>2, <3>3
  <2>4. ASSUME NEW r \in Requests, DeleteStage(r) PROVE Final
    BY <2>0, <2>4 DEF DeleteStage
  <2>5. ASSUME NEW r \in Requests, CompleteStage(r) PROVE Final
    BY <2>0, <2>5 DEF CompleteStage
  <2>6. ASSUME NEW r \in Requests, Incident(r) PROVE stages' = stages
    BY <2>6
    DEF Incident, ReadIncident, UpdateIncident, Conflict, ReadForClose, ListStages, ReadEntry,
        CloseIncident, Cleanup, ReadForDelete, SoftDelete, Restore, Fails, Rest
  <2>7. ASSUME NEW r \in Requests, StageOf(r) PROVE Final
    BY <2>1, <2>2, <2>3, <2>4, <2>5, <2>7
    DEF StageOf, ReadForStage, ReadStage, InsertEntry, UpdateStageContent, Rest
  <2> QED
    BY <1>1, <2>1, <2>6, <2>7 DEF Next, CloseBySource, vars
<1>2. IInv /\ [Next]_vars => [Final]_vars
  BY <1>1
<1> QED
  BY <1>2, IInvInductive, PTL DEF Spec, DoneIsFinal
=============================================================================
