-------------------------- MODULE MonitorStateProofs --------------------------
(***************************************************************************)
(* Proofs about MonitorState: its types, that the notifications of a       *)
(* monitor alternate and that it has one open incident, for any requests,  *)
(* results and failures.  Both arguments are about the check alone: what   *)
(* it has read of the notification state and of the incidents stays true   *)
(* until it writes, because checks come one at a time; the state row it    *)
(* decides from may be any row.                                            *)
(***************************************************************************)
EXTENDS MonitorState, TLAPS

\* A check that has made its attempt has a result.
CheckShape == check.pc \in {"judging", "ending"} => check.raw # ""

TypeInv == TypeOK /\ CheckShape

\* While no notification state is lost, what is recorded, or what the check is about to
\* record, is what was sent last.
NoticeInv ==
  ~lost => /\ ~again
           /\ IF check.pc = "ending" THEN check.told = sent ELSE told = sent

\* While no search has failed, a check that is about to open an incident has seen none.
IncidentInv ==
  ~blind => /\ open <= 1
            /\ check.pc = "ending" /\ check.incident = "open" => open = 0

-----------------------------------------------------------------------------
(***************************************************************************)
(* What the statements read and write.                                     *)
(***************************************************************************)
LEMMA ReadsValue ==
  ASSUME NEW who, NEW v, NEW z, NEW x \in Reads(who, v, z)
  PROVE  x = v \/ x = z
BY DEF Reads

LEMMA WritesValue ==
  ASSUME NEW v, NEW z, NEW x \in Writes(v, z)
  PROVE  x = v \/ x = z
BY DEF Writes

\* The check as its reads leave it.
Judged(raw, maint) == [pc : {"ending"}, raw : {raw}, maint : {maint}, told : Kinds,
                       incident : {"", "open", "close"}]

\* What Judge does, with the values it has read.
JudgeWith(prev, maint, st) ==
  /\ check' \in Judged(check.raw, maint)
  /\ lost' = (lost \/ st # told)
  /\ Notify(check.raw, prev, maint, st)
  /\ Decide(check.raw, prev, maint)

LEMMA JudgeReads ==
  ASSUME Judge
  PROVE  \E prev, maint, st :
           /\ prev \in {row, NoRow} /\ maint \in {check.maint, FALSE} /\ st \in {told, "none"}
           /\ JudgeWith(prev, maint, st)
<1>1. PICK prev \in Reads("check", row, NoRow), maint \in Reads("check", check.maint, FALSE),
           st \in Reads("check", told, "none") : JudgeWith(prev, maint, st)
  BY DEF Judge, JudgeWith, Judged
<1>2. prev \in {row, NoRow}
  BY ReadsValue
<1>3. maint \in {check.maint, FALSE}
  BY ReadsValue
<1>4. st \in {told, "none"}
  BY ReadsValue
<1> QED BY <1>1, <1>2, <1>3, <1>4

\* A notification that is sent is not the one that the check has read.
LEMMA DueAlternates ==
  ASSUME NEW raw, NEW prev, NEW maint, NEW st \in Kinds, NEW k \in Due(raw, prev, maint, st)
  PROVE  k \in Kinds /\ k # st
BY DEF Due, DownDue, UpDue, Kinds

-----------------------------------------------------------------------------
(***************************************************************************)
(* Types.                                                                  *)
(***************************************************************************)
LEMMA RowsOfWriters ==
  /\ NoRow \in Rows /\ NewRow \in Rows
  /\ Idle \in Checks
  /\ Away \in Passes
  /\ Quiet \in Writers
BY DEF NoRow, NewRow, Idle, Away, Quiet, Rows, Results, Checks, Passes, Writers, Kinds

LEMMA InitTypeInv == Init => TypeInv
<1> SUFFICES ASSUME Init PROVE TypeInv
  OBVIOUS
<1>1. row \in Rows
  BY RowsOfWriters DEF Init
<1>2. open \in 0 .. MaxIncidents
  BY IncidentsAssumption DEF Init
<1>3. told \in Kinds /\ sent \in Kinds
  BY DEF Init, Kinds
<1>4. check.pc = "idle"
  BY DEF Init, Idle
<1>5. request \in [Requests -> Writers]
  BY RowsOfWriters DEF Init
<1> QED BY <1>1, <1>2, <1>3, <1>4, <1>5, RowsOfWriters DEF Init, TypeInv, TypeOK, CheckShape

LEMMA CheckTypeInv == TypeInv /\ CheckStep => TypeInv'
<1> SUFFICES ASSUME TypeInv, CheckStep PROVE TypeInv'
  OBVIOUS
<1>1. CASE Begin
  BY <1>1 DEF Begin, TypeInv, TypeOK, CheckShape, notices, incidents, Checks
<1>2. CASE Attempt
  BY <1>2, ServicesAssumption
     DEF Attempt, TypeInv, TypeOK, CheckShape, notices, incidents, Checks, Results
<1>3. CASE Judge
  <2>1. PICK prev, maint, st :
          /\ prev \in {row, NoRow} /\ maint \in {check.maint, FALSE} /\ st \in {told, "none"}
          /\ JudgeWith(prev, maint, st)
    BY <1>3, JudgeReads
  <2>2. maint \in BOOLEAN /\ st \in Kinds /\ check.raw \in Results /\ check.raw # ""
    BY <1>3, <2>1 DEF Judge, TypeInv, TypeOK, CheckShape, Checks, Kinds
  <2>3. check' \in Checks /\ check'.raw = check.raw
    BY <2>1, <2>2 DEF JudgeWith, Judged, Checks
  <2>4. sent' \in Kinds /\ again' \in BOOLEAN
    BY <2>1, <2>2, DueAlternates DEF JudgeWith, Notify, TypeInv, TypeOK
  <2>5. blind' \in BOOLEAN
    BY <2>1 DEF JudgeWith, Decide, TypeInv, TypeOK
  <2>6. lost' \in BOOLEAN
    BY <2>1 DEF JudgeWith, TypeInv, TypeOK
  <2> QED
    BY <1>3, <2>2, <2>3, <2>4, <2>5, <2>6 DEF Judge, TypeInv, TypeOK, CheckShape
<1>4. CASE End
  <2> DEFINE saved == [status |-> IF check.maint THEN "maintenance" ELSE check.raw,
                       last |-> check.raw, maint |-> check.maint, checked |-> TRUE]
  <2>1. saved \in Rows
    BY <1>4 DEF End, TypeInv, TypeOK, CheckShape, Checks, Rows, Results
  <2>2. row' \in Rows
    BY <1>4, <2>1, WritesValue DEF End, TypeInv, TypeOK
  <2>3. told' \in Kinds
    BY <1>4, WritesValue DEF End, TypeInv, TypeOK, Checks
  <2>4. open' \in 0 .. MaxIncidents
    <3> DEFINE after == CASE check.incident = "open" -> open + 1
                          [] check.incident = "close" -> Closed
                          [] OTHER -> open
    <3>1. after \in Nat
      BY DEF Closed, TypeInv, TypeOK
    <3>2. open' \in Writes(after, open) /\ open' <= MaxIncidents
      BY <1>4 DEF End
    <3> HIDE DEF after
    <3>3. open' \in Nat
      BY <3>1, <3>2, WritesValue DEF TypeInv, TypeOK
    <3> QED BY <3>2, <3>3, IncidentsAssumption
  <2>5. lost' \in BOOLEAN
    BY <1>4 DEF End, TypeInv, TypeOK
  <2>6. check' \in Checks /\ check'.pc = "idle"
    BY <1>4, RowsOfWriters DEF End, Idle
  <2> QED
    BY <1>4, <2>2, <2>3, <2>4, <2>5, <2>6 DEF End, TypeInv, TypeOK, CheckShape
<1> QED BY <1>1, <1>2, <1>3, <1>4 DEF CheckStep

LEMMA PassTypeInv == TypeInv /\ (PassStep \/ PassFails) => TypeInv'
<1> SUFFICES ASSUME TypeInv, PassStep \/ PassFails PROVE TypeInv'
  OBVIOUS
<1> USE DEF TypeInv, TypeOK, CheckShape, notices, incidents
<1>1. CASE ListMonitors
  BY <1>1 DEF ListMonitors, Passes
<1>2. CASE PassRead
  <2>1. PICK active \in Reads("pass", pass.window, FALSE) :
          pass' = IF UpToDate(active) THEN Away
                  ELSE [Away EXCEPT !.pc = "write", !.row = Seen(active)]
    BY <1>2 DEF PassRead
  <2>2. active \in BOOLEAN
    BY ReadsValue DEF Passes
  <2>3. Seen(active) \in Rows
    BY <2>2 DEF Seen, Shown, Rows, Results
  <2>4. pass' \in Passes
    BY <2>1, <2>3, RowsOfWriters DEF Away, Passes
  <2> QED BY <1>2, <2>4 DEF PassRead
<1>3. CASE PassWrite
  BY <1>3, RowsOfWriters DEF PassWrite, Passes
<1>4. CASE PassFails
  BY <1>4, RowsOfWriters DEF PassFails
<1> QED BY <1>1, <1>2, <1>3, <1>4 DEF PassStep

LEMMA RequestTypeInv ==
  ASSUME TypeInv, NEW r \in Requests, Arrive(r) \/ Answer(r) \/ PauseFails(r)
  PROVE  TypeInv'
<1> USE DEF TypeInv, TypeOK, CheckShape, notices, incidents
<1>1. ASSUME NEW b \in BOOLEAN, UpdateMonitor(r, b) PROVE TypeInv'
  BY <1>1, RowsOfWriters DEF UpdateMonitor, Quiet, Writers
<1>2. CASE EditWrite(r)
  BY <1>2 DEF EditWrite, Writers
<1>3. ASSUME NEW b \in BOOLEAN, SetMonitorPaused(r, b) PROVE TypeInv'
  <2> DEFINE active == ~b /\ window
  <2>1. active \in BOOLEAN
    OBVIOUS
  <2>2. request' = [request EXCEPT ![r].pc = "read", ![r].paused = b, ![r].window = active]
    BY <1>3 DEF SetMonitorPaused
  <2> HIDE DEF active
  <2> DEFINE w == [request[r] EXCEPT !.pc = "read", !.paused = b, !.window = active]
  <2>3. request[r] \in Writers
    OBVIOUS
  <2>4. w \in Writers
    BY <2>1, <2>3 DEF Writers
  <2>5. request' = [request EXCEPT ![r] = w]
    BY <2>2
  <2> HIDE DEF w
  <2>6. request' \in [Requests -> Writers]
    BY <2>4, <2>5
  <2> QED BY <1>3, <2>6 DEF SetMonitorPaused
<1>4. CASE PauseRead(r)
  <2> DEFINE last == IF row.last = "" THEN "down" ELSE row.last
  <2>1. last \in {"up", "down", "dns"} /\ row.checked \in BOOLEAN
    BY DEF Rows, Results
  <2> HIDE DEF last
  <2>2. PICK status \in {"paused", "maintenance"} \cup Resumed(last) :
          request' = [request EXCEPT ![r] =
                        [Quiet EXCEPT !.pc = "write", !.edits = request[r].edits,
                           !.row = [status |-> status, last |-> last, maint |-> request[r].window,
                                    checked |-> row.checked]]]
    BY <1>4 DEF PauseRead, last
  <2>3. status \in {"up", "down", "dns", "paused", "maintenance"}
    BY <2>1 DEF Resumed
  <2>4. request[r].window \in BOOLEAN /\ request[r].edits \in BOOLEAN
    BY DEF Writers
  <2>5. [status |-> status, last |-> last, maint |-> request[r].window,
         checked |-> row.checked] \in Rows
    BY <2>1, <2>3, <2>4 DEF Rows, Results
  <2>6. request' \in [Requests -> Writers]
    BY <2>2, <2>4, <2>5 DEF Quiet, Writers
  <2> QED BY <1>4, <2>6 DEF PauseRead
<1>5. AfterPause(r) \in Writers
  BY RowsOfWriters DEF AfterPause, Quiet, Writers
<1>6. CASE PauseWrite(r)
  BY <1>5, <1>6 DEF PauseWrite, Writers
<1>7. CASE PauseFails(r)
  BY <1>5, <1>7 DEF PauseFails
<1>8. CASE MarkMonitorDueNow(r)
  BY <1>8, RowsOfWriters DEF MarkMonitorDueNow, NoRow, Rows
<1>9. request[r].paused \in BOOLEAN
  BY DEF Writers
<1> QED BY <1>1, <1>2, <1>3, <1>4, <1>6, <1>7, <1>8, <1>9 DEF Arrive, Answer

LEMMA NextTypeInv == TypeInv /\ [Next]_vars => TypeInv'
<1> SUFFICES ASSUME TypeInv, [Next]_vars PROVE TypeInv'
  OBVIOUS
<1>1. CASE WindowChanges
  BY <1>1 DEF WindowChanges, TypeInv, TypeOK, CheckShape, notices, incidents
<1>2. CASE CloseIncident
  <2>1. open' \in 0 .. MaxIncidents
    BY <1>2, IncidentsAssumption DEF CloseIncident, TypeInv, TypeOK
  <2> QED BY <1>2, <2>1 DEF CloseIncident, TypeInv, TypeOK, CheckShape, notices
<1>3. CASE UNCHANGED vars
  BY <1>3 DEF vars, TypeInv, TypeOK, CheckShape
<1> QED BY <1>1, <1>2, <1>3, CheckTypeInv, PassTypeInv, RequestTypeInv DEF Next

\* Every reachable state of a monitor and its rows has its type.
THEOREM TypeCorrect == Spec => []TypeOK
<1>1. TypeInv => TypeOK
  BY DEF TypeInv
<1> QED BY <1>1, InitTypeInv, NextTypeInv, PTL DEF Spec

LEMMA TypeInvariant == Spec => []TypeInv
BY InitTypeInv, NextTypeInv, PTL DEF Spec

-----------------------------------------------------------------------------
(***************************************************************************)
(* The notifications and the incidents.                                    *)
(***************************************************************************)
\* The actions that are not of a check leave both arguments alone.
LEMMA OthersKeep ==
  ASSUME [Next]_vars, ~CheckStep
  PROVE  UNCHANGED <<told, sent, again, lost, blind, check>> /\ (CloseIncident \/ UNCHANGED open)
<1> USE DEF notices, incidents
<1>1. CASE WindowChanges \/ CloseIncident
  BY <1>1 DEF WindowChanges, CloseIncident
<1>2. CASE PassStep \/ PassFails
  BY <1>2 DEF PassStep, ListMonitors, PassRead, PassWrite, PassFails
<1>3. ASSUME NEW r \in Requests, Arrive(r) \/ Answer(r) \/ PauseFails(r)
      PROVE  UNCHANGED <<told, sent, again, lost, blind, check, open>>
  BY <1>3 DEF Arrive, Answer, UpdateMonitor, EditWrite, SetMonitorPaused, PauseRead, PauseWrite,
              PauseFails, MarkMonitorDueNow
<1>4. CASE UNCHANGED vars
  BY <1>4 DEF vars
<1> QED BY <1>1, <1>2, <1>3, <1>4 DEF Next

LEMMA NextNoticeInv == TypeInv /\ NoticeInv /\ [Next]_vars => NoticeInv'
<1> SUFFICES ASSUME TypeInv, NoticeInv, [Next]_vars PROVE NoticeInv'
  OBVIOUS
<1>1. CASE ~CheckStep
  BY <1>1, OthersKeep DEF NoticeInv
<1>2. CASE Begin \/ Attempt
  BY <1>2 DEF Begin, Attempt, NoticeInv, TypeInv, TypeOK, Checks, notices
<1>3. CASE Judge
  <2>1. PICK prev, maint, st :
          /\ prev \in {row, NoRow} /\ maint \in {check.maint, FALSE} /\ st \in {told, "none"}
          /\ JudgeWith(prev, maint, st)
    BY <1>3, JudgeReads
  <2>2. check'.pc = "ending" /\ check.pc = "judging"
    BY <1>3, <2>1 DEF JudgeWith, Judged, Judge
  <2>3. ASSUME ~lost' PROVE ~again' /\ check'.told = sent'
    <3>1. ~lost /\ st = told /\ ~again /\ told = sent
      BY <2>1, <2>2, <2>3 DEF JudgeWith, NoticeInv
    <3>2. CASE check'.told = st /\ UNCHANGED <<sent, again>>
      BY <3>1, <3>2
    <3>3. ASSUME NEW k \in Due(check.raw, prev, maint, st),
                 check'.told = k, sent' = k, again' = (again \/ sent = k)
          PROVE  ~again' /\ check'.told = sent'
      <4>1. st \in Kinds
        BY <3>1 DEF TypeInv, TypeOK
      <4>2. k # st
        BY <4>1, DueAlternates
      <4> QED BY <3>1, <3>3, <4>2
    <3> QED BY <2>1, <3>2, <3>3 DEF JudgeWith, Notify
  <2> QED BY <2>2, <2>3 DEF NoticeInv
<1>4. CASE End
  BY <1>4 DEF End, Idle, NoticeInv
<1> QED BY <1>1, <1>2, <1>3, <1>4 DEF CheckStep

\* DOWN and UP alternate unless a notification state was lost between the check and the
\* database: no row of the pass or of a request can make the engine repeat itself.
THEOREM NoticesCorrect == Spec => []NoticesAlternate
<1>1. ASSUME Init PROVE NoticeInv
  <2>1. ~again /\ told = sent
    BY <1>1 DEF Init
  <2>2. check.pc = "idle"
    BY <1>1 DEF Init, Idle
  <2> QED BY <2>1, <2>2 DEF NoticeInv
<1>2. NoticeInv => NoticesAlternate
  BY DEF NoticeInv, NoticesAlternate
<1> QED BY <1>1, <1>2, NextNoticeInv, TypeInvariant, PTL DEF Spec

LEMMA NextIncidentInv == TypeInv /\ IncidentInv /\ [Next]_vars => IncidentInv'
<1> SUFFICES ASSUME TypeInv, IncidentInv, [Next]_vars PROVE IncidentInv'
  OBVIOUS
<1>0. open \in Nat
  BY DEF TypeInv, TypeOK
<1>1. CASE CloseIncident
  BY <1>0, <1>1 DEF CloseIncident, IncidentInv
<1>2. CASE ~CheckStep /\ ~CloseIncident
  BY <1>2, OthersKeep DEF IncidentInv
<1>3. CASE Begin \/ Attempt
  BY <1>3 DEF Begin, Attempt, IncidentInv, TypeInv, TypeOK, Checks, incidents
<1>4. CASE Judge
  <2>1. PICK prev, maint, st :
          /\ prev \in {row, NoRow} /\ maint \in {check.maint, FALSE} /\ st \in {told, "none"}
          /\ JudgeWith(prev, maint, st)
    BY <1>4, JudgeReads
  <2>2. open' = open /\ (~blind' => ~blind)
    BY <1>4, <2>1 DEF Judge, JudgeWith, Decide, TypeInv, TypeOK
  <2>3. ~blind' /\ check'.incident = "open" => open = 0
    <3> DEFINE some == open > 0
    <3>1. SUFFICES ASSUME ~blind', check'.incident = "open" PROVE ~some
      BY <1>0
    <3> HIDE DEF some
    <3>2. PICK found \in Reads("check", some, FALSE) :
            /\ check'.incident = IF check.raw = "down" /\ prev.last # "down" /\ ~found THEN "open"
                                 ELSE IF check.raw = "up" /\ prev.last = "down" /\ CloseOnUp
                                         /\ found THEN "close" ELSE ""
            /\ blind' = (blind \/ found # some)
      BY <2>1, <3>1 DEF JudgeWith, Decide, Find, some
    <3>3. ~found
      BY <3>1, <3>2
    <3>4. found = some
      BY <3>1, <3>2
    <3> QED BY <3>3, <3>4
  <2> QED BY <2>2, <2>3 DEF IncidentInv
<1>5. CASE End
  <2>1. check'.pc = "idle" /\ blind' = blind
    BY <1>5 DEF End, Idle
  <2>2. ASSUME ~blind PROVE open' <= 1
    <3> DEFINE after == CASE check.incident = "open" -> open + 1
                          [] check.incident = "close" -> Closed
                          [] OTHER -> open
    <3>1. open <= 1 /\ (check.incident = "open" => open = 0)
      BY <1>5, <2>2 DEF End, IncidentInv
    <3>2. after <= 1
      BY <1>0, <3>1 DEF Closed
    <3>3. open' \in Writes(after, open)
      BY <1>5 DEF End
    <3> HIDE DEF after
    <3> QED BY <3>1, <3>2, <3>3, WritesValue
  <2> QED BY <2>1, <2>2 DEF IncidentInv
<1> QED BY <1>1, <1>2, <1>3, <1>4, <1>5 DEF CheckStep

\* The engine has at most one open incident of a monitor, unless its search for one failed.
THEOREM IncidentCorrect == Spec => []OneOpenIncident
<1>1. ASSUME Init PROVE IncidentInv
  <2>1. open = 0
    BY <1>1 DEF Init
  <2>2. check.pc = "idle"
    BY <1>1 DEF Init, Idle
  <2> QED BY <2>1, <2>2 DEF IncidentInv
<1>2. TypeInv /\ IncidentInv => OneOpenIncident
  BY DEF TypeInv, TypeOK, IncidentInv, OneOpenIncident
<1> QED BY <1>1, <1>2, NextIncidentInv, TypeInvariant, PTL DEF Spec
=============================================================================
