----------------------------- MODULE MonitorState -----------------------------
(***************************************************************************)
(* One monitor and the rows that say how it is: monitor_state, the         *)
(* notification state, the incident the engine opened for it, and the      *)
(* flag monitors.is_paused (core/monitoring, core/store).                  *)
(*                                                                         *)
(* Three kinds of writers share the state row without a transaction: the   *)
(* checks of the engine (runCheck, updateState, handleAutomation), which   *)
(* come one at a time (CheckSlots, OneCheckPerMonitor), the maintenance    *)
(* pass of its loop (runMaintenance) and the requests that pause, resume   *)
(* or edit the monitor.  Each reads the row, decides, and writes all of it *)
(* back.  An action is a statement or a run of them in which no other      *)
(* writer's statement would make a difference.  The checks come one at a   *)
(* time because the api and the engine are one process here (run mode      *)
(* all); with a worker of its own, a manual check has another engine.      *)
(*                                                                         *)
(* Abstractions.  The attempts, retries and times are left out: a check    *)
(* has one of the results of Services.  The suppression time, the quiet    *)
(* hours, the channels and the setting notify_maintenance decide whether a *)
(* notification that is due is sent: it may or may not be.  The monitor    *)
(* has auto_incident on.  Tasks, TLS, push monitors and the event log are  *)
(* left out, and an operator who reopens an incident.                      *)
(***************************************************************************)
EXTENDS Integers

CONSTANTS Services,      \* what a check can see: some of "up", "down", "dns"
          Requests,      \* requests about the monitor at the same time
          CloseOnUp,     \* the setting auto_incident_close_on_up
          Failures,      \* whose statements may fail, or their context end before them
          MaxIncidents   \* bound: open incidents

ASSUME ServicesAssumption == Services \subseteq {"up", "down", "dns"}
ASSUME CloseAssumption == CloseOnUp \in BOOLEAN
ASSUME FailuresAssumption == Failures \subseteq {"check", "pass", "request"}
ASSUME IncidentsAssumption == MaxIncidents \in Nat

VARIABLES window,   \* a maintenance window is active
          paused,   \* monitors.is_paused
          row,      \* monitor_state, NoRow before there is one
          told,     \* the last of DOWN and UP in monitor_notification_state
          sent,     \* the last of DOWN and UP that was really sent
          again,    \* two in a row were the same
          lost,     \* a notification state was not written, or not read
          open,     \* open incidents of the monitor
          blind,    \* the search for an open incident failed
          check,    \* the check in progress
          pass,     \* the maintenance pass
          request   \* the requests

notices == <<told, sent, again, lost>>
incidents == <<open, blind>>
vars == <<window, paused, row, told, sent, again, lost, open, blind, check, pass, request>>

Results == {"", "up", "down", "dns"}
Rows == [status : {"none", "up", "down", "dns", "paused", "maintenance"}, last : Results,
         maint : BOOLEAN, checked : BOOLEAN]
NoRow == [status |-> "none", last |-> "", maint |-> FALSE, checked |-> FALSE]
\* CreateMonitor.
NewRow == [status |-> "down", last |-> "down", maint |-> FALSE, checked |-> FALSE]

Kinds == {"none", "down", "up"}

\* "begun": before the attempt, "judging": before the statements that read, "ending":
\* before those that write.
Checks == [pc : {"idle", "begun", "judging", "ending"}, raw : Results, maint : BOOLEAN, told : Kinds,
           incident : {"", "open", "close"}]
Idle == [pc |-> "idle", raw |-> "", maint |-> FALSE, told |-> "none", incident |-> ""]

Passes == [pc : {"idle", "read", "write"}, paused : BOOLEAN, window : BOOLEAN, row : Rows]
Away == [pc |-> "idle", paused |-> FALSE, window |-> FALSE, row |-> NoRow]

\* "edit": UpdateMonitor writes the monitor; "set", "read", "write": SetMonitorPaused;
\* "due": MarkMonitorDueNow.
Writers == [pc : {"idle", "edit", "set", "read", "write", "due"}, paused : BOOLEAN,
            window : BOOLEAN, edits : BOOLEAN, row : Rows]
Quiet == [pc |-> "idle", paused |-> FALSE, window |-> FALSE, edits |-> FALSE, row |-> NoRow]

TypeOK ==
  /\ window \in BOOLEAN /\ paused \in BOOLEAN
  /\ row \in Rows
  /\ told \in Kinds /\ sent \in Kinds
  /\ again \in BOOLEAN /\ lost \in BOOLEAN /\ blind \in BOOLEAN
  /\ open \in 0 .. MaxIncidents
  /\ check \in Checks
  /\ pass \in Passes
  /\ request \in [Requests -> Writers]

Init ==
  /\ window = FALSE /\ paused = FALSE
  /\ row \in IF "request" \in Failures THEN {NewRow, NoRow} ELSE {NewRow}
  /\ told = "none" /\ sent = "none"
  /\ again = FALSE /\ lost = FALSE /\ blind = FALSE
  /\ open = 0
  /\ check = Idle
  /\ pass = Away
  /\ request = [r \in Requests |-> Quiet]

-----------------------------------------------------------------------------
(***************************************************************************)
(* The environment.                                                        *)
(***************************************************************************)
WindowChanges ==
  /\ window' = ~window
  /\ UNCHANGED <<paused, row, notices, incidents, check, pass, request>>

\* An operator closes or deletes an incident.
CloseIncident ==
  /\ open > 0
  /\ open' = open - 1
  /\ UNCHANGED <<window, paused, row, notices, blind, check, pass, request>>

\* What a read returns, or the zero value that the code goes on with after an error.
Reads(who, value, zero) == IF who \in Failures THEN {value, zero} ELSE {value}

\* What a statement of a check leaves: its effect, or what was there.
Writes(new, old) == IF "check" \in Failures THEN {new, old} ELSE {new}

-----------------------------------------------------------------------------
(***************************************************************************)
(* A check: runCheck, updateState, handleAutomation.                       *)
(***************************************************************************)
\* ListDueMonitors or CheckNow: a paused monitor is not checked.
Begin ==
  /\ check.pc = "idle"
  /\ ~paused
  /\ check' = [check EXCEPT !.pc = "begun"]
  /\ UNCHANGED <<window, paused, row, notices, incidents, pass, request>>

\* Whether a window is active is a matter of the attempt's time, whenever it is asked.
Attempt ==
  /\ check.pc = "begun"
  /\ \E raw \in Services :
       check' = [check EXCEPT !.pc = "judging", !.raw = raw, !.maint = window]
  /\ UNCHANGED <<window, paused, row, notices, incidents, pass, request>>

\* A monitor under maintenance is silent, except when that has just begun.
Silent(prev, maint) == maint /\ (prev = NoRow \/ prev.maint)

\* Fault injected: whatever was told, a new outage is told.
DownDueAlways(raw, prev, st) == raw = "down" /\ (prev.last # "down" \/ ~prev.checked)
\* "Send DOWN only once per outage window until an UP notification is sent."
DownDue(raw, prev, st) == raw = "down" /\ (prev.last # "down" \/ ~prev.checked) /\ st # "down"

\* "Send UP only when there was a previously notified DOWN in the current outage cycle."
UpDue(raw, prev, st) == raw = "up" /\ prev.last = "down" /\ st = "down"

Due(raw, prev, maint, st) ==
  {k \in {"down", "up"} : /\ ~Silent(prev, maint)
                          /\ \/ k = "down" /\ DownDue(raw, prev, st)
                             \/ k = "up" /\ UpDue(raw, prev, st)}

\* handleNotifications: at most one notification; the state it leaves is recorded later.
Notify(raw, prev, maint, st) ==
  \/ check'.told = st /\ UNCHANGED <<sent, again>>
  \/ \E k \in Due(raw, prev, maint, st) :
       /\ check'.told = k
       /\ sent' = k
       /\ again' = (again \/ sent = k)

\* FindOpenIncidentBySource.
Find == Reads("check", open > 0, FALSE)

\* Fault injected: a fall opens an incident whatever is open.
DecideUnseen(raw, prev, maint) ==
  /\ check'.incident = IF ~maint /\ raw = "down" /\ prev.last # "down" THEN "open"
                       ELSE IF ~maint /\ raw = "up" /\ prev.last = "down" /\ open > 0 THEN "close"
                       ELSE ""
  /\ UNCHANGED blind

\* handleAutoIncident, up to the statement that opens or closes one.
Decide(raw, prev, maint) ==
  LET fell == raw = "down" /\ prev.last # "down"
      rose == raw = "up" /\ prev.last = "down" /\ CloseOnUp
  IN IF ~maint /\ (fell \/ rose)
     THEN \E found \in Find :
            /\ check'.incident = IF fell /\ ~found THEN "open"
                                 ELSE IF rose /\ found THEN "close" ELSE ""
            /\ blind' = (blind \/ found # (open > 0))
     ELSE check'.incident = "" /\ UNCHANGED blind

\* The three reads, what is sent and what becomes of the incident.
Judge ==
  /\ check.pc = "judging"
  /\ \E prev \in Reads("check", row, NoRow), maint \in Reads("check", check.maint, FALSE),
        st \in Reads("check", told, "none") :
       /\ check' \in [pc : {"ending"}, raw : {check.raw}, maint : {maint}, told : Kinds,
                      incident : {"", "open", "close"}]
       /\ lost' = (lost \/ st # told)
       /\ Notify(check.raw, prev, maint, st)
       /\ Decide(check.raw, prev, maint)
  /\ UNCHANGED <<window, paused, row, told, open, pass, request>>

\* CloseIncident, unless an operator was faster.
Closed == IF open > 0 THEN open - 1 ELSE open

\* CreateIncident or CloseIncident, then UpsertNotificationState and UpsertMonitorState,
\* which write all they have.  The monitor was not paused when the check began.
End ==
  /\ check.pc = "ending"
  /\ open' \in Writes(CASE check.incident = "open" -> open + 1
                        [] check.incident = "close" -> Closed
                        [] OTHER -> open, open)
  /\ open' <= MaxIncidents
  /\ told' \in Writes(check.told, told)
  /\ lost' = (lost \/ told' # check.told)
  /\ row' \in Writes([status |-> IF check.maint THEN "maintenance" ELSE check.raw,
                      last |-> check.raw, maint |-> check.maint, checked |-> TRUE], row)
  /\ check' = Idle
  /\ UNCHANGED <<window, paused, sent, again, blind, pass, request>>

-----------------------------------------------------------------------------
(***************************************************************************)
(* The maintenance pass.                                                   *)
(***************************************************************************)
Shown(isPaused, active, last) ==
  IF isPaused THEN "paused"
  ELSE IF active THEN "maintenance"
  ELSE IF last = "" THEN "down" ELSE last

ListMonitors ==
  /\ pass.pc = "idle"
  /\ pass' = [pass EXCEPT !.pc = "read", !.paused = paused, !.window = window]
  /\ UNCHANGED <<window, paused, row, notices, incidents, check, request>>

\* What the pass makes of the row.
Seen(active) == [row EXCEPT !.maint = active, !.status = Shown(pass.paused, active, row.last)]

\* Fault injected: the window is compared and the status shown is not.
UpToDateWindow(active) == row = NoRow \/ row.maint = active
\* The row is written back only when the window or the status shown has changed.
UpToDate(active) == row \in {NoRow, Seen(active)}

PassRead ==
  /\ pass.pc = "read"
  /\ \E active \in Reads("pass", pass.window, FALSE) :
       pass' = IF UpToDate(active) THEN Away
               ELSE [Away EXCEPT !.pc = "write", !.row = Seen(active)]
  /\ UNCHANGED <<window, paused, row, notices, incidents, check, request>>

\* A statement of the pass fails; the next pass tries again.
PassFails ==
  /\ "pass" \in Failures
  /\ pass.pc # "idle"
  /\ pass' = Away
  /\ UNCHANGED <<window, paused, row, notices, incidents, check, request>>

PassWrite ==
  /\ pass.pc = "write"
  /\ row' = pass.row
  /\ pass' = Away
  /\ UNCHANGED <<window, paused, notices, incidents, check, request>>

-----------------------------------------------------------------------------
(***************************************************************************)
(* The requests.                                                           *)
(***************************************************************************)
\* UpdateMonitor reads the monitor, the flag included, and may be told to change it.
UpdateMonitor(r, isPaused) ==
  /\ request[r].pc = "idle"
  /\ request' = [request EXCEPT ![r] = [Quiet EXCEPT !.pc = "edit", !.paused = isPaused,
                                                     !.edits = (isPaused # paused)]]
  /\ UNCHANGED <<window, paused, row, notices, incidents, check, pass>>

\* It writes all of it back, with the flag it has read when it is not to change it.
EditWrite(r) ==
  /\ request[r].pc = "edit"
  /\ paused' = request[r].paused
  /\ request' = [request EXCEPT ![r].pc = IF request[r].edits THEN "set" ELSE "due"]
  /\ UNCHANGED <<window, row, notices, incidents, check, pass>>

\* SetMonitorPaused: the flag first, then the row.
SetMonitorPaused(r, isPaused) ==
  /\ \/ request[r].pc = "idle"
     \/ request[r].pc = "set" /\ request[r].paused = isPaused
  /\ paused' = isPaused
  /\ request' = [request EXCEPT ![r].pc = "read", ![r].paused = isPaused,
                                ![r].window = ~isPaused /\ window]
  /\ UNCHANGED <<window, row, notices, incidents, check, pass>>

\* A monitor that resumes shows its last result; one that failed to resolve shows the
\* newer of its last UP and its last DOWN.
Resumed(last) == IF last = "dns" THEN {"up", "down"} ELSE {last}

PauseRead(r) ==
  LET last == IF row.last = "" THEN "down" ELSE row.last
      active == request[r].window IN
  /\ request[r].pc = "read"
  /\ \E status \in IF request[r].paused THEN {"paused"}
                   ELSE IF active THEN {"maintenance"} ELSE Resumed(last) :
       request' = [request EXCEPT ![r] =
                     [Quiet EXCEPT !.pc = "write", !.edits = request[r].edits,
                        !.row = [status |-> status, last |-> last, maint |-> active,
                                 checked |-> row.checked]]]
  /\ UNCHANGED <<window, paused, row, notices, incidents, check, pass>>

\* UpdateMonitor goes on after SetMonitorPaused, also when that has failed.
AfterPause(r) == IF request[r].edits THEN [Quiet EXCEPT !.pc = "due"] ELSE Quiet

PauseWrite(r) ==
  /\ request[r].pc = "write"
  /\ row' = request[r].row
  /\ request' = [request EXCEPT ![r] = AfterPause(r)]
  /\ UNCHANGED <<window, paused, notices, incidents, check, pass>>

\* A statement after the flag's fails: the row does not follow.
PauseFails(r) ==
  /\ "request" \in Failures
  /\ request[r].pc \in {"read", "write"}
  /\ request' = [request EXCEPT ![r] = AfterPause(r)]
  /\ UNCHANGED <<window, paused, row, notices, incidents, check, pass>>

MarkMonitorDueNow(r) ==
  /\ request[r].pc = "due"
  /\ row' = IF row = NoRow THEN [NoRow EXCEPT !.status = "down"]
            ELSE [row EXCEPT !.checked = FALSE]
  /\ request' = [request EXCEPT ![r] = Quiet]
  /\ UNCHANGED <<window, paused, notices, incidents, check, pass>>

-----------------------------------------------------------------------------
CheckStep == Begin \/ Attempt \/ Judge \/ End
PassStep == ListMonitors \/ PassRead \/ PassWrite
Answer(r) == \/ EditWrite(r) \/ PauseRead(r) \/ PauseWrite(r) \/ MarkMonitorDueNow(r)
             \/ request[r].pc = "set" /\ SetMonitorPaused(r, request[r].paused)
Arrive(r) == \E b \in BOOLEAN : UpdateMonitor(r, b) \/ SetMonitorPaused(r, b)

Next ==
  \/ WindowChanges \/ CloseIncident
  \/ CheckStep \/ PassStep \/ PassFails
  \/ \E r \in Requests : Arrive(r) \/ Answer(r) \/ PauseFails(r)

Spec == Init /\ [][Next]_vars

\* The loop checks what is due and makes its pass every minute, and a request that has
\* begun goes on.
FairSpec == /\ Spec
            /\ WF_vars(CheckStep)
            /\ WF_vars(PassStep)
            /\ \A r \in Requests : WF_vars(Answer(r))

-----------------------------------------------------------------------------
\* DOWN and UP alternate, whatever row a check has read and whoever overwrote it, unless
\* a notification state was lost on its way to or from the database.
NoticesAlternate == again => lost

\* The engine opens one incident at a time: a stale row makes it look, not open another,
\* unless the search itself failed.
OneOpenIncident == open > 1 => blind

\* Once the monitor stays paused or not and a window stays open or not, the row comes to
\* show it again and again, though checks, passes and requests that began earlier still
\* write what they have read, and statements of theirs fail.
DisplaySettles ==
  \A p, w \in BOOLEAN :
    <>[](paused = p /\ window = w) =>
      []<>(row = NoRow \/ row.status = Shown(p, w, row.last))

\* docs/eng/README.md: "server-side flag to auto-close incidents when monitor recovers
\* (`DOWN -> UP`)": a monitor of which every check says UP has no open incident.
RecoveryCloses ==
  <>[](~window /\ ~paused /\ row.last = "up" /\ check.raw \in {"", "up"}) => <>[](open = 0)
=============================================================================
