------------------------------ MODULE SlaPeriods ------------------------------
(***************************************************************************)
(* The service level of one monitor over closed periods: the evaluator of  *)
(* the engine's loop, which judges the last closed day, week and month     *)
(* again every minute and opens an incident for a violation, and the       *)
(* requests that change what it judges by (core/monitoring/sla.go,         *)
(* core/store, api/handlers).                                              *)
(*                                                                         *)
(* The evaluator reads the monitor, its policy, its metrics with the       *)
(* maintenance, writes the row of the period, opens the incident and marks *)
(* the row, one after the other; each may fail, and a request may come     *)
(* between.  A new target is written to the monitor, and then to the rows  *)
(* of all periods.                                                         *)
(*                                                                         *)
(* Abstractions.  A day has one check, or none: the interval is a day, and *)
(* how long days, weeks and months are is a constant.  A day is under      *)
(* maintenance or it is not.  Percentages are hundredths, rounded in the   *)
(* rows as in the code.  The target is the monitor's or the default of the *)
(* settings, whichever the code would take; the ten seconds for which the  *)
(* engine keeps the settings are not told from a read that came earlier.   *)
(***************************************************************************)
EXTENDS Integers, FiniteSets, Sequences

CONSTANTS Kinds,       \* the kinds of periods, in the order of the evaluator
          Starts,      \* the days on which a period of each kind starts
          FirstDay,    \* the day on which the model begins
          LastDay,     \* bound: the day on which time stops
          Histories,   \* what was measured before, by day
          Targets,     \* percentages, in hundredths
          Policies,    \* the policies of monitors: incident or not, for which kind, and the
                       \* least coverage, in hundredths of a percentage
          Retention,   \* settings.retention_days
          Maintained,  \* the days that may be under maintenance
          MaxChanges,  \* bound: changes by operators
          MaxFailures  \* bound: statements that fail and processes that end

Days == 0 .. LastDay
KindNames == {Kinds[i] : i \in DOMAIN Kinds}
Measures == {"none", "ok", "bad"}
Percentages == 0 .. 10000

ASSUME KindsAssumption == Kinds \in Seq({"day", "week", "month"}) /\ Kinds # <<>>
ASSUME StartsAssumption == /\ LastDay \in Nat /\ FirstDay \in Days
                           /\ Starts \in [KindNames -> SUBSET Days]
                           /\ \A k \in KindNames :
                                Cardinality({d \in Starts[k] : d <= FirstDay}) >= 2
ASSUME HistoriesAssumption == Histories \subseteq [0 .. FirstDay - 1 -> Measures]
ASSUME PercentAssumption == Targets \subseteq Percentages \ {0}
ASSUME PoliciesAssumption ==
  Policies \subseteq [on : BOOLEAN, period : KindNames, min : Percentages \ {0}]
ASSUME RetentionAssumption == Retention \in Nat \ {0, 1} /\ Maintained \subseteq Days
ASSUME BoundsAssumption == MaxChanges \in Nat /\ MaxFailures \in Nat

VARIABLES today,
          metrics,   \* monitor_metrics, by day
          windows,   \* the days under maintenance
          target,    \* effectiveSLATarget
          policy,    \* monitor_sla_policies
          rows,      \* monitor_sla_period_results, by kind and start
          opened,    \* incidents opened for each period
          unmarked,  \* history: a row was not marked after its incident was opened
          pass,      \* the evaluator
          request,   \* UpdateMonitor, between its statements
          changes,   \* how many changes there were
          failures   \* and how many failures

judged == <<today, metrics, windows, target, policy>>
slaVars == <<today, metrics, windows, target, policy, rows, opened, unmarked, pass, request,
             changes, failures>>
counts == <<changes, failures>>

-----------------------------------------------------------------------------
(***************************************************************************)
(* Periods.                                                                *)
(***************************************************************************)
\* startOfUTCDay, startOfUTCWeek, startOfUTCMonth.
StartOf == [kind \in KindNames |-> [day \in Days |->
              CHOOSE d \in Starts[kind] : d <= day /\ \A e \in Starts[kind] : e <= day => e <= d]]

\* The start of the last closed period; its end is the start of the next one.
LastStart == [kind \in KindNames |-> [day \in FirstDay .. LastDay |->
                StartOf[kind][StartOf[kind][day] - 1]]]
Last(kind, day) == <<kind, LastStart[kind][day]>>

Periods == UNION {{Last(k, d) : d \in FirstDay .. LastDay} : k \in KindNames}

\* roundTwo of a share of a hundred.
Percent(part, whole) == (20000 * part + whole) \div (2 * whole)

\* EvaluateMonitorSLAWindow: maintenance takes its days out of what was expected and of
\* what was measured.
Evaluate(kind, day, goal, minCoverage) ==
  LET due == (LastStart[kind][day] .. StartOf[kind][day] - 1) \ windows
      expected == IF due = {} THEN 1 ELSE Cardinality(due)
      total == Cardinality({d \in due : metrics[d] # "none"})
      ok == Cardinality({d \in due : metrics[d] = "ok"}) IN
  [uptime |-> IF total = 0 THEN 0 ELSE Percent(ok, total),
   coverage |-> Percent(total, expected),
   target |-> goal,
   status |-> IF total = 0 \/ 10000 * total < minCoverage * expected THEN "unknown"
              ELSE IF 10000 * ok >= goal * total THEN "ok" ELSE "violated"]

Evaluations == [uptime : Percentages, coverage : Percentages, target : Targets \union {0},
                status : {"none", "ok", "violated", "unknown"}]
NoEvaluation == [uptime |-> 0, coverage |-> 0, target |-> 0, status |-> "none"]

\* A row: the last evaluation, and whether its incident was created.
Rows == [eval : Evaluations, created : BOOLEAN]
NoRow == [eval |-> NoEvaluation, created |-> FALSE]

\* "left" counts the kinds that are still to be judged.
Passes == [pc : {"idle", "list", "policies", "evaluate", "upsert", "incident", "mark"},
           day : Days, left : 0 .. Len(Kinds), target : Targets \union {0},
           policy : Policies \union {<<>>}, eval : Evaluations]
Away == [pc |-> "idle", day |-> 0, left |-> 0, target |-> 0, policy |-> <<>>,
         eval |-> NoEvaluation]

Requests == [pc : {"idle", "policy", "sync"}, target : Targets \union {0}, min : Percentages]
Quiet == [pc |-> "idle", target |-> 0, min |-> 0]

SlaTypeOK ==
  /\ today \in FirstDay .. LastDay
  /\ metrics \in [Days -> Measures]
  /\ windows \subseteq Maintained
  /\ target \in Targets
  /\ policy \in Policies
  /\ rows \in [Periods -> Rows]
  /\ opened \in [Periods -> Nat]
  /\ \A p \in Periods : rows[p].created => opened[p] > 0
  /\ unmarked \in BOOLEAN
  /\ pass \in Passes
  /\ request \in Requests
  /\ changes \in 0 .. MaxChanges
  /\ failures \in 0 .. MaxFailures

SlaInit ==
  /\ today = FirstDay
  /\ \E h \in Histories : metrics = [d \in Days |-> IF d < FirstDay THEN h[d] ELSE "none"]
  /\ windows = {}
  /\ target \in Targets
  /\ policy \in Policies
  /\ rows = [p \in Periods |-> NoRow]
  /\ opened = [p \in Periods |-> 0]
  /\ unmarked = FALSE
  /\ pass = Away
  /\ request = Quiet
  /\ changes = 0
  /\ failures = 0

-----------------------------------------------------------------------------
(***************************************************************************)
(* Time, checks and operators.                                             *)
(***************************************************************************)
results == <<rows, opened, unmarked>>

Changes == changes < MaxChanges /\ changes' = changes + 1 /\ UNCHANGED failures
Fails == failures < MaxFailures /\ failures' = failures + 1 /\ UNCHANGED changes

NextDay ==
  /\ today < LastDay
  /\ today' = today + 1
  /\ UNCHANGED <<metrics, windows, target, policy, results, pass, request, counts>>

\* AddMetric: a check that began before midnight may be recorded after it.  The last day is
\* in no period that the model judges.
AddMetric(d, measure) ==
  /\ d \in {today - 1, today} \ {LastDay}
  /\ metrics[d] = "none"
  /\ metrics' = [metrics EXCEPT ![d] = measure]
  /\ UNCHANGED <<today, windows, target, policy, results, pass, request, counts>>

\* runRetention, by the loop that runs the evaluator; metrics expire by whole days.
DeleteMetricsBefore ==
  /\ pass.pc = "idle"
  /\ \E d \in Days : d < today - Retention /\ metrics[d] # "none"
  /\ metrics' = [d \in Days |-> IF d < today - Retention THEN "none" ELSE metrics[d]]
  /\ UNCHANGED <<today, windows, target, policy, results, pass, request, counts>>

\* A maintenance is created, edited, stopped or deleted.
ChangeWindows(d) ==
  /\ Changes
  /\ windows' = IF d \in windows THEN windows \ {d} ELSE windows \union {d}
  /\ UNCHANGED <<today, metrics, target, policy, results, pass, request>>

UpdateMonitorSLAPolicy(new) ==
  /\ Changes
  /\ new # policy
  /\ policy' = new
  /\ UNCHANGED <<today, metrics, windows, target, results, pass, request>>

\* The settings' default target changes; no row is touched.
ChangeDefaultTarget(t) ==
  /\ Changes
  /\ target' = t
  /\ UNCHANGED <<today, metrics, windows, policy, results, pass, request>>

\* UpdateMonitor with another target.
UpdateMonitor(t) ==
  /\ request.pc = "idle"
  /\ Changes
  /\ target' = t
  /\ request' = [Quiet EXCEPT !.pc = "policy", !.target = t]
  /\ UNCHANGED <<today, metrics, windows, policy, results, pass>>

\* If the policy cannot be read, the default is taken.
ReadPolicy ==
  /\ request.pc = "policy"
  /\ \/ UNCHANGED counts /\ request' = [request EXCEPT !.pc = "sync", !.min = policy.min]
     \/ Fails /\ request' = [request EXCEPT !.pc = "sync", !.min = 8000]
  /\ UNCHANGED <<judged, results, pass>>

\* What SyncSLAPeriodTarget makes of a row: it compares rounded percentages.
Synced(eval) ==
  [eval EXCEPT !.target = request.target,
               !.status = IF eval.coverage < request.min THEN "unknown"
                          ELSE IF eval.uptime >= request.target THEN "ok" ELSE "violated"]

\* One statement for all periods, whose error is ignored.
SyncSLAPeriodTarget ==
  /\ request.pc = "sync"
  /\ rows' = [p \in Periods |-> IF rows[p] = NoRow THEN NoRow
                                ELSE [rows[p] EXCEPT !.eval = Synced(@)]]
  /\ request' = Quiet
  /\ UNCHANGED <<judged, opened, unmarked, pass, counts>>

SyncFails ==
  /\ request.pc # "idle"
  /\ Fails
  /\ request' = Quiet
  /\ UNCHANGED <<judged, results, pass>>

-----------------------------------------------------------------------------
(***************************************************************************)
(* The evaluator: runSLAEvaluator, evaluateSLAPeriod.                      *)
(***************************************************************************)
Kind == Kinds[Len(Kinds) - pass.left + 1]
Period == Last(Kind, pass.day)

Begin ==
  /\ pass.pc = "idle"
  /\ pass' = [Away EXCEPT !.pc = "list", !.day = today, !.left = Len(Kinds)]
  /\ UNCHANGED <<judged, results, request, counts>>

\* After a kind of period comes the next one.
Onward == IF pass.left = 1 THEN Away
          ELSE [Away EXCEPT !.pc = "list", !.day = pass.day, !.left = pass.left - 1]

ListMonitors ==
  /\ pass.pc = "list"
  /\ pass' = [pass EXCEPT !.pc = "policies", !.target = target]
  /\ UNCHANGED <<judged, results, request, counts>>

ListMonitorSLAPolicies ==
  /\ pass.pc = "policies"
  /\ pass' = [pass EXCEPT !.pc = "evaluate", !.policy = policy]
  /\ UNCHANGED <<judged, results, request, counts>>

EvaluateMonitorSLAWindow ==
  /\ pass.pc = "evaluate"
  /\ pass' = [pass EXCEPT !.pc = "upsert",
                          !.target = 0,
                          !.eval = Evaluate(Kind, pass.day, pass.target, pass.policy.min)]
  /\ UNCHANGED <<judged, results, request, counts>>

\* Fault injected: the row of the period is written anew, flag and all.
UpsertedAnew(row, eval) == [eval |-> eval, created |-> FALSE]
\* Fault injected: a row that is there keeps its target.
UpsertedPartly(row, eval) ==
  [row EXCEPT !.eval = [eval EXCEPT !.target = IF row = NoRow THEN @ ELSE row.eval.target]]
\* UpsertSLAPeriodResult leaves the flag of a row that is there.
Upserted(row, eval) == [row EXCEPT !.eval = eval]

\* Fault injected: an incident is created with the row or never.
NeedsIncidentAtOnce(row) ==
  /\ rows[Period] = NoRow /\ pass.policy.on /\ pass.policy.period = Kind
  /\ row.eval.status = "violated"
\* createSLAIncidentIfNeeded, by the policy as read.
NeedsIncident(row) ==
  ~row.created /\ pass.policy.on /\ pass.policy.period = Kind /\ row.eval.status = "violated"

UpsertSLAPeriodResult ==
  LET row == Upserted(rows[Period], pass.eval) IN
  /\ pass.pc = "upsert"
  /\ rows' = [rows EXCEPT ![Period] = row]
  /\ pass' = IF NeedsIncident(row)
              THEN [Away EXCEPT !.pc = "incident", !.day = pass.day, !.left = pass.left]
              ELSE Onward
  /\ UNCHANGED <<judged, opened, unmarked, request, counts>>

CreateIncident ==
  /\ pass.pc = "incident"
  /\ opened' = [opened EXCEPT ![Period] = @ + 1]
  /\ pass' = [Away EXCEPT !.pc = "mark", !.day = pass.day, !.left = pass.left]
  /\ UNCHANGED <<judged, rows, unmarked, request, counts>>

\* Fault injected: the row is marked for an incident that could not be created.
FailsMarked ==
  /\ pass.pc # "idle"
  /\ Fails
  /\ rows' = IF pass.pc = "incident" THEN [rows EXCEPT ![Period].created = TRUE] ELSE rows
  /\ pass' = Onward
  /\ unmarked' = (unmarked \/ pass.pc = "mark")
  /\ UNCHANGED <<judged, opened, request>>

MarkSLAPeriodIncidentCreated ==
  /\ pass.pc = "mark"
  /\ rows' = [rows EXCEPT ![Period].created = TRUE]
  /\ pass' = Onward
  /\ UNCHANGED <<judged, opened, unmarked, request, counts>>

\* A statement fails and the next period is judged, or the process ends.
PassFails ==
  /\ pass.pc # "idle"
  /\ Fails
  /\ pass' \in {Onward, Away}
  /\ unmarked' = (unmarked \/ pass.pc = "mark")
  /\ UNCHANGED <<judged, rows, opened, request>>

-----------------------------------------------------------------------------
PassStep ==
  \/ Begin \/ ListMonitors \/ ListMonitorSLAPolicies \/ EvaluateMonitorSLAWindow
  \/ UpsertSLAPeriodResult \/ CreateIncident \/ MarkSLAPeriodIncidentCreated

SlaNext ==
  \/ NextDay \/ DeleteMetricsBefore
  \/ \E d \in Days, measure \in Measures \ {"none"} : AddMetric(d, measure)
  \/ \E d \in Maintained : ChangeWindows(d)
  \/ \E new \in Policies : UpdateMonitorSLAPolicy(new)
  \/ \E t \in Targets : ChangeDefaultTarget(t) \/ UpdateMonitor(t)
  \/ ReadPolicy \/ SyncSLAPeriodTarget \/ SyncFails
  \/ PassStep \/ PassFails

SlaSpec == SlaInit /\ [][SlaNext]_slaVars

\* The loop goes on, and its statements do not fail for ever: failures are
\* bounded.
SlaFairSpec == SlaSpec /\ WF_slaVars(PassStep)

-----------------------------------------------------------------------------
\* A closed period is judged again every minute, its status may change, its policy may be
\* switched off and on and its row rewritten by a new target: it has one incident all the
\* same, unless the row could not be marked.
OneIncidentEach == ~unmarked => \A p \in Periods : opened[p] <= 1

\* Once nothing changes any more, the rows of the last closed periods come to say what the
\* metrics, the maintenance, the target and the policy of now say, whichever of them a pass
\* or a request that wrote later had read before.
RowsSettle ==
  <>[][UNCHANGED judged]_slaVars =>
    <>[](\A k \in KindNames :
           rows[Last(k, today)].eval = Evaluate(k, today, target, policy.min))

\* A violation, in a period for which the policy asks for an incident, does not stand for
\* ever without one, though creating it may have failed before.
ViolationsReported ==
  []<>(LET p == Last(policy.period, today) IN
       policy.on /\ rows[p].eval.status = "violated" => opened[p] > 0)

\* docs/eng/api.md: "Closed periods (`day/week/month`) are calculated by background evaluator
\* jobs, not by the UI save action."
EvaluatorJudges == [][rows' # rows => pass.pc \in {"upsert", "mark"} /\ request' = request]_slaVars

\* Where nobody changes anything, a violation of a closed period is not taken back because
\* its metrics have expired.
ViolationsStand ==
  [][\A p \in Periods :
       rows[p].eval.status = "violated" /\ changes = 0 => rows'[p].eval.status # "unknown"]_slaVars
==============================================================================
