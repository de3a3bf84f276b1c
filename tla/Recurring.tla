------------------------------ MODULE Recurring ------------------------------
(***************************************************************************)
(* A recurring rule: the schedulers that make a task for every time its    *)
(* schedule names, and the requests that toggle it or run it now (tasks,   *)
(* tasks/store, tasks/http).                                               *)
(*                                                                         *)
(* A scheduler reads the due rule, inserts the instance and the task in    *)
(* one transaction, and then writes next_run_at, computed from what it     *)
(* read; each can fail, and another scheduler or a request can come        *)
(* between.  UNIQUE(rule_id, scheduled_for) keeps an instance from being   *)
(* inserted twice.                                                         *)
(*                                                                         *)
(* Time is counted in half days: 2d is the rule's time_of_day on day d,    *)
(* 2d + 1 stands for the time until the next.  Day 0 is the first of       *)
(* January.  Who may see or change a rule, and what its tasks look like,   *)
(* are left out.                                                           *)
(***************************************************************************)
EXTENDS Integers, FiniteSets

CONSTANTS Schedulers,   \* processes with a scheduler
          Schedules,    \* schedule_type and schedule_config
          Choices,      \* bound: the schedules that one rule may have in turn
          Years,        \* of the calendar
          FirstDay,     \* on which each month begins, and at last the one after the calendar
          FirstWeekday, \* of day 0, Sunday is 0
          Starts,       \* when the rule may be created
          Ends,         \* bound: where time stops
          MaxHand       \* bound: runs by hand

Months == 1 .. 12 * Years
Lengths == [m \in Months |-> FirstDay[m + 1] - FirstDay[m]]

\* NormalizeScheduleConfig; quarterly, semiannual and annual rules have an interval.
Legal == [type : {"daily"}]
  \union [type : {"weekly"}, weekdays : (SUBSET (0 .. 6)) \ {{}}]
  \union [type : {"monthly"}, day : 1 .. 31]
  \union [type : {"interval"}, month : 1 .. 12, day : 1 .. 31, months : {3, 6, 12}]

ASSUME SchedulesAssumption == Schedules \subseteq Legal
ASSUME ChoicesAssumption == Choices \subseteq SUBSET Schedules
ASSUME CalendarAssumption == /\ Years \in Nat
                             /\ FirstDay \in [1 .. 12 * Years + 1 -> Nat]
                             /\ FirstDay[1] = 0
                             /\ \A m \in Months : Lengths[m] \in 28 .. 31
                             /\ FirstWeekday \in 0 .. 6
\* Of the times that are reached, the calendar has two years more.
ASSUME TimesAssumption == /\ Starts \subseteq Nat /\ Ends \subseteq Nat
                          /\ \A s \in Starts : \E e \in Ends : s <= e
                          /\ \A e \in Ends : /\ Years > 2
                                            /\ e < 2 * FirstDay[12 * (Years - 2) + 1]
ASSUME BoundAssumption == MaxHand \in Nat

VARIABLES now,
          rule,       \* the row: schedule, is_active, next_run_at
          template,   \* whether the template of its tasks is active
          instances,  \* task_recurring_instances: scheduled_for
          tasks,      \* how many tasks have been made
          hands,      \* how many runs by hand
          since,      \* history: what was due until then was given up
          run         \* what each scheduler, and a request, is doing

vars == <<now, rule, template, instances, tasks, hands, since, run>>

-----------------------------------------------------------------------------
(***************************************************************************)
(* ComputeNextRunAt.                                                       *)
(***************************************************************************)
Day(t) == t \div 2
LastDay == FirstDay[12 * Years + 1] - 1
Days == 0 .. LastDay
MonthOf == [d \in Days |-> CHOOSE m \in Months : FirstDay[m] <= d /\ d < FirstDay[m + 1]]
Weekday(d) == (d + FirstWeekday) % 7
Never == -1

ClampDay(m, day) == IF day > Lengths[m] THEN Lengths[m] ELSE day
Date(m, day) == FirstDay[m] + ClampDay(m, day) - 1

\* Fault injected: the date that time.AddDate gives is taken as it is.
AddMonthsDrift(d, months, day) ==
  LET m == MonthOf[d] + months
      dayOfMonth == d - FirstDay[MonthOf[d]] + 1 IN
  IF dayOfMonth > Lengths[m] THEN Date(m + 1, dayOfMonth - Lengths[m]) ELSE Date(m, dayOfMonth)
\* time.AddDate turns a day that the month does not have into one of the month after.
AddMonths(d, months, day) ==
  LET m == MonthOf[d] + months
      dayOfMonth == d - FirstDay[MonthOf[d]] + 1 IN
  Date(IF dayOfMonth > Lengths[m] THEN m + 1 ELSE m, day)

NextDaily(base) == IF 2 * Day(base) > base THEN 2 * Day(base) ELSE 2 * Day(base) + 2

\* Today and the six days after.
NextWeekly(base, weekdays) ==
  LET found == {d \in Day(base) .. Day(base) + 6 : Weekday(d) \in weekdays /\ 2 * d > base} IN
  IF found = {} THEN Never ELSE 2 * (CHOOSE d \in found : \A other \in found : d <= other)

NextMonthly(base, day) ==
  LET candidate == Date(MonthOf[Day(base)], day) IN
  2 * (IF 2 * candidate > base THEN candidate ELSE AddMonths(candidate, 1, day))

\* Every three, six or twelve months, from the month given of the base's year: within a
\* year there are four at most.
January(base) == MonthOf[Day(base)] - ((MonthOf[Day(base)] - 1) % 12)
After(base, d, months, day) == IF 2 * d > base THEN d ELSE AddMonths(d, months, day)
NextByInterval(base, month, day, months) ==
  LET first == Date(January(base) + month - 1, day)
      second == After(base, first, months, day)
      third == After(base, second, months, day)
      fourth == After(base, third, months, day) IN
  2 * After(base, fourth, months, day)

NextRunAt(s, base) ==
  CASE s.type = "daily" -> NextDaily(base)
    [] s.type = "weekly" -> NextWeekly(base, s.weekdays)
    [] s.type = "monthly" -> NextMonthly(base, s.day)
    [] s.type = "interval" -> NextByInterval(base, s.month, s.day, s.months)

-----------------------------------------------------------------------------
Times == -1 .. 2 * LastDay + 1
Rows == [schedule : Schedules, active : BOOLEAN, next : Times]
Run(pc, at, next, made, schedule) ==
  [pc |-> pc, at |-> at, next |-> next, made |-> made, schedule |-> schedule]
IdleRun == Run("idle", Never, Never, FALSE, [type |-> "none"])
Runs == [pc : {"create", "update"}, at : Times, next : Times, made : BOOLEAN,
         schedule : Schedules] \union {IdleRun}

TypeOK ==
  /\ now \in Nat
  /\ rule \in Rows /\ (rule.active => rule.next # Never)
  /\ template \in BOOLEAN
  /\ instances \subseteq Times
  /\ tasks \in Nat
  /\ hands \in 0 .. MaxHand
  /\ since \in Times
  /\ run \in [Schedulers \union {"request"} -> Runs]

\* CreateRecurringRule.
Init ==
  /\ now \in Starts
  /\ rule \in {[schedule |-> s, active |-> TRUE, next |-> NextRunAt(s, now)] : s \in Schedules}
  /\ rule.next # Never
  /\ template = TRUE
  /\ instances = {} /\ tasks = 0 /\ hands = 0
  /\ since = now
  /\ run = [p \in Schedulers \union {"request"} |-> IdleRun]

Tick == /\ now \notin Ends /\ now' = now + 1
        /\ UNCHANGED <<rule, template, instances, tasks, hands, since, run>>

SetTemplate == /\ template' = ~template
               /\ UNCHANGED <<now, rule, instances, tasks, hands, since, run>>

Later(a, b) == IF a > b THEN a ELSE b

\* ListDueRecurringRules; a rule of which no next run can be computed is left alone, an
\* occurrence of an inactive template is passed over.
ListDue(p) ==
  LET next == NextRunAt(rule.schedule, rule.next) IN
  /\ run[p].pc = "idle" /\ p \in Schedulers
  /\ rule.active /\ rule.next # Never /\ rule.next <= now
  /\ next # Never
  /\ run' = [run EXCEPT ![p] = Run(IF template THEN "create" ELSE "update",
                                   rule.next, next, template, rule.schedule)]
  /\ UNCHANGED <<now, rule, template, instances, tasks, hands, since>>

\* Fault injected: whether there is an instance is not asked.
InsertAlways(t) == instances' = instances \union {t} /\ tasks' = tasks + 1
\* Fault injected: an instance that is there is an error.
InsertOrFail(t) == t \notin instances /\ InsertAlways(t)
\* CreateRecurringInstanceTask, one transaction.
InsertInstance(t) ==
  IF t \in instances THEN UNCHANGED <<instances, tasks>>
  ELSE instances' = instances \union {t} /\ tasks' = tasks + 1

CreateInstance(p) ==
  /\ run[p].pc = "create"
  /\ InsertInstance(run[p].at)
  /\ run' = [run EXCEPT ![p].pc = "update"]
  /\ UNCHANGED <<now, rule, template, hands, since>>

\* UpdateRecurringRuleRun, whatever has become of the rule.
UpdateRun(p) ==
  /\ run[p].pc = "update"
  /\ IF run[p].next = Never THEN UNCHANGED <<rule, since>>
     ELSE /\ rule' = [rule EXCEPT !.next = run[p].next]
          /\ since' = IF run[p].schedule # rule.schedule THEN Later(since, run[p].next)
                      ELSE IF run[p].made THEN since ELSE Later(since, run[p].at)
  /\ run' = [run EXCEPT ![p] = IdleRun]
  /\ UNCHANGED <<now, template, instances, tasks, hands>>

\* RunRecurringRuleNow, of an active or inactive rule; what was due before it is given up.
RunNow ==
  /\ run["request"].pc = "idle" /\ hands < MaxHand
  /\ template
  /\ hands' = hands + 1
  /\ run' = [run EXCEPT !["request"] = Run("create", now, NextRunAt(rule.schedule, now), FALSE,
                                           rule.schedule)]
  /\ UNCHANGED <<now, rule, template, instances, tasks, since>>

\* Fault injected: next_run_at follows the flag that was there before.
EditFlagLast(s, on) ==
  /\ rule' = [schedule |-> s, active |-> on,
              next |-> IF rule.active THEN NextRunAt(s, now) ELSE Never]
  /\ since' = now
  /\ UNCHANGED <<now, template, instances, tasks, hands, run>>
\* ToggleRecurringRule and UpdateRecurringRule: the next run is counted from now.
Edit(s, on) ==
  /\ on => NextRunAt(s, now) # Never
  /\ rule' = [schedule |-> s, active |-> on,
              next |-> IF on THEN NextRunAt(s, now) ELSE Never]
  /\ since' = now
  /\ UNCHANGED <<now, template, instances, tasks, hands, run>>

\* Fault injected: the rule moves on though its task could not be made.
FailsOn(p) ==
  /\ run[p].pc # "idle"
  /\ run' = [run EXCEPT ![p] = IF @.pc = "create" THEN [@ EXCEPT !.pc = "update"] ELSE IdleRun]
  /\ UNCHANGED <<now, rule, template, instances, tasks, hands, since>>
\* A statement fails, or the process ends.
Fails(p) ==
  /\ run[p].pc # "idle"
  /\ run' = [run EXCEPT ![p] = IdleRun]
  /\ UNCHANGED <<now, rule, template, instances, tasks, hands, since>>

Step(p) == CreateInstance(p) \/ UpdateRun(p) \/ Fails(p)

Next ==
  \/ Tick \/ SetTemplate \/ RunNow
  \/ \E choice \in Choices : /\ rule.schedule \in choice
                             /\ \E s \in choice, on \in BOOLEAN : Edit(s, on)
  \/ \E p \in Schedulers : ListDue(p)
  \/ \E p \in Schedulers \union {"request"} : Step(p)

Spec == Init /\ [][Next]_vars

\* A scheduler goes on as long as its process runs, and what it tries again and again
\* succeeds at some time.
FairSpec == /\ Spec
            /\ \A p \in Schedulers : /\ WF_vars(ListDue(p))
                                     /\ SF_vars(CreateInstance(p))
                                     /\ SF_vars(UpdateRun(p))

-----------------------------------------------------------------------------
(***************************************************************************)
(* What the fields of a schedule mean: a day of the month that a month     *)
(* lacks is its last, and a rule of several months has every one that is   *)
(* so many months from the month given.                                    *)
(***************************************************************************)
InMonth(s, m) == s.type = "interval" => m % s.months = s.month % s.months
OnDay(s, d) ==
  CASE s.type = "daily" -> TRUE
    [] s.type = "weekly" -> Weekday(d) \in s.weekdays
    [] s.type \in {"monthly", "interval"} -> d = Date(MonthOf[d], s.day)
Named(s, d) == InMonth(s, MonthOf[d]) /\ OnDay(s, d)

\* A month of the schedule lacks its day, so that AddMonths may go a month too far.
Overflows(s) == /\ s.type \in {"monthly", "interval"}
                /\ \E m \in Months : InMonth(s, m) /\ s.day > Lengths[m]

\* A day of the base's year, before the month from which its intervals are counted.
BeforeCount(s, base, d) == s.type = "interval" /\ MonthOf[d] < January(base) + s.month - 1

\* The days between a time and the next run computed from it, though the schedule names them.
PassedOver(s, base) == {d \in Day(base + 2) .. Day(NextRunAt(s, base) - 1) : Named(s, d)}

\* For every schedule that NormalizeScheduleConfig lets in, the next run is later than the
\* base, on the schedule's day of the week or month and, where each of its months has that
\* day, in one of its months; and of the days that the schedule names none is passed over
\* but those before the month given of the base's year and, where some month lacks the day,
\* one more (of a monthly rule, that of such a month).  There is no next run only for a
\* weekly rule of one weekday, on that day.
NextIsFirst ==
  LET s == rule.schedule
      next == NextRunAt(s, now)
      passed == {d \in PassedOver(s, now) : ~BeforeCount(s, now, d)} IN
  IF next = Never THEN s.type = "weekly" /\ s.weekdays = {Weekday(Day(now))}
  ELSE /\ next > now /\ next % 2 = 0 /\ OnDay(s, Day(next))
       /\ Overflows(s) \/ (InMonth(s, MonthOf[Day(next)]) /\ passed = {})
       /\ \A d, e \in passed : d = e
       /\ s.type = "monthly" => \A d \in passed : s.day > Lengths[MonthOf[d]]

\* An occurrence has one task, though two schedulers list it, a request runs the rule at the
\* same time, or what was done is tried again after a failure.
OneTaskEach == tasks = Cardinality(instances)

\* Of the times that the schedule names, none before next_run_at is left out since the rule
\* was edited or run by hand, its template was inactive, or a next_run_at of an earlier
\* schedule was written, but what ComputeNextRunAt passes over itself, from one of those times
\* or from an occurrence that was made: a scheduler that is late writes a next_run_at that is
\* too early, never one too late.
NoneSkipped ==
  rule.active =>
    \A d \in Day(since + 2) .. Day(rule.next - 1) :
      Named(rule.schedule, d) =>
        \/ 2 * d \in instances
        \/ \E t \in instances : d \in PassedOver(rule.schedule, t)
        \/ \E earlier \in 0 .. since : d \in PassedOver(rule.schedule, since - earlier)

\* A rule that stays active catches up with the time, through failures and late writes; except
\* on one weekday only, where no next run can be computed from its own occurrence.
OneWeekday(s) == s.type = "weekly" /\ Cardinality(s.weekdays) = 1
CatchesUp == <>[](rule.active /\ ~OneWeekday(rule.schedule)) => []<>(rule.next > now)
=============================================================================
