------------------------------ MODULE CheckSlots ------------------------------
(***************************************************************************)
(* The slots of the monitoring engine of one process (core/monitoring,     *)
(* engine.go): which monitors are being checked, how many at once, and the *)
(* loop that starts the checks that are due.                               *)
(*                                                                         *)
(* A check holds two things: its monitor in the map inFlight, guarded by   *)
(* Engine.mu, and a token in the channel Engine.sem, which the loop        *)
(* replaces when the setting max_concurrent_checks changes.  An action is  *)
(* one critical section of Engine.mu or one operation on a channel.        *)
(*                                                                         *)
(* Abstractions.  A channel is the number of its tokens, and channels are  *)
(* numbered in the order they are made.  The checks of one tick are any    *)
(* subset of the monitors, in any order, cut off anywhere: the schedule,   *)
(* the jitter and the retry budget decide which.  What a check does with   *)
(* its monitor is the module MonitorState.                                 *)
(***************************************************************************)
EXTENDS Integers, FiniteSets

CONSTANTS Monitors,
          NoMonitor,    \* the monitor of a check that is over
          Checks,       \* checks and slots being taken or given back, at most
          Loops,        \* loops that can exist at the same time
          Caller,       \* the caller of CheckNow, as opposed to a loop
          Limits,       \* the values of the setting max_concurrent_checks
          MaxChannels   \* bound: channels made

ASSUME MonitorsAssumption == NoMonitor \notin Monitors
ASSUME CallerAssumption == Caller \notin Loops
ASSUME LimitsAssumption == Limits \subseteq Int
ASSUME ChannelsAssumption == MaxChannels \in Nat
ASSUME ChecksAssumption == IsFiniteSet(Checks)

Channels == 1 .. MaxChannels

VARIABLES inFlight,  \* Engine.inFlight
          sem,       \* the channel Engine.sem, 0 for nil
          cap,       \* the capacity of each channel
          tokens,    \* the tokens in each channel
          running,   \* Engine.running
          cancel,    \* the loops that Engine.cancel ends, {} for nil
          stop,      \* where a StopWithContext is
          loop,      \* the loops
          check      \* the checks

slotVars == <<inFlight, sem, cap, tokens, check>>
engineVars == <<running, cancel, stop, loop>>
vars == <<inFlight, sem, cap, tokens, running, cancel, stop, loop, check>>

LoopRecord == [pc : {"none", "wait", "due"}, live : BOOLEAN, due : SUBSET Monitors]
NoLoop == [pc |-> "none", live |-> FALSE, due |-> {}]

\* sem is the channel read under the mutex, took the one that has the check's token.
CheckRecord == [pc : {"idle", "send", "refused", "run", "drain"},
                mon : Monitors \cup {NoMonitor}, by : Loops \cup {Caller},
                sem : 0 .. MaxChannels, took : 0 .. MaxChannels]

Idle == [pc |-> "idle", mon |-> NoMonitor, by |-> Caller, sem |-> 0, took |-> 0]

TypeOK ==
  /\ inFlight \in SUBSET Monitors
  /\ sem \in 0 .. MaxChannels
  /\ cap \in [Channels -> Nat]
  /\ tokens \in [Channels -> Nat]
  /\ running \in BOOLEAN
  /\ cancel \in SUBSET Loops
  /\ stop \in {"idle", "wait"}
  /\ loop \in [Loops -> LoopRecord]
  /\ check \in [Checks -> CheckRecord]

Init ==
  /\ inFlight = {}
  /\ sem = 0
  /\ cap = [s \in Channels |-> 0]
  /\ tokens = [s \in Channels |-> 0]
  /\ running = FALSE
  /\ cancel = {}
  /\ stop = "idle"
  /\ loop = [l \in Loops |-> NoLoop]
  /\ check = [c \in Checks |-> Idle]

-----------------------------------------------------------------------------
(***************************************************************************)
(* acquireSlot and releaseSlot.                                            *)
(***************************************************************************)
\* A name for a new check or loop: which one does not matter.
AnyOf(S) == CHOOSE x \in S : TRUE
IdleChecks == {c \in Checks : check[c].pc = "idle"}

Ends(c) == check' = [check EXCEPT ![c] = Idle]

\* Fault injected: the map is not looked at.
MarkAlways(m, who) ==
  /\ inFlight' = inFlight \cup {m}
  /\ IdleChecks # {}
  /\ check' = [check EXCEPT ![AnyOf(IdleChecks)] =
                 [pc |-> IF sem = 0 THEN "run" ELSE "send", mon |-> m, by |-> who,
                  sem |-> sem, took |-> 0]]

\* The first critical section of acquireSlot: without a channel there is no limit.
Mark(m, who) ==
  /\ m \notin inFlight
  /\ inFlight' = inFlight \cup {m}
  /\ IdleChecks # {}
  /\ check' = [check EXCEPT ![AnyOf(IdleChecks)] =
                 [pc |-> IF sem = 0 THEN "run" ELSE "send", mon |-> m, by |-> who,
                  sem |-> sem, took |-> 0]]

\* The token is sent to the channel that was read, though it may have been replaced.
Send(c) ==
  LET s == check[c].sem IN
  /\ check[c].pc = "send"
  /\ IF tokens[s] < cap[s]
     THEN /\ tokens' = [tokens EXCEPT ![s] = @ + 1]
          /\ check' = [check EXCEPT ![c].pc = "run", ![c].took = s]
     ELSE check' = [check EXCEPT ![c].pc = "refused"] /\ UNCHANGED tokens
  /\ UNCHANGED <<inFlight, sem, cap, engineVars>>

\* Fault injected: a check refused by the channel leaves its monitor in the map.
UnmarkOmitted(c) ==
  /\ check[c].pc = "refused"
  /\ Ends(c)
  /\ UNCHANGED <<inFlight, sem, cap, tokens, engineVars>>

\* The channel was full: the monitor leaves the map.
Unmark(c) ==
  /\ check[c].pc = "refused"
  /\ inFlight' = inFlight \ {check[c].mon}
  /\ Ends(c)
  /\ UNCHANGED <<sem, cap, tokens, engineVars>>

\* Fault injected: the monitor leaves the map and the token stays in the channel.
ReleaseMarkOnly(c) ==
  /\ check[c].pc = "run"
  /\ inFlight' = inFlight \ {check[c].mon}
  /\ Ends(c)
  /\ UNCHANGED <<sem, cap, tokens, engineVars>>

\* runCheck has returned; releaseSlot reads the channel that is current by now.
Release(c) ==
  /\ check[c].pc = "run"
  /\ inFlight' = inFlight \ {check[c].mon}
  /\ IF sem = 0 THEN Ends(c)
                ELSE check' = [check EXCEPT ![c].pc = "drain", ![c].sem = sem]
  /\ UNCHANGED <<sem, cap, tokens, engineVars>>

\* A token leaves that channel if there is one, whoever sent it.
Drain(c) ==
  LET s == check[c].sem IN
  /\ check[c].pc = "drain"
  /\ tokens' = IF tokens[s] > 0 THEN [tokens EXCEPT ![s] = @ - 1] ELSE tokens
  /\ Ends(c)
  /\ UNCHANGED <<inFlight, sem, cap, engineVars>>

CheckStep(c) == Send(c) \/ Unmark(c) \/ Release(c) \/ Drain(c)

\* CheckNow, from a request; a monitor in flight is answered "busy".
CheckNow(m) == Mark(m, Caller) /\ UNCHANGED <<sem, cap, tokens, engineVars>>

-----------------------------------------------------------------------------
(***************************************************************************)
(* The loop.                                                               *)
(***************************************************************************)
\* ensureSemaphore: another size, another channel.
EnsureSemaphore(max) ==
  LET size == IF max <= 0 THEN 1 ELSE max IN
  IF sem # 0 /\ cap[sem] = size
  THEN UNCHANGED <<sem, cap>>
  ELSE /\ sem < MaxChannels
       /\ sem' = sem + 1
       /\ cap' = [cap EXCEPT ![sem + 1] = size]

\* A tick: the settings and the list of due monitors, which a loop whose context has
\* ended cannot read.
Tick(l) ==
  /\ loop[l].pc = "wait"
  /\ \E max \in Limits : EnsureSemaphore(max)
  /\ \E due \in SUBSET Monitors :
       /\ ~loop[l].live => due = {}
       /\ loop' = [loop EXCEPT ![l].pc = "due", ![l].due = due]
  /\ UNCHANGED <<inFlight, tokens, running, cancel, stop, check>>

\* The loop is in acquireSlot itself.
Acquiring(l) == \E c \in Checks : check[c].by = l /\ check[c].pc \in {"send", "refused"}

StartDue(l) ==
  /\ loop[l].pc = "due"
  /\ ~Acquiring(l)
  /\ \E m \in loop[l].due :
       /\ loop' = [loop EXCEPT ![l].due = @ \ {m}]
       /\ IF m \in inFlight
          THEN UNCHANGED <<inFlight, check>>
          ELSE Mark(m, l)
  /\ UNCHANGED <<sem, cap, tokens, running, cancel, stop>>

\* The end of the tick; the monitors left are not eligible yet or over the budget.
EndTick(l) ==
  /\ loop[l].pc = "due"
  /\ ~Acquiring(l)
  /\ loop' = [loop EXCEPT ![l].pc = "wait", ![l].due = {}]
  /\ UNCHANGED <<slotVars, running, cancel, stop>>

\* Fault injected: the end of the context is looked at only once the engine has stopped.
LeaveLoopStopped(l) ==
  /\ loop[l].pc = "wait"
  /\ ~loop[l].live
  /\ ~running
  /\ loop' = [loop EXCEPT ![l] = NoLoop]
  /\ UNCHANGED <<slotVars, running, cancel, stop>>

LeaveLoop(l) ==
  /\ loop[l].pc = "wait"
  /\ ~loop[l].live
  /\ loop' = [loop EXCEPT ![l] = NoLoop]
  /\ UNCHANGED <<slotVars, running, cancel, stop>>

-----------------------------------------------------------------------------
(***************************************************************************)
(* StartWithContext and StopWithContext.                                   *)
(***************************************************************************)
StartWithContext ==
  /\ ~running
  /\ running' = TRUE
  /\ \E l \in Loops : loop[l].pc = "none"
  /\ LET l == AnyOf({k \in Loops : loop[k].pc = "none"}) IN
       /\ cancel' = {l}
       /\ loop' = [loop EXCEPT ![l] = [pc |-> "wait", live |-> TRUE, due |-> {}]]
  /\ UNCHANGED <<slotVars, stop>>

EndLoops == loop' = [l \in Loops |-> IF l \in cancel THEN [loop[l] EXCEPT !.live = FALSE]
                                     ELSE loop[l]]

\* The context that StartWithContext was given ends (StopBackground ends it first).
EndContext ==
  /\ EndLoops
  /\ UNCHANGED <<slotVars, running, cancel, stop>>

StopWithContext ==
  /\ running
  /\ cancel # {}
  /\ stop' = "wait"
  /\ cancel' = {}
  /\ EndLoops
  /\ UNCHANGED <<slotVars, running>>

\* wg.Wait has returned and the engine counts as stopped; until it does, a start returns
\* early.  The group counts the loop: its checks are not waited for.
StopDone ==
  /\ stop = "wait"
  /\ \A l \in Loops : loop[l].pc = "none"
  /\ running' = FALSE
  /\ stop' = "idle"
  /\ UNCHANGED <<slotVars, cancel, loop>>

\* Fault injected: the engine counts as stopped though its loop is still there.
StopTimeoutStopped ==
  /\ stop = "wait"
  /\ running' = FALSE
  /\ stop' = "idle"
  /\ UNCHANGED <<slotVars, cancel, loop>>

\* The caller's time is over first: the engine stays running, without a cancel function.
StopTimeout ==
  /\ stop = "wait"
  /\ stop' = "idle"
  /\ UNCHANGED <<slotVars, running, cancel, loop>>

StopStep == StopDone \/ StopTimeout

Next ==
  \/ \E c \in Checks : CheckStep(c)
  \/ \E m \in Monitors : CheckNow(m)
  \/ \E l \in Loops : Tick(l) \/ StartDue(l) \/ EndTick(l) \/ LeaveLoop(l)
  \/ StartWithContext \/ EndContext \/ StopWithContext \/ StopStep

Spec == Init /\ [][Next]_vars

\* A check ends (its attempt and its statements have time limits), the loop goes on with
\* its tick, and select, which picks at random, does not miss an ended context for ever.
FairSpec == /\ Spec
            /\ \A c \in Checks : WF_vars(CheckStep(c))
            /\ \A l \in Loops : WF_vars(EndTick(l)) /\ SF_vars(LeaveLoop(l))

-----------------------------------------------------------------------------
Marked(c) == check[c].pc \in {"send", "refused", "run"}

\* A monitor is checked once at a time, whether its schedule or a request started the
\* check and whatever happened to the channel: updateState may read, decide and write.
OneCheckPerMonitor ==
  \A c, d \in Checks : Marked(c) /\ Marked(d) /\ check[c].mon = check[d].mon => c = d

\* inFlight is exactly the monitors with a check: none is "busy" for ever.
SlotsMatchChecks == inFlight = {check[c].mon : c \in {d \in Checks : Marked(d)}}

\* The checks that still have to give back a token of channel s.
Holders(s) == {c \in Checks : check[c].took = s /\ check[c].pc \in {"run", "drain"}}

\* Every token of the current channel belongs to a check that is not over: a check
\* that outlives a channel, or began without one, never costs capacity.
TokensOwned == sem # 0 => tokens[sem] <= Cardinality(Holders(sem))

\* There is one loop at most, and none once the engine counts as stopped, though
\* StopWithContext may give up waiting and the context may end without it.
OneLoop ==
  /\ \A k, l \in Loops : loop[k].pc # "none" /\ loop[l].pc # "none" => k = l
  /\ ~running => \A l \in Loops : loop[l].pc = "none"

\* A monitor that is in flight is free again at some time.
SlotFrees == \A m \in Monitors : m \in inFlight ~> m \notin inFlight

\* A loop whose context has ended leaves, in the middle of a tick too.
LoopEnds == \A l \in Loops : loop[l].pc # "none" /\ ~loop[l].live ~> loop[l].pc = "none"

\* api/metrics_monitoring.go: "Current max concurrent checks limit used by monitoring
\* engine."  When every running check has its token from the current channel, they are
\* no more than its limit.
LimitRespected ==
  LET active == {c \in Checks : check[c].pc = "run"} IN
  sem # 0 /\ (\A c \in active : check[c].took = sem) => Cardinality(active) <= cap[sem]
=============================================================================
