----------------------------- MODULE EngineProofs -----------------------------
(***************************************************************************)
(* Proofs about the monitoring engine: CheckSlots for any monitors,        *)
(* checks, loops and limits, and SlaPeriods for any calendar, targets,     *)
(* policies and measurements.                                              *)
(*                                                                         *)
(* CheckSlots: TypeOK, the marks (OneCheckPerMonitor and SlotsMatchChecks  *)
(* together) and OneLoop are inductive one after the other.  TokensOwned   *)
(* needs TokenShape: the channels a check has read or sent to were made    *)
(* before the current one, so a check that took from the current channel   *)
(* gives back to it, and a new channel is empty.                           *)
(*                                                                         *)
(* SlaPeriods: types need what a pass holds at each of its statements      *)
(* (PassHolds); one incident for each period needs that the row of the     *)
(* pass is still without one when the pass comes to open it, and that only *)
(* a pass on its way to mark the row leaves an incident unmarked           *)
(* (SlaIncidentInv).                                                       *)
(***************************************************************************)
EXTENDS CheckSlots, SlaPeriods, FiniteSetTheorems, WellFoundedInduction, TLAPS

MarkInv == OneCheckPerMonitor /\ SlotsMatchChecks

TokenShape ==
  /\ \A s \in Channels : s > sem => tokens[s] = 0
  /\ \A c \in Checks : /\ check[c].sem <= sem
                       /\ check[c].took <= sem
                       /\ check[c].pc = "drain" => check[c].took <= check[c].sem
                       /\ check[c].pc = "send" => check[c].sem > 0

TokenInv == TypeOK /\ TokenShape /\ TokensOwned

-----------------------------------------------------------------------------
(***************************************************************************)
(* What the operators do.                                                  *)
(***************************************************************************)
LEMMA AnyOfIsOne ==
  ASSUME NEW S, S # {}
  PROVE  AnyOf(S) \in S
BY DEF AnyOf

LEMMA IdleIsCheck == Idle \in CheckRecord
BY ChannelsAssumption DEF Idle, CheckRecord

\* The record that Mark stores.
Marking(m, who) == [pc |-> IF sem = 0 THEN "run" ELSE "send", mon |-> m, by |-> who,
                    sem |-> sem, took |-> 0]

LEMMA MarkTakesIdle ==
  ASSUME TypeOK, NEW m \in Monitors, NEW who \in Loops \cup {Caller}, Mark(m, who)
  PROVE  \E c \in Checks : /\ check[c].pc = "idle"
                           /\ m \notin inFlight
                           /\ inFlight' = inFlight \cup {m}
                           /\ Marking(m, who) \in CheckRecord
                           /\ check' = [check EXCEPT ![c] = Marking(m, who)]
<1>1. AnyOf(IdleChecks) \in IdleChecks
  BY AnyOfIsOne DEF Mark
<1>2. Marking(m, who) \in CheckRecord
  BY ChannelsAssumption DEF Marking, CheckRecord, TypeOK
<1> QED BY <1>1, <1>2 DEF Mark, IdleChecks, Marking

LEMMA EnsureSemaphoreType ==
  ASSUME TypeOK, NEW max \in Limits, EnsureSemaphore(max)
  PROVE  /\ sem' \in 0 .. MaxChannels
         /\ cap' \in [Channels -> Nat]
         /\ sem' \in {sem, sem + 1}
<1> DEFINE size == IF max <= 0 THEN 1 ELSE max
<1>1. size \in Nat
  BY LimitsAssumption
<1>2. CASE sem # 0 /\ cap[sem] = size
  BY <1>2 DEF EnsureSemaphore, TypeOK
<1>3. CASE ~(sem # 0 /\ cap[sem] = size)
  <2>1. sem < MaxChannels /\ sem' = sem + 1 /\ cap' = [cap EXCEPT ![sem + 1] = size]
    BY <1>3 DEF EnsureSemaphore
  <2> HIDE DEF size
  <2>2. sem + 1 \in 0 .. MaxChannels
    BY <2>1, ChannelsAssumption DEF TypeOK
  <2>3. cap' \in [Channels -> Nat]
    BY <1>1, <2>1 DEF TypeOK
  <2> QED BY <2>1, <2>2, <2>3
<1> QED BY <1>2, <1>3

-----------------------------------------------------------------------------
LEMMA InitType == Init => TypeOK
<1>1. NoLoop \in LoopRecord
  BY DEF NoLoop, LoopRecord
<1>2. 0 \in 0 .. MaxChannels
  BY ChannelsAssumption
<1>3. Init => loop \in [Loops -> LoopRecord] /\ check \in [Checks -> CheckRecord]
  BY <1>1, IdleIsCheck DEF Init
<1>4. Init => cap \in [Channels -> Nat] /\ tokens \in [Channels -> Nat]
  BY DEF Init
<1> QED BY <1>2, <1>3, <1>4 DEF Init, TypeOK

LEMMA CheckStepType ==
  ASSUME TypeOK, NEW c \in Checks, CheckStep(c)
  PROVE  TypeOK'
<1> USE IdleIsCheck
<1>0. check[c] \in CheckRecord
  BY DEF TypeOK
<1>1. CASE Send(c)
  <2>1. tokens' \in [Channels -> Nat]
    BY <1>1 DEF Send, TypeOK
  <2>2. [check[c] EXCEPT !.pc = "refused"] \in CheckRecord
        /\ [check[c] EXCEPT !.pc = "run", !.took = check[c].sem] \in CheckRecord
    BY <1>0 DEF CheckRecord
  <2>3. \/ check' = [check EXCEPT ![c] = [check[c] EXCEPT !.pc = "refused"]]
        \/ check' = [check EXCEPT ![c] = [check[c] EXCEPT !.pc = "run", !.took = check[c].sem]]
    BY <1>1 DEF Send
  <2>4. check' \in [Checks -> CheckRecord]
    BY <2>2, <2>3 DEF TypeOK
  <2> QED BY <1>1, <2>1, <2>4 DEF Send, engineVars, TypeOK
<1>2. CASE Unmark(c)
  BY <1>2 DEF Unmark, Ends, engineVars, TypeOK
<1>3. CASE Release(c)
  <2>1. [check[c] EXCEPT !.pc = "drain", !.sem = sem] \in CheckRecord
    BY <1>0 DEF CheckRecord, TypeOK
  <2>2. \/ check' = [check EXCEPT ![c] = Idle]
        \/ check' = [check EXCEPT ![c] = [check[c] EXCEPT !.pc = "drain", !.sem = sem]]
    BY <1>3 DEF Release, Ends
  <2>3. check' \in [Checks -> CheckRecord]
    BY <2>1, <2>2 DEF TypeOK
  <2> QED BY <1>3, <2>3 DEF Release, engineVars, TypeOK
<1>4. CASE Drain(c)
  <2>1. tokens' \in [Channels -> Nat]
    <3> DEFINE s == check[c].sem
    <3>1. CASE s \in Channels /\ tokens[s] > 0
      <4>1. tokens[s] - 1 \in Nat
        BY <3>1 DEF TypeOK
      <4> QED BY <1>4, <3>1, <4>1 DEF Drain, TypeOK
    <3>2. CASE s \notin Channels \/ ~(tokens[s] > 0)
      BY <1>4, <3>2 DEF Drain, TypeOK
    <3> QED BY <3>1, <3>2
  <2> QED BY <1>4, <2>1 DEF Drain, Ends, engineVars, TypeOK
<1> QED BY <1>1, <1>2, <1>3, <1>4 DEF CheckStep

LEMMA CheckNowType ==
  ASSUME TypeOK, NEW m \in Monitors, CheckNow(m)
  PROVE  TypeOK'
<1>1. PICK c \in Checks : /\ inFlight' = inFlight \cup {m}
                          /\ Marking(m, Caller) \in CheckRecord
                          /\ check' = [check EXCEPT ![c] = Marking(m, Caller)]
  BY MarkTakesIdle DEF CheckNow
<1> QED BY <1>1 DEF CheckNow, engineVars, TypeOK

LEMMA LoopStepType ==
  ASSUME TypeOK, NEW l \in Loops, Tick(l) \/ StartDue(l) \/ EndTick(l) \/ LeaveLoop(l)
  PROVE  TypeOK'
<1>0. loop[l] \in LoopRecord /\ NoLoop \in LoopRecord
  BY DEF TypeOK, NoLoop, LoopRecord
<1>1. CASE Tick(l)
  <2>1. PICK max \in Limits : EnsureSemaphore(max)
    BY <1>1 DEF Tick
  <2>2. PICK due \in SUBSET Monitors : loop' = [loop EXCEPT ![l].pc = "due", ![l].due = due]
    BY <1>1 DEF Tick
  <2>3. [loop[l] EXCEPT !.pc = "due", !.due = due] \in LoopRecord
    BY <1>0 DEF LoopRecord
  <2>4. loop' \in [Loops -> LoopRecord]
    BY <2>2, <2>3 DEF TypeOK
  <2> QED BY <1>1, <2>1, <2>4, EnsureSemaphoreType DEF Tick, TypeOK
<1>2. CASE StartDue(l)
  <2>1. PICK m \in loop[l].due :
          /\ loop' = [loop EXCEPT ![l].due = @ \ {m}]
          /\ IF m \in inFlight THEN UNCHANGED <<inFlight, check>> ELSE Mark(m, l)
    BY <1>2 DEF StartDue
  <2>2. m \in Monitors
    BY <1>0 DEF LoopRecord
  <2>3. [loop[l] EXCEPT !.due = @ \ {m}] \in LoopRecord
    BY <1>0 DEF LoopRecord
  <2>4. loop' \in [Loops -> LoopRecord]
    BY <2>1, <2>3 DEF TypeOK
  <2>5. inFlight' \in SUBSET Monitors /\ check' \in [Checks -> CheckRecord]
    <3>1. CASE m \in inFlight
      BY <2>1, <3>1 DEF TypeOK
    <3>2. CASE m \notin inFlight
      <4>1. PICK c \in Checks : /\ inFlight' = inFlight \cup {m}
                                /\ Marking(m, l) \in CheckRecord
                                /\ check' = [check EXCEPT ![c] = Marking(m, l)]
        BY <2>1, <2>2, <3>2, MarkTakesIdle
      <4> QED BY <2>2, <4>1 DEF TypeOK
    <3> QED BY <3>1, <3>2
  <2> QED BY <1>2, <2>4, <2>5 DEF StartDue, TypeOK
<1>3. CASE EndTick(l)
  <2>1. [loop[l] EXCEPT !.pc = "wait", !.due = {}] \in LoopRecord
    BY <1>0 DEF LoopRecord
  <2>2. loop' \in [Loops -> LoopRecord]
    BY <1>3, <2>1 DEF EndTick, TypeOK
  <2> QED BY <1>3, <2>2 DEF EndTick, slotVars, TypeOK
<1>4. CASE LeaveLoop(l)
  BY <1>0, <1>4 DEF LeaveLoop, slotVars, TypeOK
<1> QED BY <1>1, <1>2, <1>3, <1>4

LEMMA EngineStepType ==
  ASSUME TypeOK, StartWithContext \/ EndContext \/ StopWithContext \/ StopStep
  PROVE  TypeOK'
<1>0. EndLoops => loop' \in [Loops -> LoopRecord]
  <2>1. \A l \in Loops : [loop[l] EXCEPT !.live = FALSE] \in LoopRecord
    BY DEF TypeOK, LoopRecord
  <2> QED BY <2>1 DEF EndLoops, TypeOK
<1>1. CASE StartWithContext
  <2>1. AnyOf({k \in Loops : loop[k].pc = "none"}) \in Loops
    <3>1. {k \in Loops : loop[k].pc = "none"} # {}
      BY <1>1 DEF StartWithContext
    <3> QED BY <3>1, AnyOfIsOne
  <2>2. [pc |-> "wait", live |-> TRUE, due |-> {}] \in LoopRecord
    BY DEF LoopRecord
  <2> QED BY <1>1, <2>1, <2>2 DEF StartWithContext, slotVars, TypeOK
<1>2. CASE EndContext
  BY <1>0, <1>2 DEF EndContext, slotVars, TypeOK
<1>3. CASE StopWithContext
  BY <1>0, <1>3 DEF StopWithContext, slotVars, TypeOK
<1>4. CASE StopStep
  BY <1>4 DEF StopStep, StopDone, StopTimeout, slotVars, TypeOK
<1> QED BY <1>1, <1>2, <1>3, <1>4

\* Every variable keeps its type: in particular no channel ever holds fewer than no
\* tokens (releaseSlot's default branch).
THEOREM TypeCorrect == Spec => []TypeOK
<1>1. Init => TypeOK
  BY InitType
<1>2. TypeOK /\ [Next]_vars => TypeOK'
  <2> SUFFICES ASSUME TypeOK, [Next]_vars PROVE TypeOK'
    OBVIOUS
  <2>1. CASE UNCHANGED vars
    BY <2>1 DEF vars, TypeOK
  <2>2. CASE Next
    BY <2>2, CheckStepType, CheckNowType, LoopStepType, EngineStepType DEF Next
  <2> QED BY <2>1, <2>2
<1> QED BY <1>1, <1>2, PTL DEF Spec

-----------------------------------------------------------------------------
(***************************************************************************)
(* The marks: who is in inFlight.                                          *)
(***************************************************************************)
MarksPointwise == \A m : m \in inFlight <=> \E c \in Checks : Marked(c) /\ check[c].mon = m

LEMMA MarksByPoint == /\ SlotsMatchChecks <=> MarksPointwise
                      /\ SlotsMatchChecks' <=> MarksPointwise'
BY DEF SlotsMatchChecks, MarksPointwise, Marked

\* A check begins on a monitor that is in no other hands.
LEMMA MarkAdds ==
  ASSUME TypeOK, MarkInv, NEW m \in Monitors, NEW who \in Loops \cup {Caller}, Mark(m, who)
  PROVE  MarkInv'
<1>1. PICK c \in Checks : /\ check[c].pc = "idle"
                          /\ m \notin inFlight
                          /\ inFlight' = inFlight \cup {m}
                          /\ check' = [check EXCEPT ![c] = Marking(m, who)]
  BY MarkTakesIdle
<1>2. \A d \in Checks \ {c} : check'[d] = check[d]
  BY <1>1 DEF TypeOK
<1>3. check'[c].mon = m /\ check'[c].pc \in {"run", "send"}
  BY <1>1 DEF Marking, TypeOK
<1>4. \A d \in Checks : Marked(d)' <=> d = c \/ Marked(d)
  BY <1>1, <1>2, <1>3 DEF Marked
<1>5. ~Marked(c) /\ MarksPointwise
  BY <1>1, MarksByPoint DEF Marked, MarkInv
<1>6. OneCheckPerMonitor'
  BY <1>1, <1>2, <1>3, <1>4, <1>5 DEF OneCheckPerMonitor, MarkInv, MarksPointwise
<1>7. MarksPointwise'
  <2> SUFFICES ASSUME NEW n
               PROVE  n \in inFlight' <=> \E d \in Checks : Marked(d)' /\ check'[d].mon = n
    BY DEF MarksPointwise
  <2>1. n \in inFlight' <=> n = m \/ \E d \in Checks : Marked(d) /\ check[d].mon = n
    BY <1>1, <1>5 DEF MarksPointwise
  <2> QED BY <1>2, <1>3, <1>4, <1>5, <2>1
<1> QED BY <1>6, <1>7, MarksByPoint DEF MarkInv

\* A check leaves the map with its monitor.
LEMMA MarkRemoves ==
  ASSUME TypeOK, MarkInv, NEW c \in Checks, Marked(c),
         inFlight' = inFlight \ {check[c].mon},
         ~Marked(c)', \A d \in Checks \ {c} : check'[d] = check[d]
  PROVE  MarkInv'
<1>1. \A d \in Checks : Marked(d)' <=> d # c /\ Marked(d)
  BY DEF Marked
<1>2. OneCheckPerMonitor'
  BY <1>1 DEF OneCheckPerMonitor, MarkInv
<1>3. MarksPointwise'
  <2> SUFFICES ASSUME NEW n
               PROVE  n \in inFlight' <=> \E d \in Checks : Marked(d)' /\ check'[d].mon = n
    BY DEF MarksPointwise
  <2>1. n \in inFlight <=> \E d \in Checks : Marked(d) /\ check[d].mon = n
    BY MarksByPoint DEF MarksPointwise, MarkInv
  <2>2. \A d \in Checks : Marked(d) /\ check[d].mon = check[c].mon => d = c
    BY DEF OneCheckPerMonitor, MarkInv
  <2> QED BY <1>1, <2>1, <2>2
<1> QED BY <1>2, <1>3, MarksByPoint DEF MarkInv

\* A step after which the same checks are marked.
LEMMA MarksStay ==
  ASSUME MarkInv, UNCHANGED inFlight,
         \A c \in Checks : /\ Marked(c)' <=> Marked(c)
                           /\ Marked(c) => check'[c].mon = check[c].mon
  PROVE  MarkInv'
<1>1. OneCheckPerMonitor'
  BY DEF OneCheckPerMonitor, MarkInv
<1>2. MarksPointwise'
  BY MarksByPoint DEF MarksPointwise, MarkInv
<1> QED BY <1>1, <1>2, MarksByPoint DEF MarkInv

LEMMA MarksOfCheckStep ==
  ASSUME TypeOK, MarkInv, NEW c \in Checks, CheckStep(c)
  PROVE  MarkInv'
<1>0. check[c] \in CheckRecord /\ Idle.pc = "idle"
  BY DEF TypeOK, Idle
<1>1. CASE Send(c)
  <2>1. \A d \in Checks \ {c} : check'[d] = check[d]
    BY <1>1 DEF Send, TypeOK
  <2>2. check[c].pc = "send" /\ check'[c].pc \in {"run", "refused"} /\ check'[c].mon = check[c].mon
    BY <1>0, <1>1 DEF Send, TypeOK, CheckRecord
  <2> QED BY <1>1, <2>1, <2>2, MarksStay DEF Send, Marked
<1>2. CASE Unmark(c)
  <2>1. \A d \in Checks \ {c} : check'[d] = check[d]
    BY <1>2 DEF Unmark, Ends, TypeOK
  <2>2. Marked(c) /\ ~Marked(c)'
    BY <1>0, <1>2 DEF Unmark, Ends, Marked, TypeOK
  <2> QED BY <1>2, <2>1, <2>2, MarkRemoves DEF Unmark
<1>3. CASE Release(c)
  <2>1. \A d \in Checks \ {c} : check'[d] = check[d]
    BY <1>3 DEF Release, Ends, TypeOK
  <2>2. Marked(c) /\ ~Marked(c)'
    BY <1>0, <1>3 DEF Release, Ends, Marked, TypeOK, CheckRecord
  <2> QED BY <1>3, <2>1, <2>2, MarkRemoves DEF Release
<1>4. CASE Drain(c)
  <2>1. \A d \in Checks \ {c} : check'[d] = check[d]
    BY <1>4 DEF Drain, Ends, TypeOK
  <2>2. ~Marked(c) /\ ~Marked(c)'
    BY <1>0, <1>4 DEF Drain, Ends, Marked, TypeOK
  <2>3. \A d \in Checks : /\ Marked(d)' <=> Marked(d)
                          /\ Marked(d) => check'[d].mon = check[d].mon
    BY <2>1, <2>2 DEF Marked
  <2> QED BY <1>4, <2>3, MarksStay DEF Drain
<1> QED BY <1>1, <1>2, <1>3, <1>4 DEF CheckStep

LEMMA MarksOfDue ==
  ASSUME TypeOK, MarkInv, NEW l \in Loops, StartDue(l)
  PROVE  MarkInv'
<1>1. PICK m \in loop[l].due :
        IF m \in inFlight THEN UNCHANGED <<inFlight, check>> ELSE Mark(m, l)
  BY DEF StartDue
<1>2. m \in Monitors
  BY DEF TypeOK, LoopRecord
<1>3. CASE m \in inFlight
  BY <1>1, <1>3, MarksStay DEF Marked
<1>4. CASE m \notin inFlight
  BY <1>1, <1>2, <1>4, MarkAdds
<1> QED BY <1>3, <1>4

\* No monitor has two checks at a time, and inFlight holds exactly the monitors with one,
\* for any number of checks and whatever channels they use (acquireSlot, releaseSlot).
THEOREM MarksCorrect == Spec => [](OneCheckPerMonitor /\ SlotsMatchChecks)
<1>1. Init => MarkInv
  BY DEF Init, Idle, MarkInv, OneCheckPerMonitor, SlotsMatchChecks, Marked
<1>2. TypeOK /\ MarkInv /\ [Next]_vars => MarkInv'
  <2> SUFFICES ASSUME TypeOK, MarkInv, [Next]_vars PROVE MarkInv'
    OBVIOUS
  <2>1. UNCHANGED <<inFlight, check>> => MarkInv'
    BY MarksStay DEF Marked
  <2>2. ASSUME NEW c \in Checks, CheckStep(c) PROVE MarkInv'
    BY <2>2, MarksOfCheckStep
  <2>3. ASSUME NEW m \in Monitors, CheckNow(m) PROVE MarkInv'
    BY <2>3, MarkAdds DEF CheckNow
  <2>4. ASSUME NEW l \in Loops, StartDue(l) PROVE MarkInv'
    BY <2>4, MarksOfDue
  <2>5. ASSUME NEW l \in Loops, Tick(l) \/ EndTick(l) \/ LeaveLoop(l) PROVE MarkInv'
    BY <2>1, <2>5 DEF Tick, EndTick, LeaveLoop, slotVars
  <2>6. CASE StartWithContext \/ EndContext \/ StopWithContext \/ StopStep
    BY <2>1, <2>6 DEF StartWithContext, EndContext, StopWithContext, StopStep, StopDone,
                      StopTimeout, slotVars
  <2>7. CASE UNCHANGED vars
    BY <2>1, <2>7 DEF vars
  <2> QED BY <2>2, <2>3, <2>4, <2>5, <2>6, <2>7 DEF Next
<1> QED BY <1>1, <1>2, TypeCorrect, PTL DEF Spec, MarkInv

-----------------------------------------------------------------------------
(***************************************************************************)
(* The loop.                                                               *)
(***************************************************************************)
\* A step after which no loop exists that did not before.
LEMMA LoopsStay ==
  ASSUME OneLoop, \A l \in Loops : loop'[l].pc # "none" => loop[l].pc # "none",
         running' = running \/ \A l \in Loops : loop[l].pc = "none"
  PROVE  OneLoop'
BY DEF OneLoop

LEMMA OneLoopOfLoopStep ==
  ASSUME TypeOK, OneLoop, NEW l \in Loops, Tick(l) \/ StartDue(l) \/ EndTick(l) \/ LeaveLoop(l)
  PROVE  OneLoop'
<1>1. loop[l].pc # "none" /\ \A k \in Loops \ {l} : loop'[k] = loop[k]
  BY DEF Tick, StartDue, EndTick, LeaveLoop, TypeOK
<1>2. running' = running
  BY DEF Tick, StartDue, EndTick, LeaveLoop
<1> QED BY <1>1, <1>2, LoopsStay

LEMMA OneLoopOfEngineStep ==
  ASSUME TypeOK, OneLoop, StartWithContext \/ EndContext \/ StopWithContext \/ StopStep
  PROVE  OneLoop'
<1>1. ASSUME EndLoops, running' = running PROVE OneLoop'
  <2>1. \A l \in Loops : loop'[l].pc = loop[l].pc
    BY <1>1 DEF EndLoops, TypeOK, LoopRecord
  <2> QED BY <1>1, <2>1, LoopsStay
<1>2. CASE StartWithContext
  <2>1. \A l \in Loops : loop[l].pc = "none"
    BY <1>2 DEF StartWithContext, OneLoop
  <2>2. PICK l : loop' = [loop EXCEPT ![l] = [pc |-> "wait", live |-> TRUE, due |-> {}]]
    BY <1>2 DEF StartWithContext
  <2>3. \A k \in Loops : k # l => loop'[k].pc = "none"
    BY <2>1, <2>2 DEF TypeOK
  <2> QED BY <1>2, <2>3 DEF OneLoop, StartWithContext
<1>3. CASE EndContext
  BY <1>1, <1>3 DEF EndContext
<1>4. CASE StopWithContext
  BY <1>1, <1>4 DEF StopWithContext
<1>5. CASE StopStep
  BY <1>5, LoopsStay DEF StopStep, StopDone, StopTimeout
<1> QED BY <1>2, <1>3, <1>4, <1>5

\* One loop at most starts checks, and none in an engine that counts as stopped, even
\* when StopWithContext gave up or the context ended by itself.
THEOREM LoopCorrect == Spec => []OneLoop
<1>1. Init => OneLoop
  BY DEF Init, OneLoop, NoLoop
<1>2. TypeOK /\ OneLoop /\ [Next]_vars => OneLoop'
  <2> SUFFICES ASSUME TypeOK, OneLoop, [Next]_vars PROVE OneLoop'
    OBVIOUS
  <2>1. ASSUME UNCHANGED <<loop, running>> PROVE OneLoop'
    BY <2>1, LoopsStay
  <2>2. ASSUME NEW c \in Checks, CheckStep(c) PROVE OneLoop'
    BY <2>1, <2>2 DEF CheckStep, Send, Unmark, Release, Drain, engineVars
  <2>3. ASSUME NEW m \in Monitors, CheckNow(m) PROVE OneLoop'
    BY <2>1, <2>3 DEF CheckNow, engineVars
  <2>4. CASE UNCHANGED vars
    BY <2>1, <2>4 DEF vars
  <2> QED BY <2>2, <2>3, <2>4, OneLoopOfLoopStep, OneLoopOfEngineStep DEF Next
<1> QED BY <1>1, <1>2, TypeCorrect, PTL DEF Spec

-----------------------------------------------------------------------------
(***************************************************************************)
(* The tokens of the current channel.                                      *)
(***************************************************************************)
LEMMA HoldersFinite ==
  ASSUME NEW s
  PROVE  /\ IsFiniteSet(Holders(s)) /\ Cardinality(Holders(s)) \in Nat
         /\ IsFiniteSet(Holders(s)') /\ Cardinality(Holders(s)') \in Nat
<1>1. Holders(s) \subseteq Checks /\ Holders(s)' \subseteq Checks
  BY DEF Holders
<1> QED BY <1>1, ChecksAssumption, FS_Subset, FS_CardinalityType

\* A step after which the current channel has the same holders and no more tokens.
LEMMA OwnedStay ==
  ASSUME TypeOK, TypeOK', TokensOwned, sem' = sem,
         sem # 0 => Holders(sem)' = Holders(sem) /\ tokens'[sem] <= tokens[sem]
  PROVE  TokensOwned'
<1> SUFFICES ASSUME sem # 0 PROVE tokens'[sem] <= Cardinality(Holders(sem)')
  BY DEF TokensOwned
<1>1. sem \in Channels
  BY DEF TypeOK, Channels
<1>2. tokens[sem] \in Nat /\ tokens'[sem] \in Nat
  BY <1>1 DEF TypeOK
<1>3. tokens[sem] <= Cardinality(Holders(sem))
  BY DEF TokensOwned
<1> QED BY <1>2, <1>3, HoldersFinite

LEMMA TokensOfSend ==
  ASSUME TokenInv, TypeOK', NEW c \in Checks, Send(c)
  PROVE  TokenInv'
<1> DEFINE s == check[c].sem
<1>0. TypeOK /\ TokenShape /\ TokensOwned /\ check[c] \in CheckRecord
  BY DEF TokenInv, TypeOK
<1>1. sem' = sem /\ check[c].pc = "send"
  BY DEF Send
<1>2. s \in Channels /\ s <= sem
  <2>1. s \in 0 .. MaxChannels
    BY <1>0 DEF CheckRecord
  <2>2. s > 0 /\ s <= sem
    BY <1>0, <1>1 DEF TokenShape
  <2> QED BY <2>1, <2>2, ChannelsAssumption DEF Channels
<1>3. \A d \in Checks \ {c} : check'[d] = check[d]
  BY <1>0 DEF Send, TypeOK
<1>4. CASE tokens[s] < cap[s]
  <2>1. tokens' = [tokens EXCEPT ![s] = @ + 1]
    BY <1>4 DEF Send
  <2>2. check'[c].pc = "run" /\ check'[c].took = s /\ check'[c].sem = s
    BY <1>0, <1>4 DEF Send, TypeOK, CheckRecord
  <2>3. TokenShape'
    <3>1. \A t \in Channels : t > sem => tokens'[t] = 0
      BY <1>0, <1>2, <2>1 DEF TokenShape, TypeOK, Channels
    <3> QED BY <1>0, <1>1, <1>2, <1>3, <2>2, <3>1 DEF TokenShape
  <2>4. CASE s = sem
    <3>1. Holders(sem)' = Holders(sem) \cup {c} /\ c \notin Holders(sem)
      BY <1>1, <1>3, <2>2, <2>4 DEF Holders
    <3>2. Cardinality(Holders(sem)') = Cardinality(Holders(sem)) + 1
      BY <3>1, HoldersFinite, FS_AddElement
    <3>3. tokens'[sem] = tokens[sem] + 1 /\ tokens[sem] \in Nat
      BY <1>0, <1>2, <2>1, <2>4 DEF TypeOK
    <3>4. tokens[sem] <= Cardinality(Holders(sem))
      BY <1>0, <1>2, <2>4 DEF TokensOwned, Channels
    <3>5. tokens'[sem] <= Cardinality(Holders(sem)')
      BY <3>2, <3>3, <3>4, HoldersFinite
    <3> QED BY <1>1, <2>3, <3>5 DEF TokenInv, TokensOwned
  <2>5. CASE s # sem
    <3>1. Holders(sem)' = Holders(sem)
      BY <1>1, <1>3, <2>2, <2>5 DEF Holders
    <3>2. sem # 0 => tokens'[sem] = tokens[sem] /\ tokens[sem] \in Nat
      BY <1>0, <2>1, <2>5 DEF TypeOK, Channels
    <3> QED BY <1>0, <1>1, <2>3, <3>1, <3>2, OwnedStay DEF TokenInv
  <2> QED BY <2>4, <2>5
<1>5. CASE ~(tokens[s] < cap[s])
  <2>1. tokens' = tokens /\ check'[c].pc = "refused" /\ check'[c].sem = s
        /\ check'[c].took = check[c].took
    BY <1>0, <1>5 DEF Send, TypeOK, CheckRecord
  <2>2. TokenShape'
    BY <1>0, <1>1, <1>2, <1>3, <2>1 DEF TokenShape
  <2>3. Holders(sem)' = Holders(sem)
    BY <1>1, <1>3, <2>1 DEF Holders
  <2>4. sem # 0 => tokens[sem] \in Nat
    BY <1>0 DEF TypeOK, Channels
  <2> QED BY <1>0, <1>1, <2>1, <2>2, <2>3, <2>4, OwnedStay DEF TokenInv
<1> QED BY <1>4, <1>5

\* A check that has no token becomes idle or begins, and the channels stay.
LEMMA TokensOfOthers ==
  ASSUME TokenInv, TypeOK', NEW c \in Checks, UNCHANGED <<sem, tokens>>,
         c \notin Holders(sem), c \notin Holders(sem)' \/ sem = 0,
         \A d \in Checks \ {c} : check'[d] = check[d],
         check'[c].sem <= sem /\ check'[c].took <= sem,
         check'[c].pc # "drain", check'[c].pc = "send" => check'[c].sem > 0
  PROVE  TokenInv'
<1>1. TokenShape'
  BY DEF TokenInv, TokenShape
<1>2. sem # 0 => Holders(sem)' = Holders(sem)
  BY DEF Holders
<1>3. sem # 0 => tokens[sem] \in Nat
  BY DEF TokenInv, TypeOK, Channels
<1> QED BY <1>1, <1>2, <1>3, OwnedStay DEF TokenInv

LEMMA TokensOfMark ==
  ASSUME TokenInv, TypeOK', NEW m \in Monitors, NEW who \in Loops \cup {Caller}, Mark(m, who),
         UNCHANGED <<sem, tokens>>
  PROVE  TokenInv'
<1>1. PICK c \in Checks : /\ check[c].pc = "idle"
                          /\ check' = [check EXCEPT ![c] = Marking(m, who)]
  BY MarkTakesIdle DEF TokenInv
<1>2. \A d \in Checks \ {c} : check'[d] = check[d]
  BY <1>1 DEF TokenInv, TypeOK
<1>3. check'[c].sem = sem /\ check'[c].took = 0 /\ check'[c].pc = IF sem = 0 THEN "run" ELSE "send"
  BY <1>1 DEF TokenInv, TypeOK, Marking
<1>4. c \notin Holders(sem)
  BY <1>1 DEF Holders
<1>5. c \notin Holders(sem)' \/ sem = 0
  BY <1>3 DEF Holders
<1>6. sem \in Nat
  BY DEF TokenInv, TypeOK
<1>7. 0 <= sem /\ sem <= sem /\ (sem # 0 => sem > 0)
  BY <1>6
<1> QED BY <1>2, <1>3, <1>4, <1>5, <1>7, TokensOfOthers

LEMMA TokensOfRelease ==
  ASSUME TokenInv, TypeOK', NEW c \in Checks, Release(c)
  PROVE  TokenInv'
<1>0. TypeOK /\ TokenShape /\ TokensOwned /\ check[c] \in CheckRecord /\ sem \in Nat
  BY DEF TokenInv, TypeOK
<1>1. sem' = sem /\ tokens' = tokens /\ check[c].pc = "run"
  BY DEF Release
<1>2. \A d \in Checks \ {c} : check'[d] = check[d]
  BY <1>0 DEF Release, Ends, TypeOK
<1>3. CASE sem = 0
  <2>1. check'[c] = Idle
    BY <1>0, <1>3 DEF Release, Ends, TypeOK
  <2>2. TokenShape'
    BY <1>0, <1>1, <1>2, <2>1 DEF TokenShape, Idle
  <2> QED BY <1>1, <1>3, <2>2 DEF TokenInv, TokensOwned
<1>4. CASE sem # 0
  <2>1. check'[c].pc = "drain" /\ check'[c].sem = sem /\ check'[c].took = check[c].took
    BY <1>0, <1>4 DEF Release, TypeOK, CheckRecord
  <2>2. TokenShape'
    BY <1>0, <1>1, <1>2, <2>1 DEF TokenShape
  <2>3. Holders(sem)' = Holders(sem)
    BY <1>1, <1>2, <2>1 DEF Holders
  <2>4. tokens[sem] \in Nat
    BY <1>0, <1>4 DEF TypeOK, Channels
  <2> QED BY <1>0, <1>1, <2>2, <2>3, <2>4, OwnedStay DEF TokenInv
<1> QED BY <1>3, <1>4

LEMMA TokensOfDrain ==
  ASSUME TokenInv, TypeOK', NEW c \in Checks, Drain(c)
  PROVE  TokenInv'
<1> DEFINE s == check[c].sem
<1>0. TypeOK /\ TokenShape /\ TokensOwned /\ check[c] \in CheckRecord /\ sem \in Nat
  BY DEF TokenInv, TypeOK
<1>1. sem' = sem /\ check[c].pc = "drain" /\ check[c].took <= s /\ s <= sem
  BY <1>0 DEF Drain, TokenShape
<1>2. \A d \in Checks \ {c} : check'[d] = check[d]
  BY <1>0 DEF Drain, Ends, TypeOK
<1>3. check'[c] = Idle
  BY <1>0 DEF Drain, Ends, TypeOK
<1>4. \A t \in Channels : tokens'[t] = IF t = s /\ tokens[s] > 0 THEN tokens[t] - 1 ELSE tokens[t]
  BY <1>0 DEF Drain, TypeOK
<1>5. \A t \in Channels : tokens[t] \in Nat /\ tokens'[t] <= tokens[t]
  BY <1>0, <1>4 DEF TypeOK
<1>6. TokenShape'
  <2>1. \A t \in Channels : t > sem => tokens'[t] = 0
    BY <1>0, <1>4 DEF TokenShape
  <2> QED BY <1>0, <1>1, <1>2, <1>3, <2>1 DEF TokenShape, Idle
<1>7. CASE sem # 0 /\ check[c].took = sem
  <2>1. s = sem /\ sem \in Channels
    BY <1>0, <1>1, <1>7 DEF CheckRecord, TypeOK, Channels
  <2>2. Holders(sem)' = Holders(sem) \ {c} /\ c \in Holders(sem)
    BY <1>1, <1>2, <1>3, <1>7 DEF Holders, Idle
  <2>3. Cardinality(Holders(sem)') = Cardinality(Holders(sem)) - 1
    BY <2>2, HoldersFinite, FS_RemoveElement
  <2>4. Cardinality(Holders(sem)') \in Nat
    BY HoldersFinite
  <2>5. tokens[sem] <= Cardinality(Holders(sem)) /\ tokens[sem] \in Nat
    BY <1>0, <1>5, <1>7, <2>1 DEF TokensOwned
  <2>6. tokens'[sem] = IF tokens[sem] > 0 THEN tokens[sem] - 1 ELSE tokens[sem]
    BY <1>4, <2>1
  <2>7. tokens'[sem] <= Cardinality(Holders(sem)')
    BY <2>3, <2>4, <2>5, <2>6, HoldersFinite
  <2> QED BY <1>1, <1>6, <2>7 DEF TokenInv, TokensOwned
<1>8. CASE ~(sem # 0 /\ check[c].took = sem)
  <2>1. sem # 0 => Holders(sem)' = Holders(sem)
    BY <1>1, <1>2, <1>3, <1>8 DEF Holders, Idle
  <2>2. sem # 0 => sem \in Channels
    BY <1>0 DEF TypeOK, Channels
  <2> QED BY <1>0, <1>1, <1>5, <1>6, <2>1, <2>2, OwnedStay DEF TokenInv
<1> QED BY <1>7, <1>8

LEMMA TokensOfUnmark ==
  ASSUME TokenInv, TypeOK', NEW c \in Checks, Unmark(c)
  PROVE  TokenInv'
<1>1. \A d \in Checks \ {c} : check'[d] = check[d]
  BY DEF TokenInv, Unmark, Ends, TypeOK
<1>2. check'[c] = Idle /\ check[c].pc = "refused" /\ sem \in Nat
  BY DEF TokenInv, Unmark, Ends, TypeOK
<1>3. c \notin Holders(sem) /\ c \notin Holders(sem)'
  BY <1>2 DEF Holders, Idle
<1> QED BY <1>1, <1>2, <1>3, TokensOfOthers DEF Unmark, Idle

\* A new channel is empty.
LEMMA TokensOfTick ==
  ASSUME TokenInv, TypeOK', NEW l \in Loops, Tick(l)
  PROVE  TokenInv'
<1>0. TypeOK /\ TokenShape /\ TokensOwned /\ sem \in Nat
  BY DEF TokenInv, TypeOK
<1>1. sem' \in {sem, sem + 1} /\ sem' \in 0 .. MaxChannels
  BY <1>0, EnsureSemaphoreType DEF Tick
<1>2. tokens' = tokens /\ check' = check
  BY DEF Tick
<1>3. \A c \in Checks : check[c].sem \in Nat /\ check[c].took \in Nat
  BY <1>0 DEF TypeOK, CheckRecord
<1>4. TokenShape'
  BY <1>0, <1>1, <1>2, <1>3 DEF TokenShape, Channels
<1>5. CASE sem' = sem
  BY <1>2, <1>4, <1>5 DEF TokenInv, TokensOwned, Holders
<1>6. CASE sem' = sem + 1
  <2>1. tokens'[sem'] = 0
    BY <1>0, <1>1, <1>2, <1>6 DEF TokenShape, Channels
  <2>2. Cardinality(Holders(sem)') \in Nat
    <3>1. Holders(sem)' \subseteq Checks
      BY DEF Holders
    <3> QED BY <3>1, ChecksAssumption, FS_Subset, FS_CardinalityType
  <2> QED BY <1>4, <2>1, <2>2 DEF TokenInv, TokensOwned
<1> QED BY <1>1, <1>5, <1>6

LEMMA TokensOfDue ==
  ASSUME TokenInv, TypeOK', NEW l \in Loops, StartDue(l)
  PROVE  TokenInv'
<1>1. PICK m \in loop[l].due :
        IF m \in inFlight THEN UNCHANGED <<inFlight, check>> ELSE Mark(m, l)
  BY DEF StartDue
<1>2. m \in Monitors /\ sem' = sem /\ tokens' = tokens
  BY DEF StartDue, TokenInv, TypeOK, LoopRecord
<1>3. CASE m \in inFlight
  BY <1>1, <1>2, <1>3 DEF TokenInv, TokenShape, TokensOwned, Holders
<1>4. CASE m \notin inFlight
  BY <1>1, <1>2, <1>4, TokensOfMark
<1> QED BY <1>3, <1>4

\* Every token in the current channel belongs to a check that is still to give one back:
\* whatever checks outlive their channel, none of its capacity is ever lost (releaseSlot).
THEOREM TokensCorrect == Spec => []TokensOwned
<1>1. Init => TokenInv
  <2>1. Init => TokenShape /\ TokensOwned
    BY DEF Init, Idle, TokenShape, TokensOwned
  <2> QED BY <2>1, InitType DEF TokenInv
<1>2. TypeOK' /\ TokenInv /\ [Next]_vars => TokenInv'
  <2> SUFFICES ASSUME TypeOK', TokenInv, [Next]_vars PROVE TokenInv'
    OBVIOUS
  <2>1. ASSUME UNCHANGED <<sem, tokens, check>> PROVE TokenInv'
    BY <2>1 DEF TokenInv, TokenShape, TokensOwned, Holders
  <2>2. ASSUME NEW c \in Checks, CheckStep(c) PROVE TokenInv'
    BY <2>2, TokensOfSend, TokensOfUnmark, TokensOfRelease, TokensOfDrain DEF CheckStep
  <2>3. ASSUME NEW m \in Monitors, CheckNow(m) PROVE TokenInv'
    BY <2>3, TokensOfMark DEF CheckNow
  <2>4. ASSUME NEW l \in Loops, Tick(l) \/ StartDue(l) PROVE TokenInv'
    BY <2>4, TokensOfTick, TokensOfDue
  <2>5. ASSUME NEW l \in Loops, EndTick(l) \/ LeaveLoop(l) PROVE TokenInv'
    BY <2>1, <2>5 DEF EndTick, LeaveLoop, slotVars
  <2>6. CASE StartWithContext \/ EndContext \/ StopWithContext \/ StopStep
    BY <2>1, <2>6 DEF StartWithContext, EndContext, StopWithContext, StopStep, StopDone,
                      StopTimeout, slotVars
  <2>7. CASE UNCHANGED vars
    BY <2>1, <2>7 DEF vars
  <2> QED BY <2>2, <2>3, <2>4, <2>5, <2>6, <2>7 DEF Next
<1>3. TokenInv => TokensOwned
  BY DEF TokenInv
<1> QED BY <1>1, <1>2, <1>3, TypeCorrect, PTL DEF Spec

-----------------------------------------------------------------------------
(***************************************************************************)
(* Closed periods.                                                         *)
(***************************************************************************)
\* What a pass in progress has read, and what its last statement wrote.
PassHolds ==
  /\ pass.pc # "idle" => pass.left \in 1 .. Len(Kinds) /\ pass.day \in FirstDay .. LastDay
  /\ pass.pc \in {"policies", "evaluate"} => pass.target \in Targets
  /\ pass.pc \in {"evaluate", "upsert"} => pass.policy \in Policies
  /\ pass.pc = "mark" => opened[Period] > 0

SlaTypeInv == SlaTypeOK /\ PassHolds

\* A row without its incident: only the pass that opened it may leave it so for a moment.
SlaIncidentInv ==
  /\ pass.pc = "incident" => ~rows[Period].created
  /\ ~unmarked => \A p \in Periods :
       /\ opened[p] <= 1
       /\ opened[p] = 1 => rows[p].created \/ (pass.pc = "mark" /\ p = Period)

\* The last number of a bounded set.
LEMMA LastNumber ==
  ASSUME NEW n \in Nat, NEW S, S \subseteq 0 .. n, S # {}
  PROVE  \E x \in S : \A y \in S : y <= x
<1> DEFINE Back == {n - x : x \in S}
<1>1. Back \subseteq Nat /\ Back # {}
  <2>1. \A x \in S : x \in 0 .. n
    OBVIOUS
  <2>2. \A x \in S : n - x \in Nat
    BY <2>1
  <2> QED
    BY <2>2
<1>2. PICK b \in Back : \A c \in Back : ~(<<c, b>> \in OpToRel(<, Nat))
  BY <1>1, NatLessThanWellFounded, WFMin
<1>3. PICK x \in S : b = n - x
  OBVIOUS
<1>4. ASSUME NEW y \in S PROVE y <= x
  <2>1. n - y \in Back
    OBVIOUS
  <2>2. n - y \in Nat /\ b \in Nat /\ ~(<<n - y, b>> \in OpToRel(<, Nat))
    BY <1>1, <1>2, <2>1
  <2>3. <<n - y, b>> \in Nat \X Nat
    BY <2>2
  <2>4. ~(n - y < b)
    BY <2>2, <2>3 DEF OpToRel
  <2>5. n \in Int /\ x \in Int /\ y \in Int
    <3>1. x \in 0 .. n /\ y \in 0 .. n
      BY Zenon
    <3> QED
      BY <3>1
  <2> QED
    BY <1>3, <2>4, <2>5
<1> QED
  BY <1>4

\* startOfUTCDay and the others, where the calendar has a start before the day.
LEMMA StartFound ==
  ASSUME NEW kind \in KindNames, NEW day \in Days, NEW e \in Starts[kind], e <= day
  PROVE  /\ StartOf[kind][day] \in Starts[kind]
         /\ e <= StartOf[kind][day] /\ StartOf[kind][day] <= day
<1> DEFINE Before == {d \in Starts[kind] : d <= day}
           IsStart(d) == d <= day /\ \A c \in Starts[kind] : c <= day => c <= d
<1>1. LastDay \in Nat /\ Starts[kind] \subseteq Days
  BY StartsAssumption
<1>2. Before \subseteq 0 .. LastDay /\ Before # {}
  BY <1>1 DEF Days
<1>3. \E x \in Before : \A y \in Before : y <= x
  BY <1>1, <1>2, LastNumber
<1>4. \E d \in Starts[kind] : IsStart(d)
  BY <1>3
<1>5. StartOf[kind][day] = CHOOSE d \in Starts[kind] : IsStart(d)
  BY DEF StartOf
<1>6. StartOf[kind][day] \in Starts[kind] /\ IsStart(StartOf[kind][day])
  <2> HIDE DEF IsStart
  <2> QED
    BY <1>4, <1>5
<1> QED
  BY <1>6

\* A period that is judged lies in the calendar.
LEMMA PeriodInside ==
  ASSUME NEW kind \in KindNames, NEW day \in FirstDay .. LastDay
  PROVE  /\ StartOf[kind][day] \in Days
         /\ LastStart[kind][day] \in Days
<1> DEFINE Early == {d \in Starts[kind] : d <= FirstDay}
<1>1. /\ LastDay \in Nat /\ FirstDay \in 0 .. LastDay /\ Starts[kind] \subseteq 0 .. LastDay
      /\ Cardinality(Early) >= 2
  BY StartsAssumption DEF Days
<1>2. \E a, b \in Early : a < b
  <2>1. IsFiniteSet(0 .. LastDay)
    BY <1>1, FS_Interval
  <2>2. IsFiniteSet(Early) /\ Cardinality(Early) \in Nat
    <3>1. Early \in SUBSET (0 .. LastDay)
      BY <1>1
    <3> QED
      BY <2>1, <3>1, FS_Subset, FS_CardinalityType
  <2>3. Early # {} /\ ~ \E x : Early = {x}
    <3> HIDE DEF Early
    <3> QED
      BY <1>1, <2>2, FS_EmptySet, FS_Singleton
  <2>4. PICK a \in Early, b \in Early : a # b
    <3>1. PICK a \in Early : TRUE
      BY <2>3
    <3>2. Early # {a}
      BY <2>3
    <3> QED
      BY <3>1, <3>2
  <2>5. a \in Int /\ b \in Int
    BY <1>1
  <2> QED
    BY <2>4, <2>5
<1>3. PICK a \in Early, b \in Early : a < b
  BY <1>2
<1>4. day \in Days /\ day \in Int /\ b <= day /\ a \in Int /\ b \in Int
  BY <1>1 DEF Days
<1>5. StartOf[kind][day] \in Starts[kind] /\ b <= StartOf[kind][day]
  BY <1>4, StartFound
<1>6. StartOf[kind][day] - 1 \in Days /\ a <= StartOf[kind][day] - 1
  BY <1>1, <1>3, <1>4, <1>5 DEF Days
<1>7. StartOf[kind][StartOf[kind][day] - 1] \in Starts[kind]
  BY <1>6, StartFound
<1>8. LastStart[kind][day] = StartOf[kind][StartOf[kind][day] - 1]
  BY DEF LastStart
<1> QED
  BY <1>1, <1>5, <1>7, <1>8 DEF Days

LEMMA PercentIs ==
  ASSUME NEW whole \in Nat \ {0}, NEW part \in 0 .. whole
  PROVE  Percent(part, whole) \in Nat /\ Percent(part, whole) <= 10000
<1> DEFINE top == 20000 * part + whole
           base == 2 * whole
           q == top \div base
<1>1. part \in Nat /\ part <= whole /\ base \in Nat /\ base > 0 /\ top \in Nat
  OBVIOUS
<1>2. top < 10001 * base
  BY <1>1
<1> HIDE DEF top, base
<1>3. q \in Int /\ base * q <= top /\ top < base * q + base
  BY <1>1
<1> HIDE DEF q
<1>4. q >= 0
  <2>1. ASSUME q <= -1 PROVE FALSE
    <3>1. base * q <= base * (-1)
      BY <1>1, <1>3, <2>1
    <3> QED
      BY <1>1, <1>3, <3>1
  <2> QED
    BY <1>3, <2>1
<1>5. q <= 10000
  <2>1. ASSUME q >= 10001 PROVE FALSE
    <3>1. base * q >= base * 10001
      BY <1>1, <1>3, <2>1
    <3> QED
      BY <1>1, <1>2, <1>3, <3>1
  <2> QED
    BY <1>3, <2>1
<1> QED
  BY <1>3, <1>4, <1>5 DEF Percent, q, top, base

LEMMA EvaluateType ==
  ASSUME SlaTypeOK, NEW kind \in KindNames, NEW day \in FirstDay .. LastDay,
         NEW goal \in Targets, NEW min
  PROVE  Evaluate(kind, day, goal, min) \in Evaluations
<1> DEFINE due == (LastStart[kind][day] .. StartOf[kind][day] - 1) \ windows
           expected == IF due = {} THEN 1 ELSE Cardinality(due)
           measured == {d \in due : metrics[d] # "none"}
           good == {d \in due : metrics[d] = "ok"}
           total == Cardinality(measured)
           ok == Cardinality(good)
<1>1. IsFiniteSet(due)
  <2>1. LastStart[kind][day] \in Int /\ StartOf[kind][day] - 1 \in Int
    BY PeriodInside, StartsAssumption DEF Days
  <2>2. IsFiniteSet(LastStart[kind][day] .. StartOf[kind][day] - 1)
    BY <2>1, FS_Interval
  <2> QED
    BY <2>2, FS_Difference
<1> HIDE DEF due
<1>2. /\ good \in SUBSET measured /\ measured \in SUBSET due
      /\ IsFiniteSet(measured) /\ IsFiniteSet(good)
      /\ ok <= total /\ total <= Cardinality(due)
      /\ ok \in Nat /\ total \in Nat /\ Cardinality(due) \in Nat
  <2>1. good \in SUBSET measured /\ measured \in SUBSET due
    OBVIOUS
  <2> HIDE DEF good, measured
  <2>2. IsFiniteSet(measured) /\ total <= Cardinality(due)
    BY <1>1, <2>1, FS_Subset
  <2>3. IsFiniteSet(good) /\ ok <= total
    BY <2>1, <2>2, FS_Subset
  <2> QED
    BY <1>1, <2>1, <2>2, <2>3, FS_CardinalityType
<1> HIDE DEF good, measured
<1>3. expected \in Nat \ {0} /\ total <= expected
  BY <1>1, <1>2, FS_EmptySet
<1> HIDE DEF ok, total, expected
<1>4. Percent(total, expected) \in Nat /\ Percent(total, expected) <= 10000
  <2>1. total \in 0 .. expected
    BY <1>2, <1>3
  <2> QED
    BY <1>3, <2>1, PercentIs
<1>5. total # 0 => Percent(ok, total) \in Nat /\ Percent(ok, total) <= 10000
  <2>1. total # 0 => ok \in 0 .. total /\ total \in Nat \ {0}
    BY <1>2
  <2> QED
    BY <2>1, PercentIs
<1>6. Evaluate(kind, day, goal, min) =
        [uptime |-> IF total = 0 THEN 0 ELSE Percent(ok, total),
         coverage |-> Percent(total, expected),
         target |-> goal,
         status |-> IF total = 0 \/ 10000 * total < min * expected THEN "unknown"
                    ELSE IF 10000 * ok >= goal * total THEN "ok" ELSE "violated"]
  BY DEF Evaluate, due, measured, good, total, ok, expected
<1> DEFINE uptime == IF total = 0 THEN 0 ELSE Percent(ok, total)
           status == IF total = 0 \/ 10000 * total < min * expected THEN "unknown"
                     ELSE IF 10000 * ok >= goal * total THEN "ok" ELSE "violated"
<1>7. uptime \in Percentages /\ Percent(total, expected) \in Percentages
  <2> DEFINE coverage == Percent(total, expected)
  <2>1. uptime \in Nat /\ uptime <= 10000 /\ coverage \in Nat /\ coverage <= 10000
    BY <1>4, <1>5
  <2> HIDE DEF uptime, coverage
  <2>2. uptime \in Percentages
    BY <2>1 DEF Percentages
  <2>3. coverage \in Percentages
    BY <2>1 DEF Percentages
  <2> QED
    BY <2>2, <2>3 DEF coverage
<1>8. status \in {"none", "ok", "violated", "unknown"}
  OBVIOUS
<1> HIDE DEF uptime, status
<1>9. Evaluate(kind, day, goal, min) = [uptime |-> uptime, coverage |-> Percent(total, expected),
                                        target |-> goal, status |-> status]
  BY <1>6 DEF uptime, status
<1> QED
  BY <1>7, <1>8, <1>9 DEF Evaluations

LEMMA KindsAre ==
  /\ Len(Kinds) \in Nat \ {0} /\ DOMAIN Kinds = 1 .. Len(Kinds)
  /\ \A i \in 1 .. Len(Kinds) : Kinds[i] \in KindNames
BY KindsAssumption DEF KindNames

LEMMA PeriodType ==
  ASSUME SlaTypeInv, pass.pc # "idle"
  PROVE  Kind \in KindNames /\ Period \in Periods
<1>1. pass.left \in 1 .. Len(Kinds) /\ pass.day \in FirstDay .. LastDay
  BY DEF SlaTypeInv, PassHolds
<1>2. Len(Kinds) - pass.left + 1 \in 1 .. Len(Kinds)
  BY <1>1, KindsAre
<1>3. Kind \in KindNames
  BY <1>2, KindsAre DEF Kind
<1> QED
  BY <1>1, <1>3 DEF Period, Periods

LEMMA PeriodStays ==
  ASSUME pass'.day = pass.day, pass'.left = pass.left
  PROVE  Period' = Period
BY DEF Period, Kind

LEMMA AwayType == Away \in Passes /\ Away.pc = "idle" /\ NoEvaluation \in Evaluations
<1>1. 0 \in Days /\ 0 \in 0 .. Len(Kinds)
  BY StartsAssumption, KindsAre DEF Days
<1>2. NoEvaluation \in Evaluations
  <2>1. 0 \in Percentages
    BY DEF Percentages
  <2> QED
    BY <2>1 DEF NoEvaluation, Evaluations
<1> QED
  BY <1>1, <1>2 DEF Away, Passes

\* A pass that goes on to its next period, or to none.
LEMMA OnwardType ==
  ASSUME SlaTypeInv, pass.pc # "idle"
  PROVE  /\ Onward \in Passes /\ Onward.pc \in {"idle", "list"}
         /\ Onward.pc # "idle" => /\ Onward.left \in 1 .. Len(Kinds)
                                  /\ Onward.day \in FirstDay .. LastDay
<1>1. pass.left \in 1 .. Len(Kinds) /\ pass.day \in FirstDay .. LastDay /\ pass.day \in Days
  BY DEF SlaTypeInv, SlaTypeOK, PassHolds, Passes
<1>2. CASE pass.left = 1
  BY <1>2, AwayType DEF Onward
<1>3. CASE pass.left # 1
  <2> DEFINE left == pass.left - 1
  <2>1. left \in 1 .. Len(Kinds) /\ left \in 0 .. Len(Kinds)
    BY <1>1, <1>3, KindsAre
  <2>2. Onward = [pc |-> "list", day |-> pass.day, left |-> left, target |-> 0,
                  policy |-> <<>>, eval |-> NoEvaluation]
    BY <1>3 DEF Onward, Away
  <2> QED
    BY <1>1, <2>1, <2>2, AwayType DEF Passes
<1> QED
  BY <1>2, <1>3

LEMMA QuietType == Quiet \in Requests
<1>1. 0 \in Percentages
  BY DEF Percentages
<1> QED
  BY <1>1 DEF Quiet, Requests

LEMMA SlaInitType == SlaInit => SlaTypeInv
<1> SUFFICES ASSUME SlaInit PROVE SlaTypeInv
  OBVIOUS
<1>1. FirstDay \in 0 .. LastDay /\ LastDay \in Nat /\ MaxChanges \in Nat /\ MaxFailures \in Nat
  BY StartsAssumption, BoundsAssumption DEF Days
<1>2. metrics \in [Days -> Measures]
  <2>1. PICK h \in Histories : metrics = [d \in Days |-> IF d < FirstDay THEN h[d] ELSE "none"]
    BY DEF SlaInit
  <2>2. h \in [0 .. FirstDay - 1 -> Measures]
    BY HistoriesAssumption
  <2>3. ASSUME NEW d \in Days, d < FirstDay PROVE h[d] \in Measures
    <3>1. d \in 0 .. FirstDay - 1
      BY <1>1, <2>3 DEF Days
    <3> QED
      BY <2>2, <3>1
  <2> QED
    BY <2>1, <2>3 DEF Measures
<1>3. rows \in [Periods -> Rows] /\ \A p \in Periods : ~rows[p].created
  BY AwayType DEF SlaInit, NoRow, Rows
<1>4. opened \in [Periods -> Nat]
  BY DEF SlaInit
<1>5. request \in Requests
  BY QuietType DEF SlaInit
<1>6. /\ today \in FirstDay .. LastDay /\ windows \subseteq Maintained /\ target \in Targets
      /\ policy \in Policies /\ unmarked \in BOOLEAN /\ changes \in 0 .. MaxChanges
      /\ failures \in 0 .. MaxFailures
  <2>1. windows \subseteq Maintained /\ target \in Targets /\ policy \in Policies
        /\ unmarked \in BOOLEAN
    BY DEF SlaInit
  <2>2. changes \in 0 .. MaxChanges
    BY <1>1 DEF SlaInit
  <2>3. failures \in 0 .. MaxFailures
    BY <1>1 DEF SlaInit
  <2>4. today \in FirstDay .. LastDay
    BY <1>1 DEF SlaInit
  <2> QED
    BY <2>1, <2>2, <2>3, <2>4
<1>7. pass \in Passes /\ pass.pc = "idle"
  BY AwayType DEF SlaInit
<1>8. SlaTypeOK
  BY <1>2, <1>3, <1>4, <1>5, <1>6, <1>7 DEF SlaTypeOK
<1>9. PassHolds
  BY <1>7 DEF PassHolds
<1> QED
  BY <1>8, <1>9 DEF SlaTypeInv

\* How many changes and failures there were.
LEMMA CountsType ==
  ASSUME SlaTypeOK, Changes \/ Fails \/ UNCHANGED counts
  PROVE  changes' \in 0 .. MaxChanges /\ failures' \in 0 .. MaxFailures
<1>1. /\ changes \in 0 .. MaxChanges /\ failures \in 0 .. MaxFailures
      /\ MaxChanges \in Nat /\ MaxFailures \in Nat
  BY BoundsAssumption DEF SlaTypeOK
<1>2. CASE Changes
  BY <1>1, <1>2 DEF Changes
<1>3. CASE Fails
  BY <1>1, <1>3 DEF Fails
<1>4. CASE UNCHANGED counts
  BY <1>1, <1>4 DEF counts
<1> QED
  BY <1>2, <1>3, <1>4

LEMMA ReadPolicyType ==
  ASSUME policy \in Policies, request \in Requests, ReadPolicy
  PROVE  request' \in Requests
<1>1. 8000 \in Percentages
  BY DEF Percentages
<1>2. policy.min \in Percentages
  BY PoliciesAssumption
<1>3. \/ request' = [request EXCEPT !.pc = "sync", !.min = policy.min]
      \/ request' = [request EXCEPT !.pc = "sync", !.min = 8000]
  BY DEF ReadPolicy
<1>4. CASE request' = [request EXCEPT !.pc = "sync", !.min = policy.min]
  BY <1>2, <1>4 DEF Requests
<1>5. CASE request' = [request EXCEPT !.pc = "sync", !.min = 8000]
  <2>1. PICK min : min = 8000
    OBVIOUS
  <2>2. min \in Percentages /\ request' = [request EXCEPT !.pc = "sync", !.min = min]
    BY <1>1, <1>5, <2>1
  <2> QED
    BY <2>2 DEF Requests
<1> QED
  BY <1>3, <1>4, <1>5

\* Time, checks and operators leave the rows, the pass and the request alone.
LEMMA OutsideType ==
  ASSUME SlaTypeInv,
         \/ NextDay \/ DeleteMetricsBefore \/ ReadPolicy \/ SyncFails
         \/ \E d \in Days, measure \in Measures \ {"none"} : AddMetric(d, measure)
         \/ \E d \in Maintained : ChangeWindows(d)
         \/ \E new \in Policies : UpdateMonitorSLAPolicy(new)
         \/ \E t \in Targets : ChangeDefaultTarget(t) \/ UpdateMonitor(t)
  PROVE  SlaTypeInv' /\ UNCHANGED <<rows, opened, unmarked, pass>>
<1> DEFINE MetricsType == [Days -> Measures]
<1>1. /\ LastDay \in Nat /\ FirstDay \in 0 .. LastDay /\ today \in FirstDay .. LastDay
      /\ metrics \in MetricsType
  BY StartsAssumption DEF SlaTypeInv, SlaTypeOK, Days
<1>2. /\ windows \subseteq Maintained /\ target \in Targets /\ policy \in Policies
      /\ request \in Requests
  BY DEF SlaTypeInv, SlaTypeOK
<1> DEFINE Judged == /\ today' \in FirstDay .. LastDay /\ metrics' \in MetricsType
                     /\ windows' \subseteq Maintained /\ target' \in Targets
                     /\ policy' \in Policies /\ request' \in Requests
                     /\ changes' \in 0 .. MaxChanges /\ failures' \in 0 .. MaxFailures
<1>3. ASSUME Judged, UNCHANGED <<results, pass>>
      PROVE  SlaTypeInv' /\ UNCHANGED <<rows, opened, unmarked, pass>>
  <2>1. rows' = rows /\ opened' = opened /\ unmarked' = unmarked /\ pass' = pass
    BY <1>3 DEF results
  <2>2. SlaTypeOK'
    BY <1>3, <2>1 DEF SlaTypeInv, SlaTypeOK
  <2>3. PassHolds'
    BY <2>1, PeriodStays DEF SlaTypeInv, PassHolds
  <2> QED
    BY <2>1, <2>2, <2>3 DEF SlaTypeInv
<1>4. ASSUME UNCHANGED counts \/ Changes \/ Fails
      PROVE  changes' \in 0 .. MaxChanges /\ failures' \in 0 .. MaxFailures
  BY <1>4, CountsType DEF SlaTypeInv
<1> HIDE DEF MetricsType
<1>5. CASE NextDay
  <2>1. today' \in FirstDay .. LastDay
    BY <1>1, <1>5 DEF NextDay
  <2> QED
    BY <1>1, <1>2, <1>3, <1>4, <1>5, <2>1 DEF NextDay
<1>6. ASSUME metrics' \in MetricsType,
             UNCHANGED <<today, windows, target, policy, results, pass, request, counts>>
      PROVE  SlaTypeInv' /\ UNCHANGED <<rows, opened, unmarked, pass>>
  BY <1>1, <1>2, <1>3, <1>4, <1>6
<1>7. CASE DeleteMetricsBefore
  <2>1. metrics' \in MetricsType
    BY <1>1, <1>7 DEF DeleteMetricsBefore, MetricsType, Measures
  <2> QED
    BY <1>6, <1>7, <2>1 DEF DeleteMetricsBefore
<1>8. ASSUME NEW d \in Days, NEW measure \in Measures, AddMetric(d, measure)
      PROVE  SlaTypeInv' /\ UNCHANGED <<rows, opened, unmarked, pass>>
  <2>1. metrics' \in MetricsType
    BY <1>1, <1>8 DEF AddMetric, MetricsType
  <2> QED
    BY <1>6, <1>8, <2>1 DEF AddMetric
<1>9. ASSUME NEW d \in Maintained, ChangeWindows(d)
      PROVE  SlaTypeInv' /\ UNCHANGED <<rows, opened, unmarked, pass>>
  <2>1. windows' \subseteq Maintained
    BY <1>2, <1>9 DEF ChangeWindows
  <2> QED
    BY <1>1, <1>2, <1>3, <1>4, <1>9, <2>1 DEF ChangeWindows
<1>10. ASSUME NEW new \in Policies, UpdateMonitorSLAPolicy(new)
       PROVE  SlaTypeInv' /\ UNCHANGED <<rows, opened, unmarked, pass>>
  BY <1>1, <1>2, <1>3, <1>4, <1>10 DEF UpdateMonitorSLAPolicy
<1>11. ASSUME NEW t \in Targets, ChangeDefaultTarget(t)
       PROVE  SlaTypeInv' /\ UNCHANGED <<rows, opened, unmarked, pass>>
  BY <1>1, <1>2, <1>3, <1>4, <1>11 DEF ChangeDefaultTarget
<1>12. ASSUME NEW t \in Targets, UpdateMonitor(t)
       PROVE  SlaTypeInv' /\ UNCHANGED <<rows, opened, unmarked, pass>>
  <2>1. request' \in Requests
    BY <1>12, QuietType DEF UpdateMonitor, Requests
  <2> QED
    BY <1>1, <1>2, <1>3, <1>4, <1>12, <2>1 DEF UpdateMonitor
<1>13. CASE ReadPolicy
  BY <1>1, <1>2, <1>3, <1>4, <1>13, ReadPolicyType DEF ReadPolicy, judged
<1>14. CASE SyncFails
  BY <1>1, <1>2, <1>3, <1>4, <1>14, QuietType DEF SyncFails, judged
<1> QED
  BY <1>5, <1>7, <1>8, <1>9, <1>10, <1>11, <1>12, <1>13, <1>14

\* One statement for all rows.
LEMMA SyncType ==
  ASSUME SlaTypeInv, SyncSLAPeriodTarget
  PROVE  SlaTypeInv' /\ \A p \in Periods : rows'[p].created = rows[p].created
<1>1. /\ rows \in [Periods -> Rows] /\ request.target \in Targets \union {0}
      /\ UNCHANGED <<today, metrics, windows, target, policy, opened, unmarked, pass>>
      /\ UNCHANGED counts /\ request' = Quiet
  <2>1. rows \in [Periods -> Rows] /\ request.target \in Targets \union {0}
    BY DEF SlaTypeInv, SlaTypeOK, Requests
  <2>2. /\ UNCHANGED <<today, metrics, windows, target, policy, opened, unmarked, pass>>
        /\ UNCHANGED counts /\ request' = Quiet
    BY DEF SyncSLAPeriodTarget, judged
  <2> QED
    BY <2>1, <2>2
<1>2. ASSUME NEW eval \in Evaluations PROVE Synced(eval) \in Evaluations
  BY <1>1, <1>2 DEF Synced, Evaluations
<1>3. ASSUME NEW p \in Periods
      PROVE  rows'[p] \in Rows /\ rows'[p].created = rows[p].created
  <2>1. rows'[p] = IF rows[p] = NoRow THEN NoRow ELSE [rows[p] EXCEPT !.eval = Synced(@)]
    BY DEF SyncSLAPeriodTarget
  <2>2. rows[p] \in Rows /\ Synced(rows[p].eval) \in Evaluations
    BY <1>1, <1>2 DEF Rows
  <2> HIDE DEF Synced
  <2> QED
    BY <2>1, <2>2 DEF Rows
<1>4. rows' \in [Periods -> Rows]
  BY <1>3 DEF SyncSLAPeriodTarget
<1>5. request' \in Requests
  BY <1>1, QuietType
<1>6. changes' \in 0 .. MaxChanges /\ failures' \in 0 .. MaxFailures
  BY <1>1, CountsType DEF SlaTypeInv
<1>7. SlaTypeOK'
  BY <1>1, <1>3, <1>4, <1>5, <1>6 DEF SlaTypeInv, SlaTypeOK
<1>8. PassHolds'
  BY <1>1, PeriodStays DEF SlaTypeInv, PassHolds
<1> QED
  BY <1>3, <1>7, <1>8 DEF SlaTypeInv

\* The statements of the evaluator that write nothing.
LEMMA ReadingType ==
  ASSUME SlaTypeInv,
         Begin \/ ListMonitors \/ ListMonitorSLAPolicies \/ EvaluateMonitorSLAWindow
  PROVE  /\ SlaTypeInv' /\ UNCHANGED <<rows, opened, unmarked>>
         /\ pass'.pc \notin {"incident", "mark"} /\ pass.pc \notin {"incident", "mark"}
<1>1. /\ UNCHANGED <<judged, results, request, counts>>
      /\ pass \in Passes /\ today \in FirstDay .. LastDay /\ target \in Targets
      /\ policy \in Policies
  BY DEF SlaTypeInv, SlaTypeOK, Begin, ListMonitors, ListMonitorSLAPolicies,
         EvaluateMonitorSLAWindow
<1>2. ASSUME pass' \in Passes, pass'.pc \in {"list", "policies", "evaluate", "upsert"},
             pass'.left \in 1 .. Len(Kinds), pass'.day \in FirstDay .. LastDay,
             pass'.pc \in {"policies", "evaluate"} => pass'.target \in Targets,
             pass'.pc \in {"evaluate", "upsert"} => pass'.policy \in Policies
      PROVE  SlaTypeInv'
  <2>1. /\ UNCHANGED <<today, metrics, windows, target, policy, rows, opened, unmarked>>
        /\ UNCHANGED <<request, changes, failures>>
    BY <1>1 DEF judged, results, counts
  <2>2. SlaTypeOK'
    BY <1>2, <2>1 DEF SlaTypeInv, SlaTypeOK
  <2>3. PassHolds'
    BY <1>2 DEF PassHolds
  <2> QED
    BY <2>2, <2>3 DEF SlaTypeInv
<1>3. CASE Begin
  <2>1. /\ pass.pc = "idle"
        /\ pass' = [pc |-> "list", day |-> today, left |-> Len(Kinds), target |-> 0,
                    policy |-> <<>>, eval |-> NoEvaluation]
    BY <1>3 DEF Begin, Away
  <2>2. Len(Kinds) \in 1 .. Len(Kinds) /\ Len(Kinds) \in 0 .. Len(Kinds) /\ today \in Days
    BY <1>1, KindsAre, StartsAssumption DEF Days
  <2>3. pass' \in Passes
    BY <2>1, <2>2, AwayType DEF Passes
  <2> QED
    BY <1>1, <1>2, <2>1, <2>2, <2>3 DEF results
<1>4. ASSUME pass.pc # "idle"
      PROVE  pass.left \in 1 .. Len(Kinds) /\ pass.day \in FirstDay .. LastDay
  BY <1>4 DEF SlaTypeInv, PassHolds
<1>5. CASE ListMonitors
  <2>1. pass.pc = "list" /\ pass' = [pass EXCEPT !.pc = "policies", !.target = target]
    BY <1>5 DEF ListMonitors
  <2>2. /\ pass' \in Passes /\ pass'.pc = "policies" /\ pass'.target = target
        /\ pass'.left = pass.left /\ pass'.day = pass.day
    BY <1>1, <2>1 DEF Passes
  <2> QED
    BY <1>1, <1>2, <1>4, <2>1, <2>2 DEF results
<1>6. CASE ListMonitorSLAPolicies
  <2>1. /\ pass.pc = "policies" /\ pass' = [pass EXCEPT !.pc = "evaluate", !.policy = policy]
        /\ pass.target \in Targets
    BY <1>6 DEF ListMonitorSLAPolicies, SlaTypeInv, PassHolds
  <2>2. /\ pass' \in Passes /\ pass'.pc = "evaluate" /\ pass'.target = pass.target
        /\ pass'.policy = policy /\ pass'.left = pass.left /\ pass'.day = pass.day
    BY <1>1, <2>1 DEF Passes
  <2> QED
    BY <1>1, <1>2, <1>4, <2>1, <2>2 DEF results
<1>7. CASE EvaluateMonitorSLAWindow
  <2> DEFINE eval == Evaluate(Kind, pass.day, pass.target, pass.policy.min)
  <2>1. /\ pass.pc = "evaluate" /\ pass.target \in Targets /\ pass.policy \in Policies
        /\ pass' = [pass EXCEPT !.pc = "upsert", !.target = 0, !.eval = eval]
    BY <1>7 DEF EvaluateMonitorSLAWindow, SlaTypeInv, PassHolds
  <2>2. eval \in Evaluations
    <3>1. Kind \in KindNames /\ pass.day \in FirstDay .. LastDay
      BY <1>4, <2>1, PeriodType
    <3>2. PICK kind, day, goal, min : /\ kind = Kind /\ day = pass.day
                                      /\ goal = pass.target /\ min = pass.policy.min
      OBVIOUS
    <3>3. Evaluate(kind, day, goal, min) \in Evaluations
      BY <2>1, <3>1, <3>2, EvaluateType DEF SlaTypeInv
    <3> QED
      BY <3>2, <3>3
  <2> HIDE DEF eval
  <2>3. /\ pass' \in Passes /\ pass'.pc = "upsert" /\ pass'.policy = pass.policy
        /\ pass'.left = pass.left /\ pass'.day = pass.day
    BY <1>1, <2>1, <2>2 DEF Passes
  <2> QED
    BY <1>1, <1>2, <1>4, <2>1, <2>3 DEF results
<1> QED
  BY <1>3, <1>5, <1>6, <1>7

\* The statements that write, and those that fail.
LEMMA WritingType ==
  ASSUME SlaTypeInv,
         UpsertSLAPeriodResult \/ CreateIncident \/ MarkSLAPeriodIncidentCreated \/ PassFails
  PROVE  SlaTypeInv'
<1>1. /\ pass.pc # "idle" /\ pass \in Passes /\ rows \in [Periods -> Rows]
      /\ opened \in [Periods -> Nat] /\ \A p \in Periods : rows[p].created => opened[p] > 0
      /\ unmarked \in BOOLEAN
  BY DEF SlaTypeInv, SlaTypeOK, UpsertSLAPeriodResult, CreateIncident,
         MarkSLAPeriodIncidentCreated, PassFails
<1>2. Period \in Periods /\ rows[Period] \in Rows /\ opened[Period] \in Nat
  BY <1>1, PeriodType
<1>3. pass.left \in 1 .. Len(Kinds) /\ pass.day \in FirstDay .. LastDay
  BY <1>1 DEF SlaTypeInv, PassHolds
<1>4. /\ UNCHANGED <<today, metrics, windows, target, policy, request>>
      /\ changes' \in 0 .. MaxChanges /\ failures' \in 0 .. MaxFailures
  <2>1. UNCHANGED counts \/ Fails
    BY DEF UpsertSLAPeriodResult, CreateIncident, MarkSLAPeriodIncidentCreated, PassFails
  <2>2. changes' \in 0 .. MaxChanges /\ failures' \in 0 .. MaxFailures
    BY <2>1, CountsType DEF SlaTypeInv
  <2>3. UNCHANGED <<judged, request>>
    BY DEF UpsertSLAPeriodResult, CreateIncident, MarkSLAPeriodIncidentCreated, PassFails
  <2> QED
    BY <2>2, <2>3 DEF judged
<1>5. ASSUME pass' \in Passes, PassHolds', rows' \in [Periods -> Rows],
             opened' \in [Periods -> Nat], \A p \in Periods : rows'[p].created => opened'[p] > 0,
             unmarked' \in BOOLEAN
      PROVE  SlaTypeInv'
  BY <1>4, <1>5 DEF SlaTypeInv, SlaTypeOK
<1>6. ASSUME pass' \in {Onward, Away}
      PROVE  pass' \in Passes /\ PassHolds'
  <2>1. /\ pass' \in Passes /\ pass'.pc \in {"idle", "list"}
        /\ pass'.pc # "idle" => pass'.left \in 1 .. Len(Kinds) /\ pass'.day \in FirstDay .. LastDay
    BY <1>1, <1>6, OnwardType, AwayType
  <2> QED
    BY <2>1 DEF PassHolds
<1>7. ASSUME NEW pc \in {"incident", "mark"},
             pass' = [Away EXCEPT !.pc = pc, !.day = pass.day, !.left = pass.left]
      PROVE  /\ pass' \in Passes /\ pass'.pc = pc /\ Period' = Period
             /\ pass'.left \in 1 .. Len(Kinds) /\ pass'.day \in FirstDay .. LastDay
  <2>1. pass' = [pc |-> pc, day |-> pass.day, left |-> pass.left, target |-> 0,
                 policy |-> <<>>, eval |-> NoEvaluation]
    BY <1>7 DEF Away
  <2>2. pass.day \in Days /\ pass.left \in 0 .. Len(Kinds)
    BY <1>1 DEF Passes
  <2>3. pass' \in Passes
    BY <2>1, <2>2, AwayType DEF Passes
  <2> QED
    BY <1>3, <2>1, <2>3, PeriodStays
<1>8. CASE UpsertSLAPeriodResult
  <2> DEFINE row == Upserted(rows[Period], pass.eval)
  <2>1. row \in Rows /\ row.created = rows[Period].created
    BY <1>1, <1>2 DEF Upserted, Rows, Passes
  <2>2. rows' = [rows EXCEPT ![Period] = row] /\ opened' = opened /\ unmarked' = unmarked
    BY <1>8 DEF UpsertSLAPeriodResult
  <2>3. \/ pass' = [Away EXCEPT !.pc = "incident", !.day = pass.day, !.left = pass.left]
        \/ pass' = Onward
    BY <1>8 DEF UpsertSLAPeriodResult
  <2>4. pass' \in Passes /\ PassHolds'
    BY <1>6, <1>7, <2>3 DEF PassHolds
  <2> HIDE DEF row
  <2>5. rows' \in [Periods -> Rows] /\ \A p \in Periods : rows'[p].created => opened'[p] > 0
    BY <1>1, <1>2, <2>1, <2>2
  <2> QED
    BY <1>1, <1>5, <2>2, <2>4, <2>5
<1>9. CASE CreateIncident
  <2>1. /\ opened' = [opened EXCEPT ![Period] = @ + 1] /\ rows' = rows /\ unmarked' = unmarked
        /\ pass' = [Away EXCEPT !.pc = "mark", !.day = pass.day, !.left = pass.left]
    BY <1>9 DEF CreateIncident
  <2>2. opened' \in [Periods -> Nat] /\ \A p \in Periods : opened'[p] >= opened[p]
    BY <1>1, <1>2, <2>1
  <2>3. opened'[Period] > 0
    BY <1>1, <1>2, <2>1
  <2>4. pass' \in Passes /\ PassHolds'
    BY <1>7, <2>1, <2>3 DEF PassHolds
  <2>5. \A p \in Periods : rows'[p].created => opened'[p] > 0
    BY <1>1, <2>1, <2>2
  <2> QED
    BY <1>1, <1>5, <2>1, <2>2, <2>4, <2>5
<1>10. CASE MarkSLAPeriodIncidentCreated
  <2>1. /\ rows' = [rows EXCEPT ![Period].created = TRUE] /\ pass' = Onward
        /\ opened' = opened /\ unmarked' = unmarked /\ opened[Period] > 0
    BY <1>10 DEF MarkSLAPeriodIncidentCreated, SlaTypeInv, PassHolds
  <2>2. rows' \in [Periods -> Rows]
    BY <1>1, <1>2, <2>1 DEF Rows
  <2>3. \A p \in Periods : rows'[p].created => opened'[p] > 0
    BY <1>1, <2>1
  <2> QED
    BY <1>1, <1>5, <1>6, <2>1, <2>2, <2>3
<1>11. CASE PassFails
  BY <1>1, <1>5, <1>6, <1>11 DEF PassFails
<1> QED
  BY <1>8, <1>9, <1>10, <1>11

LEMMA SlaStepType == SlaTypeInv /\ [SlaNext]_slaVars => SlaTypeInv'
<1> SUFFICES ASSUME SlaTypeInv, [SlaNext]_slaVars PROVE SlaTypeInv'
  OBVIOUS
<1>1. CASE UNCHANGED slaVars
  <2>1. UNCHANGED <<pass, opened>> /\ Period' = Period
    BY <1>1, PeriodStays DEF slaVars
  <2> QED
    BY <1>1, <2>1 DEF slaVars, SlaTypeInv, SlaTypeOK, PassHolds
<1>2. CASE SlaNext
  BY <1>2, OutsideType, SyncType, ReadingType, WritingType DEF SlaNext, PassStep
<1> QED
  BY <1>1, <1>2

\* What the evaluator, the requests and the checks write is what their columns hold, and a
\* row is only marked when an incident was opened for it (sla.go).
THEOREM SlaTypeCorrect == SlaSpec => []SlaTypeOK
<1>1. SlaTypeInv => SlaTypeOK
  BY DEF SlaTypeInv
<1> QED
  BY <1>1, SlaInitType, SlaStepType, PTL DEF SlaSpec

-----------------------------------------------------------------------------
(***************************************************************************)
(* One incident for each period.                                           *)
(***************************************************************************)
LEMMA SlaInitIncident == SlaInit => SlaIncidentInv
BY DEF SlaInit, SlaIncidentInv, Away

LEMMA SlaStepIncident ==
  ASSUME SlaTypeInv, SlaIncidentInv, [SlaNext]_slaVars
  PROVE  SlaIncidentInv'
<1>1. ASSUME UNCHANGED <<opened, unmarked, pass>>,
             \A p \in Periods : rows'[p].created = rows[p].created
      PROVE  SlaIncidentInv'
  <2>1. Period' = Period /\ (pass.pc = "incident" => Period \in Periods)
    BY <1>1, PeriodStays, PeriodType
  <2> QED
    BY <1>1, <2>1 DEF SlaIncidentInv
<1>2. ASSUME UNCHANGED <<rows, opened>>, unmarked' = (unmarked \/ pass.pc = "mark"),
             pass'.pc \notin {"incident", "mark"}
      PROVE  SlaIncidentInv'
  BY <1>2 DEF SlaIncidentInv
<1>3. CASE UNCHANGED slaVars
  BY <1>1, <1>3 DEF slaVars
<1>4. ASSUME \/ NextDay \/ DeleteMetricsBefore \/ ReadPolicy \/ SyncFails
             \/ \E d \in Days, measure \in Measures \ {"none"} : AddMetric(d, measure)
             \/ \E d \in Maintained : ChangeWindows(d)
             \/ \E new \in Policies : UpdateMonitorSLAPolicy(new)
             \/ \E t \in Targets : ChangeDefaultTarget(t) \/ UpdateMonitor(t)
      PROVE  SlaIncidentInv'
  BY <1>1, <1>4, OutsideType
<1>5. CASE SyncSLAPeriodTarget
  <2>1. UNCHANGED <<opened, unmarked, pass>>
    BY <1>5 DEF SyncSLAPeriodTarget
  <2> QED
    BY <1>1, <1>5, <2>1, SyncType
<1>6. CASE Begin \/ ListMonitors \/ ListMonitorSLAPolicies \/ EvaluateMonitorSLAWindow
  <2>1. unmarked \in BOOLEAN
    BY DEF SlaTypeInv, SlaTypeOK
  <2> QED
    BY <1>2, <1>6, <2>1, ReadingType
<1>7. ASSUME pass.pc # "idle"
      PROVE  /\ Period \in Periods /\ rows \in [Periods -> Rows] /\ opened \in [Periods -> Nat]
             /\ unmarked \in BOOLEAN
             /\ Onward.pc \in {"idle", "list"}
             /\ rows[Period] \in Rows /\ opened[Period] \in Nat
  <2>1. Period \in Periods
    BY <1>7, PeriodType
  <2> QED
    BY <1>7, <2>1, OnwardType DEF SlaTypeInv, SlaTypeOK
<1>8. ASSUME NEW pc, pass' = [Away EXCEPT !.pc = pc, !.day = pass.day, !.left = pass.left]
      PROVE  pass'.pc = pc /\ Period' = Period
  <2>1. pass'.pc = pc /\ pass'.day = pass.day /\ pass'.left = pass.left
    BY <1>8 DEF Away
  <2> QED
    BY <2>1, PeriodStays
<1>9. CASE UpsertSLAPeriodResult
  <2> DEFINE row == Upserted(rows[Period], pass.eval)
  <2>1. /\ pass.pc = "upsert" /\ rows' = [rows EXCEPT ![Period] = row]
        /\ opened' = opened /\ unmarked' = unmarked
    BY <1>9 DEF UpsertSLAPeriodResult
  <2>2. row.created = rows[Period].created
    BY <1>7, <2>1 DEF Upserted, Rows
  <2>3. \A p \in Periods : rows'[p].created = rows[p].created
    BY <1>7, <2>1, <2>2
  <2>4. ~unmarked' => \A p \in Periods : opened'[p] <= 1 /\ (opened'[p] = 1 => rows'[p].created)
    BY <2>1, <2>3 DEF SlaIncidentInv
  <2>5. CASE NeedsIncident(row)
    <3>1. pass' = [Away EXCEPT !.pc = "incident", !.day = pass.day, !.left = pass.left]
      BY <1>9, <2>5 DEF UpsertSLAPeriodResult
    <3>2. ~rows'[Period'].created
      BY <1>7, <1>8, <2>1, <2>2, <2>3, <2>5, <3>1 DEF NeedsIncident
    <3> QED
      BY <2>4, <3>2 DEF SlaIncidentInv
  <2>6. CASE ~NeedsIncident(row)
    <3>1. pass'.pc \in {"idle", "list"}
      BY <1>7, <1>9, <2>1, <2>6 DEF UpsertSLAPeriodResult
    <3> QED
      BY <2>4, <3>1 DEF SlaIncidentInv
  <2> QED
    BY <2>5, <2>6
<1>10. CASE CreateIncident
  <2>1. /\ pass.pc = "incident" /\ opened' = [opened EXCEPT ![Period] = @ + 1]
        /\ rows' = rows /\ unmarked' = unmarked
        /\ pass' = [Away EXCEPT !.pc = "mark", !.day = pass.day, !.left = pass.left]
    BY <1>10 DEF CreateIncident
  <2>2. pass'.pc = "mark" /\ Period' = Period /\ ~rows[Period].created
    BY <1>8, <2>1 DEF SlaIncidentInv
  <2>3. ASSUME ~unmarked', NEW p \in Periods
        PROVE  /\ opened'[p] <= 1
               /\ opened'[p] = 1 => rows'[p].created \/ p = Period
    <3>1. opened[p] <= 1 /\ (opened[p] = 1 => rows[p].created) /\ opened[p] \in Nat
      BY <1>7, <2>1, <2>3 DEF SlaIncidentInv
    <3>2. CASE p = Period
      <4>1. opened'[p] = opened[p] + 1 /\ opened[p] = 0
        BY <1>7, <2>1, <2>2, <3>1, <3>2
      <4> QED
        BY <3>2, <4>1
    <3>3. CASE p # Period
      BY <1>7, <2>1, <3>1, <3>3
    <3> QED
      BY <3>2, <3>3
  <2> QED
    BY <2>2, <2>3 DEF SlaIncidentInv
<1>11. CASE MarkSLAPeriodIncidentCreated
  <2>1. /\ pass.pc = "mark" /\ rows' = [rows EXCEPT ![Period].created = TRUE] /\ pass' = Onward
        /\ opened' = opened /\ unmarked' = unmarked
    BY <1>11 DEF MarkSLAPeriodIncidentCreated
  <2>2. pass'.pc \in {"idle", "list"}
    BY <1>7, <2>1
  <2>3. \A p \in Periods : rows'[p].created = IF p = Period THEN TRUE ELSE rows[p].created
    BY <1>7, <2>1 DEF Rows
  <2> QED
    BY <2>1, <2>2, <2>3 DEF SlaIncidentInv
<1>12. CASE PassFails
  <2>1. /\ pass.pc # "idle" /\ pass' \in {Onward, Away} /\ UNCHANGED <<rows, opened>>
        /\ unmarked' = (unmarked \/ pass.pc = "mark")
    BY <1>12 DEF PassFails
  <2>2. pass'.pc \in {"idle", "list"}
    BY <1>7, <2>1, AwayType
  <2> QED
    BY <1>2, <2>1, <2>2
<1> QED
  BY <1>3, <1>4, <1>5, <1>6, <1>9, <1>10, <1>11, <1>12 DEF SlaNext, PassStep

\* A closed period has one incident, however often it is judged and its target and policy
\* change, unless its row could not be marked (createSLAIncidentIfNeeded).
THEOREM IncidentPerPeriod == SlaSpec => []OneIncidentEach
<1>1. SlaIncidentInv => OneIncidentEach
  BY DEF SlaIncidentInv, OneIncidentEach
<1> QED
  BY <1>1, SlaInitType, SlaStepType, SlaInitIncident, SlaStepIncident, PTL DEF SlaSpec
=============================================================================
