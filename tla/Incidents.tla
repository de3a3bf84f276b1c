------------------------------ MODULE Incidents ------------------------------
(***************************************************************************)
(* One incident, its stages and their contents, under requests that read,  *)
(* check and write in statements of their own (api/handlers and            *)
(* core/store).                                                            *)
(*                                                                         *)
(* The rows carry versions.  An update names the version that its client   *)
(* has seen, and is refused when the row has another; closing, deleting,   *)
(* restoring and completing name none, but count it on.                    *)
(*                                                                         *)
(* Of the row's columns the model keeps what closing asks for: whether the *)
(* severity is high, the postmortem and the outcome.  The overview stage,  *)
(* which is never deleted and never asked for, the lists of people, links  *)
(* and files, the timeline, and who may do what are left out.              *)
(***************************************************************************)
EXTENDS Integers

CONSTANTS Requests,   \* in progress at a time
          Stages,     \* ids of the stages but the overview
          MaxVersion, \* bound: version of the incident
          MaxStageVersion \* bound: version of a stage, and of its content

ASSUME MaxVersionAssumption == MaxVersion \in Nat \ {0} /\ MaxStageVersion \in Nat \ {0}

VARIABLES row,      \* the incident
          stages,   \* its stages
          entries,  \* their contents
          req       \* what each request has read, and does next

vars == <<row, stages, entries, req>>

Rows == [ver : 1 .. MaxVersion, closed : BOOLEAN, deleted : BOOLEAN,
         severe : BOOLEAN, postmortem : BOOLEAN, outcome : BOOLEAN]
StageRows == [is : {"none", "open", "done", "gone"}, ver : 0 .. MaxStageVersion]
\* Another stage's content; a closure stage's: without decisions, with some, with one that
\* has a known outcome.
Contents == {"other", "closure", "decided", "outcome"}
EntryRows == [content : Contents, ver : 0 .. MaxStageVersion]   \* version 0: there is no row

NoStage == [is |-> "none", ver |-> 0]
NoEntry == [content |-> "other", ver |-> 0]

Idle == "idle"
Checked == {"update", "postmortem", "outcome"}   \* about to write the incident by its version
Steps == Checked \union {"list", "entry", "close", "delete", "restore", "stage", "insert",
                         "insert entry", "rename", "content", "remove", "complete", Idle}
None == "none"
Reqs == [at : Steps, copy : Rows, expected : Nat,
         stage : Stages \union {None}, done : SUBSET Stages, then : Steps]

TypeOK ==
  /\ row \in Rows
  /\ stages \in [Stages -> StageRows]
  /\ entries \in [Stages -> EntryRows]
  /\ req \in [Requests -> Reqs]

\* CreateIncident; the severity is any.
New == [ver |-> 1, closed |-> FALSE, deleted |-> FALSE,
        severe |-> FALSE, postmortem |-> FALSE, outcome |-> FALSE]
IdleReq == [at |-> Idle, copy |-> New, expected |-> 0, stage |-> None, done |-> {}, then |-> Idle]

Init ==
  /\ row \in {[New EXCEPT !.severe = severe] : severe \in BOOLEAN}
  /\ stages = [s \in Stages |-> NoStage]
  /\ entries = [s \in Stages |-> NoEntry]
  /\ req = [r \in Requests |-> IdleReq]

-----------------------------------------------------------------------------
End(r) == req' = [req EXCEPT ![r] = IdleReq]
Go(r, at) == req' = [req EXCEPT ![r].at = at]
Rest == UNCHANGED <<stages, entries>>

\* getIncidentWithACL, for what changes the incident.
Open == ~row.closed

\* Update and SavePostmortem read the row; the client has seen the version it names before,
\* and SavePostmortem without one names that of the row.
ReadIncident(r, at) ==
  /\ req[r].at = Idle /\ Open
  /\ \E expected \in 1 .. row.ver :
       req' = [req EXCEPT ![r] = [IdleReq EXCEPT !.at = at, !.copy = row, !.expected = expected]]
  /\ UNCHANGED row /\ Rest

\* What each makes of its copy: Update replaces the fields its client names, and meta, which
\* holds the other two; CloseIncident puts the outcome into meta.
Edits(at, copy) ==
  [ver : {copy.ver}, closed : {copy.closed}, deleted : {copy.deleted},
   severe : IF at = "update" THEN BOOLEAN ELSE {copy.severe},
   postmortem : IF at = "outcome" THEN {copy.postmortem} ELSE BOOLEAN,
   outcome : CASE at = "update" -> BOOLEAN
               [] at = "postmortem" -> {copy.outcome}
               [] at = "outcome" -> {TRUE}]

\* UpdateIncident writes every column but the two that say when it was closed and deleted.
UpdateIncident(r) ==
  /\ req[r].at \in Checked
  /\ req[r].expected = row.ver /\ row.ver < MaxVersion
  /\ \E new \in Edits(req[r].at, req[r].copy) :
       row' = [new EXCEPT !.ver = row.ver + 1, !.deleted = row.deleted]
  /\ IF req[r].at = "outcome" THEN Go(r, "close") ELSE End(r)
  /\ Rest

Conflict(r) ==
  /\ req[r].at \in Checked
  /\ req[r].expected # row.ver
  /\ End(r) /\ UNCHANGED row /\ Rest

-----------------------------------------------------------------------------
\* CloseIncident: the incident, its stages and the content of the closure stage are read one
\* after the other.
ReadForClose(r) ==
  /\ req[r].at = Idle /\ Open
  /\ req' = [req EXCEPT ![r] = [IdleReq EXCEPT !.at = "list", !.copy = row, !.expected = row.ver]]
  /\ UNCHANGED row /\ Rest

ListStages(r) ==
  /\ req[r].at = "list"
  /\ req' = [req EXCEPT ![r].at = "entry",
                        ![r].done = {s \in Stages : stages[s].is = "done"}]
  /\ UNCHANGED row /\ Rest

\* A stage that was done when listed, and has a decision when its content is read.
ReadEntry(r) ==
  /\ req[r].at = "entry"
  /\ req[r].copy.severe => req[r].copy.postmortem
  /\ \E s \in req[r].done :
       /\ entries[s].content \in {"decided", "outcome"}
       /\ Go(r, IF entries[s].content = "outcome" THEN "outcome" ELSE "close")
  /\ UNCHANGED row /\ Rest

\* Fault injected: the version stays.
CloseUncounted == /\ ~row.deleted /\ ~row.closed
                  /\ row' = [row EXCEPT !.closed = TRUE]
\* Fault injected: the version is counted on twice.
CloseCountedTwice == /\ ~row.deleted /\ ~row.closed /\ row.ver < MaxVersion
                     /\ row' = [row EXCEPT !.closed = TRUE, !.ver = @ + 2]
\* CloseIncident of the store.
Close == /\ ~row.deleted /\ ~row.closed /\ row.ver < MaxVersion
         /\ row' = [row EXCEPT !.closed = TRUE, !.ver = @ + 1]

CloseIncident(r) ==
  /\ req[r].at = "close"
  /\ Close \/ ((row.deleted \/ row.closed) /\ UNCHANGED row)
  /\ End(r) /\ Rest

\* resolveAuthLockoutIncident closes the incident that it finds for the unlocked account.
CloseBySource == Close /\ UNCHANGED <<stages, entries, req>>

ReadForDelete(r) ==
  /\ req[r].at = Idle /\ ~row.deleted
  /\ req' = [req EXCEPT ![r] = [IdleReq EXCEPT !.at = "delete"]]
  /\ UNCHANGED row /\ Rest

\* Cleanup lists the incidents, and deletes one after the other those of its scope.
Cleanup(r, scope) ==
  /\ scope = "open" => ~row.closed
  /\ scope = "completed" => row.closed
  /\ ReadForDelete(r)

\* Fault injected: the version stays.
DeleteUncounted(r) ==
  /\ req[r].at = "delete"
  /\ row' = IF row.deleted THEN row ELSE [row EXCEPT !.deleted = TRUE]
  /\ End(r) /\ Rest
SoftDelete(r) ==
  /\ req[r].at = "delete"
  /\ IF row.deleted THEN UNCHANGED row
     ELSE row.ver < MaxVersion /\ row' = [row EXCEPT !.deleted = TRUE, !.ver = @ + 1]
  /\ End(r) /\ Rest

\* Restore reads the row for who may see it only.
Restore(r) ==
  /\ req[r].at = Idle /\ row.deleted /\ row.ver < MaxVersion
  /\ row' = [row EXCEPT !.deleted = FALSE, !.ver = @ + 1]
  /\ UNCHANGED req /\ Rest

-----------------------------------------------------------------------------
\* The handlers of stages read the incident, and then the stage.
ReadForStage(r, s, then) ==
  /\ req[r].at = Idle /\ Open
  /\ req' = [req EXCEPT ![r] = [IdleReq EXCEPT !.at = IF then = "insert" THEN then ELSE "stage",
                                               !.stage = s, !.then = then]]
  /\ UNCHANGED row /\ Rest

\* The client names the version of the stage, or of its content, that it has seen.
Seen(s, then) == CASE then = "rename" -> 1 .. stages[s].ver
                   [] then = "content" -> {1} \union 1 .. entries[s].ver
                   [] OTHER -> {0}

ReadStage(r) ==
  LET s == req[r].stage
      then == req[r].then IN
  /\ req[r].at = "stage"
  /\ stages[s].is = "open"
  /\ \E expected \in Seen(s, then) :
       req' = [req EXCEPT ![r].at = then, ![r].expected = expected]
  /\ UNCHANGED row /\ Rest

InsertStage(r) ==
  /\ req[r].at = "insert"
  /\ stages[req[r].stage] = NoStage
  /\ stages' = [stages EXCEPT ![req[r].stage] = [is |-> "open", ver |-> 1]]
  /\ Go(r, "insert entry") /\ UNCHANGED <<row, entries>>

InsertEntry(r) ==
  /\ req[r].at = "insert entry"
  /\ entries' = IF stages[req[r].stage].is = "gone" THEN entries
                ELSE [entries EXCEPT ![req[r].stage].ver = 1]
  /\ End(r) /\ UNCHANGED <<row, stages>>

UpdateStage(r) ==
  LET s == req[r].stage IN
  /\ req[r].at = "rename"
  /\ IF stages[s].is # "gone" /\ stages[s].ver = req[r].expected
     THEN stages[s].ver < MaxStageVersion /\ stages' = [stages EXCEPT ![s].ver = @ + 1]
     ELSE UNCHANGED stages
  /\ End(r) /\ UNCHANGED <<row, entries>>

UpdateStageContent(r) ==
  LET s == req[r].stage IN
  /\ req[r].at = "content"
  /\ IF entries[s].ver = req[r].expected
     THEN /\ entries[s].ver < MaxStageVersion
          /\ \E content \in Contents :
               entries' = [entries EXCEPT ![s] = [content |-> content, ver |-> @.ver + 1]]
     ELSE UNCHANGED entries
  /\ End(r) /\ UNCHANGED <<row, stages>>

\* The content goes with the stage.
DeleteStage(r) ==
  LET s == req[r].stage IN
  /\ req[r].at = "remove"
  /\ stages' = [stages EXCEPT ![s] = [is |-> "gone", ver |-> 0]]
  /\ entries' = [entries EXCEPT ![s] = NoEntry]
  /\ End(r) /\ UNCHANGED row

\* Fault injected: the version stays.
CompleteUncounted(r) ==
  LET s == req[r].stage IN
  /\ req[r].at = "complete"
  /\ stages' = IF stages[s].is = "open" THEN [stages EXCEPT ![s].is = "done"] ELSE stages
  /\ End(r) /\ UNCHANGED <<row, entries>>
CompleteStage(r) ==
  LET s == req[r].stage IN
  /\ req[r].at = "complete"
  /\ IF stages[s].is = "open"
     THEN /\ stages[s].ver < MaxStageVersion
          /\ stages' = [stages EXCEPT ![s] = [is |-> "done", ver |-> @.ver + 1]]
     ELSE UNCHANGED stages
  /\ End(r) /\ UNCHANGED <<row, entries>>

\* A check refuses the request, a statement fails, or the client is gone.
Fails(r) == req[r].at # Idle /\ End(r) /\ UNCHANGED row /\ Rest

-----------------------------------------------------------------------------
Incident(r) ==
  \/ ReadIncident(r, "update") \/ ReadIncident(r, "postmortem") \/ UpdateIncident(r) \/ Conflict(r)
  \/ ReadForClose(r) \/ ListStages(r) \/ ReadEntry(r) \/ CloseIncident(r)
  \/ ReadForDelete(r) \/ SoftDelete(r) \/ Restore(r)
  \/ \E scope \in {"all", "open", "completed"} : Cleanup(r, scope)
  \/ Fails(r)

StageOf(r) ==
  \/ \E s \in Stages, then \in {"insert", "rename", "content", "remove", "complete"} :
       ReadForStage(r, s, then)
  \/ ReadStage(r) \/ InsertStage(r) \/ InsertEntry(r)
  \/ UpdateStage(r) \/ UpdateStageContent(r) \/ DeleteStage(r) \/ CompleteStage(r)

Next == CloseBySource \/ \E r \in Requests : Incident(r) \/ StageOf(r)

Spec == Init /\ [][Next]_vars

-----------------------------------------------------------------------------
\* A write that its version lets through replaces what its request has read: nobody's update
\* is lost, whichever of the requests that name no version came between.
NoLostUpdate ==
  \A r \in Requests :
    req[r].at \in Checked /\ req[r].expected = row.ver => req[r].copy = row

\* A closed incident is read-only, for the requests too that read it while it was open: it can
\* be deleted and restored, and nothing else.
ClosedIsFinal ==
  [][row.closed => row' = [row EXCEPT !.deleted = row'.deleted, !.ver = row'.ver]]_vars

\* A completed stage keeps its title and place until it is deleted.
DoneIsFinal ==
  [][\A s \in Stages : stages[s].is = "done" => stages'[s].is = "gone" \/ stages'[s] = stages[s]]_vars
=============================================================================
