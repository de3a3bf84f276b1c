------------------------------ MODULE Documents ------------------------------
(***************************************************************************)
(* One document: its row in docs, the rows of its versions, the files that *)
(* hold their contents, and its approvals (core/docs, core/store,          *)
(* api/handlers).                                                          *)
(*                                                                         *)
(* Every handler reads the document first, decides, works on files and     *)
(* other tables, and writes the whole row back, status and current version *)
(* included, from the copy it read: nothing holds the row in between.  A   *)
(* version's file is written before its row, under the number that the     *)
(* copy says is next.  A decision reads the approval, its participants and *)
(* the document at three moments.  An action is a statement, a file        *)
(* operation, or a run of them that no other request can tell apart.       *)
(*                                                                         *)
(* Abstractions.  The permissions, the title, the classification, the      *)
(* folder and the search index are left out, so is who comments or watches *)
(* an approval; encryption is not: what LoadContent returns has the        *)
(* checksums of the row, or it returns nothing.                            *)
(***************************************************************************)
EXTENDS Integers, FiniteSets

CONSTANTS Requests,      \* requests in progress at the same time
          Handlers,      \* what they may ask for, besides creating the document
          Contents,      \* what a document can say
          Approvers,     \* users who are asked to approve
          MaxStage,      \* stages of an approval
          Plans,         \* whom an approval can ask, at which stage
          Watched,       \* an approval, to compare with Approval
          Limit,         \* docs.version_limit, 0 for none
          MaxVersion,    \* bound: versions saved
          MaxApprovals,  \* bound: approvals started
          MaxTokens      \* bound: forced saves waiting

ASSUME StageAssumption == MaxStage \in Nat
ASSUME PlansAssumption == Plans \subseteq (SUBSET (Approvers \X (1 .. MaxStage))) \ {{}}
ASSUME WatchedAssumption == Watched \in 1 .. MaxApprovals
ASSUME LimitAssumption == Limit \in Nat
ASSUME BoundsAssumption == MaxVersion \in Nat \ {0} /\ MaxApprovals \in Nat /\ MaxTokens \in Nat
ASSUME NoneAssumption == "none" \notin Contents

VARIABLES doc,        \* the row of docs
          deleted,    \* docs.deleted_at, which UpdateDocument leaves alone
          versions,   \* doc_versions: what each version says, "none" if there is no row
          files,      \* <number>.enc: what each file says, "none" if there is none
          approvals,  \* approvals and approval_participants
          given,      \* history: the approvals ever given to each
          tokens,     \* officeSaves: forced saves asked for at each version
          request     \* the requests

docvars == <<doc, deleted, versions, files>>
apvars == <<approvals, given>>
vars == <<doc, deleted, versions, files, approvals, given, tokens, request>>

Numbers == 1 .. MaxVersion
Ids == 1 .. MaxApprovals
Stages == 1 .. MaxStage
Pairs == Approvers \X Stages
Statuses == {"draft", "review", "returned", "approved", "deleted"}

Rows == [ver : 0 .. MaxVersion, status : Statuses]

\* CreateDocument inserts the row, with its number, before anything is saved.
NewDocument == [ver |-> 0, status |-> "draft"]

\* "yes" and "no": whose decision is recorded.
Approvals == [status : {"none", "review", "returned", "approved", "gone"}, stage : 0 .. MaxStage,
              asked : SUBSET Pairs, yes : SUBSET Pairs, no : SUBSET Pairs]
NoApproval == [status |-> "none", stage |-> 0, asked |-> {}, yes |-> {}, no |-> {}]

Savers == {"create", "edit", "import", "restore", "office"}
Kinds == Savers \union {"classify", "start", "decide", "delete"}
Steps == {"idle", "load", "redraft", "write", "insert", "list", "drop", "unlink", "update",
          "ask", "parts", "save", "reread", "settle", "rmdir"}

\* "n" is the version to restore, the one the editor has, the oldest one, or the approval;
\* "ap" is what a decision has read of its approval.
RequestRecord == [kind : Kinds \union {"none"}, pc : Steps, copy : Rows,
                  n : 0 .. MaxVersion \union Ids, content : Contents \union {"none"},
                  pair : Pairs \union {<<>>}, ap : Approvals]
Idle == [kind |-> "none", pc |-> "idle", copy |-> NewDocument, n |-> 0,
         content |-> "none", pair |-> <<>>, ap |-> NoApproval]

TypeOK ==
  /\ doc \in Rows
  /\ deleted \in BOOLEAN
  /\ versions \in [Numbers -> Contents \union {"none"}]
  /\ files \in [Numbers -> Contents \union {"none"}]
  /\ approvals \in [Ids -> Approvals]
  /\ given \in [Ids -> SUBSET Pairs]
  /\ tokens \in [Numbers -> 0 .. MaxTokens]
  /\ request \in [Requests -> RequestRecord]

\* The row is there, and its creator is about to save version 1.
Init ==
  /\ doc = NewDocument
  /\ deleted = FALSE
  /\ versions = [v \in Numbers |-> "none"]
  /\ files = [v \in Numbers |-> "none"]
  /\ approvals = [i \in Ids |-> NoApproval]
  /\ given = [i \in Ids |-> {}]
  /\ tokens = [v \in Numbers |-> 0]
  /\ \E creator \in Requests, c \in Contents :
       request = [q \in Requests |->
                    IF q = creator
                    THEN [Idle EXCEPT !.kind = "create", !.pc = "write", !.content = c]
                    ELSE Idle]

-----------------------------------------------------------------------------
(***************************************************************************)
(* What the handlers share.                                                *)
(***************************************************************************)
\* GetDocument also finds deleted documents.
GetDocument == doc

Begin(q, kind, pc) ==
  /\ request[q].pc = "idle" /\ kind \in Handlers
  /\ request' = [request EXCEPT ![q] = [Idle EXCEPT !.kind = kind, !.pc = pc,
                                                    !.copy = GetDocument]]

\* A handler that begins with something to save.
BeginSave(q, kind, pc, n, c) ==
  /\ request[q].pc = "idle" /\ kind \in Handlers
  /\ doc.ver < MaxVersion
  /\ request' = [request EXCEPT ![q] = [Idle EXCEPT !.kind = kind, !.pc = pc,
                                                    !.copy = GetDocument,
                                                    !.n = n, !.content = c]]

At(q, pc) == request[q].pc = pc
Goto(q, pc) == request' = [request EXCEPT ![q].pc = pc]
End(q) == request' = [request EXCEPT ![q] = Idle]
NextVersion(q) == request[q].copy.ver + 1

\* Fault injected: the checksums are not compared.
LoadUnchecked(stored, file) == file
\* LoadContent: the file must have the checksums of the row, as read.
LoadContent(stored, file) == IF file = stored THEN file ELSE "none"

\* UpdateDocument writes the copy, all of it; deleted_at is another column.
UpdateDocument(q) == doc' = request[q].copy

-----------------------------------------------------------------------------
(***************************************************************************)
(* Saving a version.                                                       *)
(***************************************************************************)
UpdateContent(q, c) ==
  /\ BeginSave(q, "edit", "write", 0, c)
  /\ UNCHANGED <<docvars, apvars, tokens>>

\* Importing under the title of a document makes it a draft first; FindDocumentByTitle
\* does not find deleted ones.
ImportCommit(q, c) ==
  /\ ~deleted
  /\ BeginSave(q, "import", "redraft", 0, c)
  /\ UNCHANGED <<docvars, apvars, tokens>>

ImportRedraft(q) ==
  /\ At(q, "redraft")
  /\ doc' = [request[q].copy EXCEPT !.status = "draft"]
  /\ request' = [request EXCEPT ![q].pc = "write", ![q].copy.status = "draft"]
  /\ UNCHANGED <<deleted, versions, files, apvars, tokens>>

\* RestoreVersion reads the row of the version, then its file.
RestoreVersion(q, v) ==
  /\ versions[v] # "none"
  /\ BeginSave(q, "restore", "load", v, versions[v])
  /\ UNCHANGED <<docvars, apvars, tokens>>

RestoreLoad(q) ==
  /\ At(q, "load") /\ request[q].kind = "restore"
  /\ LET loaded == LoadContent(request[q].content, files[request[q].n]) IN
       IF loaded = "none" THEN End(q)
       ELSE request' = [request EXCEPT ![q].pc = "write", ![q].content = loaded]
  /\ UNCHANGED <<docvars, apvars, tokens>>

\* OnlyOfficeForceSave, of an editor that was opened at this version.
ForceSave(v) ==
  /\ "office" \in Handlers
  /\ v = doc.ver
  /\ versions[v] # "none"
  /\ tokens[v] < MaxTokens
  /\ tokens' = [tokens EXCEPT ![v] = @ + 1]
  /\ UNCHANGED <<docvars, apvars, request>>

\* Fault injected: a token that was used is accepted again.
ConsumeAlways(v) == tokens' = [tokens EXCEPT ![v] = @ - 1]
\* consumeOnlyOfficePendingSave: a token is used once, or expires, or is found to belong
\* to another version or user.
Consume(v) ==
  /\ tokens[v] > 0
  /\ tokens' = [tokens EXCEPT ![v] = @ - 1]

LoseToken(v) ==
  /\ Consume(v)
  /\ UNCHANGED <<docvars, apvars, request>>

\* Fault injected: the version of the editor is not compared with the document's.
OfficeCallbackAnyVersion(q, v, c) ==
  /\ doc.ver # 0 /\ Consume(v)
  /\ BeginSave(q, "office", "load", v, c)
  /\ UNCHANGED <<docvars, apvars>>

\* OnlyOfficeCallback: "The document has already advanced to a newer version; ignore
\* stale callback."
OfficeCallback(q, v, c) ==
  /\ Consume(v)
  /\ IF doc.ver = v THEN BeginSave(q, "office", "load", v, c) ELSE UNCHANGED request
  /\ UNCHANGED <<docvars, apvars>>

\* A content that is the current one is not saved again.
OfficeCompare(q) ==
  /\ At(q, "load") /\ request[q].kind = "office"
  /\ LET v == request[q].copy.ver IN
       IF LoadContent(versions[v], files[v]) = request[q].content THEN End(q)
       ELSE Goto(q, "write")
  /\ UNCHANGED <<docvars, apvars, tokens>>

\* SaveVersion: the file first, over one that is there.
WriteFile(q) ==
  /\ At(q, "write")
  /\ files' = [files EXCEPT ![NextVersion(q)] = request[q].content]
  /\ Goto(q, "insert")
  /\ UNCHANGED <<doc, deleted, versions, apvars, tokens>>

\* What the handler does after SaveVersion.
AfterSave(r) ==
  CASE r.kind \in {"create", "import"} -> Idle
    [] r.kind \in {"edit", "office"} ->
         [r EXCEPT !.pc = "update", !.copy.status = "draft", !.n = 0, !.content = "none"]
    [] OTHER -> [r EXCEPT !.pc = "update", !.n = 0, !.content = "none"]

\* AddVersion, one transaction, inserts the row and moves current_version; the number
\* must be free.
AddVersion(q) ==
  /\ At(q, "insert")
  /\ versions[NextVersion(q)] = "none"
  /\ versions' = [versions EXCEPT ![NextVersion(q)] = request[q].content]
  /\ doc' = [doc EXCEPT !.ver = NextVersion(q)]
  /\ LET r == [request[q] EXCEPT !.copy.ver = @ + 1] IN
       request' = [request EXCEPT ![q] = IF Limit > 0 THEN [r EXCEPT !.pc = "list"]
                                         ELSE AfterSave(r)]
  /\ UNCHANGED <<deleted, files, apvars, tokens>>

\* The number is taken: the file stays as it was overwritten.
AddVersionRefused(q) ==
  /\ At(q, "insert")
  /\ versions[NextVersion(q)] # "none"
  /\ End(q)
  /\ UNCHANGED <<docvars, apvars, tokens>>

\* Beyond the limit the oldest version goes, one for each save.
Kept == {v \in Numbers : versions[v] # "none"}
Oldest(v) == v \in Kept /\ \A w \in Kept : v <= w

ListVersions(q) ==
  /\ At(q, "list")
  /\ \/ /\ Cardinality(Kept) <= Limit
        /\ request' = [request EXCEPT ![q] = AfterSave(@)]
     \/ /\ Cardinality(Kept) > Limit
        /\ \E v \in Numbers :
             Oldest(v) /\ request' = [request EXCEPT ![q].pc = "drop", ![q].n = v]
  /\ UNCHANGED <<docvars, apvars, tokens>>

DeleteVersion(q) ==
  /\ At(q, "drop")
  /\ versions' = [versions EXCEPT ![request[q].n] = "none"]
  /\ Goto(q, "unlink")
  /\ UNCHANGED <<doc, deleted, files, apvars, tokens>>

RemoveFile(q) ==
  /\ At(q, "unlink")
  /\ files' = [files EXCEPT ![request[q].n] = "none"]
  /\ request' = [request EXCEPT ![q] = AfterSave(@)]
  /\ UNCHANGED <<doc, deleted, versions, apvars, tokens>>

\* The end of UpdateContent, RestoreVersion, OnlyOfficeCallback, UpdateClassification and
\* StartApproval.
UpdateRow(q) ==
  /\ At(q, "update") /\ request[q].kind # "decide"
  /\ UpdateDocument(q)
  /\ End(q)
  /\ UNCHANGED <<deleted, versions, files, apvars, tokens>>

-----------------------------------------------------------------------------
(***************************************************************************)
(* The other writers of the row.                                           *)
(***************************************************************************)
\* UpdateClassification writes the classification, and the rest as it was.
UpdateClassification(q) ==
  /\ Begin(q, "classify", "update")
  /\ UNCHANGED <<docvars, apvars, tokens>>

\* Fault injected: the directory goes first.
DeleteDirectoryFirst(q) ==
  /\ Begin(q, "delete", "rmdir")
  /\ UNCHANGED <<docvars, apvars, tokens>>
\* SoftDeleteDocument; the directory goes after it.
DeleteDocument(q) ==
  /\ Begin(q, "delete", "rmdir")
  /\ doc' = [doc EXCEPT !.status = "deleted"]
  /\ deleted' = TRUE
  /\ UNCHANGED <<versions, files, apvars, tokens>>

RemoveDir(q) ==
  /\ At(q, "rmdir")
  /\ files' = [v \in Numbers |-> "none"]
  /\ End(q)
  /\ UNCHANGED <<doc, deleted, versions, apvars, tokens>>

-----------------------------------------------------------------------------
(***************************************************************************)
(* Approvals.                                                              *)
(***************************************************************************)
StartApproval(q) ==
  /\ doc.status \in {"draft", "returned"}
  /\ Begin(q, "start", "ask")
  /\ UNCHANGED <<docvars, apvars, tokens>>

NewApproval(plan) == [NoApproval EXCEPT !.status = "review", !.stage = 1, !.asked = plan]

\* CreateApproval, one transaction.
CreateApproval(q, i, plan) ==
  /\ At(q, "ask")
  /\ approvals[i].status = "none"
  /\ \A j \in Ids : j < i => approvals[j].status # "none"
  /\ approvals' = [approvals EXCEPT ![i] = NewApproval(plan)]
  /\ request' = [request EXCEPT ![q].pc = "update", ![q].copy.status = "review"]
  /\ UNCHANGED <<docvars, given, tokens>>

Outcome(status, stage) == [NoApproval EXCEPT !.status = status, !.stage = stage]

\* Fault injected: the stage of the user is not compared with the current one.
ApprovalDecisionAnyStage(q, i, u) ==
  /\ At(q, "idle") /\ "decide" \in Handlers
  /\ approvals[i].status = "review"
  /\ \E s \in Stages :
       request' = [request EXCEPT ![q] =
                     [Idle EXCEPT !.kind = "decide", !.pc = "parts", !.n = i, !.pair = <<u, s>>,
                                  !.ap = Outcome("review", approvals[i].stage)]]
  /\ UNCHANGED <<docvars, apvars, tokens>>

\* ApprovalDecision of a user: GetApproval reads the row, then the participants.
ApprovalDecision(q, i, u) ==
  /\ At(q, "idle") /\ "decide" \in Handlers
  /\ approvals[i].status = "review"
  /\ request' = [request EXCEPT ![q] =
                   [Idle EXCEPT !.kind = "decide", !.pc = "parts", !.n = i,
                                !.pair = <<u, approvals[i].stage>>,
                                !.ap = Outcome("review", approvals[i].stage)]]
  /\ UNCHANGED <<docvars, apvars, tokens>>

\* The user must be asked in the stage that is current, as read.
ReadParticipants(q) ==
  LET r == request[q]
      a == approvals[r.n] IN
  /\ At(q, "parts")
  /\ request' = [request EXCEPT ![q] =
                   IF a.status # "gone" /\ r.pair \in a.asked
                   THEN [r EXCEPT !.pc = "save",
                           !.ap = [a EXCEPT !.status = r.ap.status, !.stage = r.ap.stage]]
                   ELSE Idle]
  /\ UNCHANGED <<docvars, apvars, tokens>>

\* Fault injected: one approval is enough for a stage.
JudgedByOne(a, p) == IF \E x \in a.asked : x[2] > a.stage THEN Outcome("review", a.stage + 1)
                     ELSE Outcome("approved", a.stage)
\* What the participants as read, with one's own approval, make of status and stage.
Judged(a, p) ==
  LET rest == {x \in a.asked : x[2] = a.stage} \ {p} IN
  IF rest \intersect a.no # {} THEN Outcome("returned", a.stage)
  ELSE IF ~(rest \subseteq a.yes) THEN Outcome("review", a.stage)
  ELSE IF \E x \in a.asked : x[2] > a.stage THEN Outcome("review", a.stage + 1)
  ELSE Outcome("approved", a.stage)

\* SaveApprovalDecision: the user's row of the stage; nobody reads one that is gone.
Approve(q) ==
  LET r == request[q] IN
  /\ At(q, "save")
  /\ approvals' = [approvals EXCEPT ![r.n].yes = @ \union {r.pair}, ![r.n].no = @ \ {r.pair}]
  /\ given' = [given EXCEPT ![r.n] = @ \union {r.pair}]
  /\ request' = [request EXCEPT ![q] =
                   [r EXCEPT !.pc = "reread", !.pair = <<>>, !.ap = Judged(@, r.pair)]]
  /\ UNCHANGED <<docvars, tokens>>

Reject(q) ==
  LET r == request[q] IN
  /\ At(q, "save")
  /\ approvals' = [approvals EXCEPT ![r.n].no = @ \union {r.pair}, ![r.n].yes = @ \ {r.pair}]
  /\ request' = [request EXCEPT ![q] =
                   [r EXCEPT !.pc = "reread", !.pair = <<>>,
                     !.ap = Outcome("returned", r.ap.stage)]]
  /\ UNCHANGED <<docvars, given, tokens>>

\* The document is read again, and its status written with the rest of its row.
RereadDocument(q) ==
  /\ At(q, "reread")
  /\ request' = [request EXCEPT ![q].pc = "update",
                                ![q].copy = [GetDocument EXCEPT !.status = request[q].ap.status]]
  /\ UNCHANGED <<docvars, apvars, tokens>>

DecideDocument(q) ==
  /\ At(q, "update") /\ request[q].kind = "decide"
  /\ UpdateDocument(q)
  /\ request' = [request EXCEPT ![q].pc = "settle", ![q].copy = NewDocument]
  /\ UNCHANGED <<deleted, versions, files, apvars, tokens>>

\* UpdateApprovalStatus writes the status and the stage decided on.
SettleApproval(q) ==
  LET r == request[q] IN
  /\ At(q, "settle")
  /\ approvals' = IF approvals[r.n].status = "gone" THEN approvals
                  ELSE [approvals EXCEPT ![r.n].status = r.ap.status, ![r.n].stage = r.ap.stage]
  /\ End(q)
  /\ UNCHANGED <<docvars, given, tokens>>

\* A superadmin removes the approvals that are over, or all.
CleanupApprovals(all) ==
  /\ approvals' = [i \in Ids |->
                     IF approvals[i].status = "none" \/ (~all /\ approvals[i].status = "review")
                     THEN approvals[i] ELSE [approvals[i] EXCEPT !.status = "gone"]]
  /\ UNCHANGED <<docvars, given, tokens, request>>

-----------------------------------------------------------------------------
\* A statement or a file operation fails, or the process ends: the request stops where it
\* is.  A decision goes on without the document, a save without its pruning.
Fails(q) ==
  /\ ~At(q, "idle")
  /\ IF request[q].kind = "decide" /\ request[q].pc \in {"reread", "update"}
     THEN End(q) \/ request' = [request EXCEPT ![q].pc = "settle", ![q].copy = NewDocument]
     ELSE \/ End(q)
          \/ /\ request[q].pc \in {"list", "drop", "unlink"}
             /\ request' = [request EXCEPT ![q] = AfterSave(@)]
  /\ UNCHANGED <<docvars, apvars, tokens>>

SaveStep(q) ==
  \/ ImportRedraft(q) \/ RestoreLoad(q) \/ OfficeCompare(q) \/ WriteFile(q)
  \/ AddVersion(q) \/ AddVersionRefused(q)
  \/ ListVersions(q) \/ DeleteVersion(q) \/ RemoveFile(q)
  \/ UpdateRow(q) \/ RemoveDir(q)

DecideStep(q) ==
  \/ \E i \in Ids, plan \in Plans : CreateApproval(q, i, plan)
  \/ ReadParticipants(q) \/ Approve(q) \/ Reject(q)
  \/ RereadDocument(q) \/ DecideDocument(q) \/ SettleApproval(q)

Arrive(q) ==
  \/ \E c \in Contents : UpdateContent(q, c) \/ ImportCommit(q, c)
  \/ \E v \in Numbers : RestoreVersion(q, v)
  \/ \E v \in Numbers, c \in Contents : OfficeCallback(q, v, c)
  \/ UpdateClassification(q) \/ DeleteDocument(q) \/ StartApproval(q)
  \/ \E i \in Ids, u \in Approvers : ApprovalDecision(q, i, u)

Next ==
  \/ \E q \in Requests : Arrive(q) \/ SaveStep(q) \/ DecideStep(q) \/ Fails(q)
  \/ \E v \in Numbers : ForceSave(v) \/ LoseToken(v)
  \/ \E all \in BOOLEAN : CleanupApprovals(all)

Spec == Init /\ [][Next]_vars

-----------------------------------------------------------------------------
A == INSTANCE Approval WITH asked <- approvals[Watched].asked, given <- given[Watched],
                            verdict <- approvals[Watched].status

\* An approval, any of them, keeps the promises of Approval, though those who decide at the
\* same time read its row, its participants and the document at different moments and
\* write back what they made of them.
ApprovalKept == A!Spec

\* A document that says it is approved has been approved by everybody whom one of its
\* approvals asked, whichever stale copy of the row was written last.
ApprovedMeansAsked ==
  doc.status = "approved" =>
    \E i \in Ids : approvals[i].asked # {} /\ approvals[i].asked \subseteq given[i]

\* What a restore saves is what the version said when it was chosen, though a save whose
\* number was taken may have written over its file, and pruning may have freed its number.
RestoresTrue ==
  [][\A q \in Requests :
       At(q, "load") /\ request[q].kind = "restore" /\ request'[q].pc = "write" =>
         request'[q].content = request[q].content]_vars

\* A save that comes back from an editor becomes the version after the one that the editor
\* opened, or none: it never covers a version that its author has not seen.
OfficeSavesOnTop ==
  [][\A q \in Requests :
       request[q].kind = "office" /\ versions' # versions /\ request'[q].pc # "insert"
         /\ At(q, "insert") => doc'.ver = request[q].n + 1]_vars

\* While nothing is pruned, the current version is one that was saved and every version
\* has its file, until the document is deleted: a stale copy may move current_version back,
\* and a save that fails leaves a file too many, never one too few.
VersionsKept ==
  Limit = 0 /\ ~deleted =>
    /\ doc.ver \in Kept \union {0}
    /\ \A v \in Kept : files[v] # "none"

\* docs_onlyoffice.go, of a current version that is not the editor's: "The document has
\* already advanced to a newer version".  The current version never goes back.
CurrentAdvances == [][doc'.ver >= doc.ver]_doc
=============================================================================
