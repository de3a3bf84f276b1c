--------------------------- MODULE DocumentsProofs ---------------------------
(***************************************************************************)
(* What Documents guarantees for any requests, handlers, contents and      *)
(* plans of approval.                                                      *)
(*                                                                         *)
(* ApprovalKept and ApprovedMeansAsked rest on what a decision holds of    *)
(* its approval between its reads and its writes (Decided): what it has    *)
(* read as given was given and stays so, and whom it found asked is asked  *)
(* for good.  VersionsKept rests on what a save holds of the versions      *)
(* (Saving).  Both are about one request at a time, and other requests     *)
(* only add to what was given and saved.  RestoresTrue and                 *)
(* OfficeSavesOnTop are about steps: a callback has the version that its   *)
(* editor opened until it has inserted its own (OfficeHolds).              *)
(***************************************************************************)
EXTENDS Documents, TLAPS

\* A verdict to write, and a request whose fields fit what it does next.
Verdicts == {"review", "returned", "approved"}
SaveSteps == {"load", "redraft", "write", "insert"}
PruneSteps == {"list", "drop", "unlink"}
DecideSteps == {"parts", "save", "reread", "settle"}

Local(x) ==
  /\ x.pc \in SaveSteps => x.copy.ver < MaxVersion /\ x.content \in Contents
  /\ x.pc \in PruneSteps => Limit > 0
  /\ x.pc \in DecideSteps => x.kind = "decide"
  /\ x.kind = "decide" => /\ x.pc \in DecideSteps \union {"update"} /\ x.n \in Ids
                          /\ x.ap.status \in Verdicts /\ x.ap.stage \in Stages
  /\ x.pc \in {"parts", "save"} => x.pair \in Pairs

Begun(a) == a.status # "none" => a.stage \in Stages

Types ==
  /\ TypeOK
  /\ \A q \in Requests : Local(request[q])
  /\ \A i \in Ids : Begun(approvals[i])

\* One request goes on to x, the others stay.
Shape(q, x) == request' = [request EXCEPT ![q] = x] /\ x \in RequestRecord /\ Local(x)

\* What it holds of the document it has read before, from the row or from its copy.
Quiet(q, x) ==
  /\ UNCHANGED <<versions, files>> /\ (deleted => deleted')
  /\ x.copy.ver \in {doc.ver, request[q].copy.ver, 0}
  /\ doc'.ver \in {doc.ver, request[q].copy.ver}
  /\ x.pc # "insert" /\ (x.pc = "rmdir" => deleted')
Honest(q, x) ==
  /\ x.copy.status = "approved" => doc.status = "approved" \/ request[q].copy.status = "approved"
  /\ doc'.status = "approved" => doc.status = "approved" \/ request[q].copy.status = "approved"

\* What it does to versions and files otherwise.
Writes(q, x) ==
  /\ request[q].pc = "write" /\ x.pc = "insert" /\ x.copy = request[q].copy
  /\ request[q].content \in Contents
  /\ files' = [files EXCEPT ![NextVersion(q)] = request[q].content]
  /\ UNCHANGED <<doc, deleted, versions>>
Adds(q, x) ==
  /\ request[q].pc = "insert" /\ x.pc \notin {"insert", "rmdir"}
  /\ x.copy.ver \in {NextVersion(q), 0} /\ doc'.ver = NextVersion(q)
  /\ request[q].content \in Contents
  /\ versions' = [versions EXCEPT ![NextVersion(q)] = request[q].content]
  /\ UNCHANGED <<deleted, files>>
Prunes(q) == request[q].pc \in PruneSteps
RemovesDir(q, x) ==
  /\ request[q].pc = "rmdir" /\ x = Idle
  /\ UNCHANGED <<doc, deleted, versions>>
Effect(q, x) == Quiet(q, x) \/ Writes(q, x) \/ Adds(q, x) \/ Prunes(q) \/ RemovesDir(q, x)

Stored == [Numbers -> Contents \union {"none"}]
DocType == doc \in Rows /\ deleted \in BOOLEAN /\ versions \in Stored /\ files \in Stored

\* The requests that approve nothing.
Plain(q, x) == Shape(q, x) /\ Honest(q, x) /\ x.kind # "decide" /\ UNCHANGED apvars

-----------------------------------------------------------------------------
LEMMA NewDocumentType ==
  NewDocument \in Rows /\ NewDocument.ver = 0 /\ NewDocument.status = "draft"
BY BoundsAssumption DEF NewDocument, Rows, Statuses

LEMMA NoApprovalType ==
  /\ NoApproval \in Approvals
  /\ NoApproval.status = "none" /\ NoApproval.asked = {} /\ NoApproval.yes = {} /\ NoApproval.no = {}
BY StageAssumption DEF NoApproval, Approvals

LEMMA Names ==
  /\ SaveSteps \union PruneSteps \union DecideSteps \union {"idle", "update", "ask", "rmdir"} \subseteq Steps
  /\ "idle" \notin SaveSteps \union PruneSteps \union DecideSteps \union {"update", "rmdir"}
  /\ "update" \notin SaveSteps \union PruneSteps \union DecideSteps
  /\ "ask" \notin SaveSteps \union PruneSteps \union DecideSteps
  /\ "rmdir" \notin SaveSteps \union PruneSteps \union DecideSteps
  /\ SaveSteps \cap (PruneSteps \union DecideSteps \union {"rmdir"}) = {}
  /\ PruneSteps \cap (DecideSteps \union {"insert", "rmdir"}) = {}
  /\ Savers \subseteq Kinds /\ {"classify", "start", "decide", "delete"} \subseteq Kinds
  /\ "decide" \notin Savers
  /\ "none" # "decide"
BY DEF SaveSteps, PruneSteps, DecideSteps, Steps, Savers, Kinds

LEMMA IdleType ==
  /\ Idle \in RequestRecord /\ Local(Idle)
  /\ Idle.kind = "none" /\ Idle.pc = "idle" /\ Idle.copy = NewDocument
<1>1. 0 \in 0 .. MaxVersion
  BY BoundsAssumption
<1>2. Idle \in RequestRecord
  BY <1>1, NewDocumentType, NoApprovalType, Names DEF Idle, RequestRecord
<1>3. Idle.kind = "none" /\ Idle.pc = "idle" /\ Idle.copy = NewDocument
  BY DEF Idle
<1> QED
  BY <1>2, <1>3, Names DEF Local

LEMMA Typed ==
  ASSUME Types, NEW q \in Requests
  PROVE  /\ doc \in Rows /\ doc.ver \in 0 .. MaxVersion /\ doc.status \in Statuses
         /\ request \in [Requests -> RequestRecord]
         /\ request[q] \in RequestRecord /\ Local(request[q])
         /\ request[q].copy \in Rows /\ request[q].copy.ver \in 0 .. MaxVersion
BY DEF Types, TypeOK, Rows, RequestRecord

\* A request arrives.
LEMMA BeginSaveShape ==
  ASSUME Types, NEW q \in Requests, NEW kind \in Savers, NEW pc \in SaveSteps \ {"insert"},
         NEW n \in 0 .. MaxVersion, NEW c \in Contents, BeginSave(q, kind, pc, n, c),
         UNCHANGED <<docvars, apvars>>
  PROVE  \E x : Plain(q, x) /\ Quiet(q, x)
<1> DEFINE x == [Idle EXCEPT !.kind = kind, !.pc = pc, !.copy = doc, !.n = n, !.content = c]
<1>1. request' = [request EXCEPT ![q] = x] /\ doc.ver < MaxVersion
  BY DEF BeginSave, GetDocument
<1>2. kind \in Kinds /\ pc \in Steps /\ kind # "decide"
      /\ pc \notin PruneSteps \union DecideSteps \union {"insert", "rmdir"}
  BY Names
<1>3. x \in RequestRecord
  BY <1>2, IdleType, Typed DEF RequestRecord
<1>4. x.kind = kind /\ x.pc = pc /\ x.copy = doc /\ x.content = c
  BY IdleType DEF RequestRecord
<1> HIDE DEF x
<1>5. Local(x)
  BY <1>1, <1>2, <1>4 DEF Local, DecideSteps
<1>6. Plain(q, x)
  BY <1>1, <1>2, <1>3, <1>4, <1>5 DEF Plain, Shape, Honest, docvars
<1>7. Quiet(q, x)
  BY <1>2, <1>4 DEF Quiet, docvars
<1> QED
  BY <1>6, <1>7

LEMMA BeginShape ==
  ASSUME Types, NEW q \in Requests, NEW kind \in {"classify", "start", "delete"},
         NEW pc \in {"update", "ask", "rmdir"}, Begin(q, kind, pc)
  PROVE  \E x : /\ Shape(q, x) /\ x.kind # "decide" /\ x.pc = pc /\ x.copy = doc
<1> DEFINE x == [Idle EXCEPT !.kind = kind, !.pc = pc, !.copy = doc]
<1>1. request' = [request EXCEPT ![q] = x]
  BY DEF Begin, GetDocument
<1>2. kind \in Kinds /\ pc \in Steps /\ kind # "decide"
      /\ pc \notin SaveSteps \union PruneSteps \union DecideSteps
  BY Names
<1>3. x \in RequestRecord
  BY <1>2, IdleType, Typed DEF RequestRecord
<1>4. x.kind = kind /\ x.pc = pc /\ x.copy = doc
  BY IdleType DEF RequestRecord
<1> HIDE DEF x
<1>5. Local(x)
  BY <1>2, <1>4, Names DEF Local, SaveSteps, DecideSteps
<1> QED
  BY <1>1, <1>2, <1>3, <1>4, <1>5 DEF Shape

LEMMA StoredType ==
  ASSUME Types, NEW f \in Stored, NEW n, NEW c \in Contents \union {"none"}
  PROVE  [f EXCEPT ![n] = c] \in Stored
BY DEF Stored

LEMMA DocTyped == Types => DocType
BY DEF Types, TypeOK, DocType, Stored

\* A request that ends.
LEMMA EndShape ==
  ASSUME Types, NEW q \in Requests, End(q), UNCHANGED <<docvars, apvars>>
  PROVE  Plain(q, Idle) /\ Quiet(q, Idle)
<1>1. Idle.copy.ver = 0 /\ Idle.copy.status = "draft"
  BY IdleType, NewDocumentType
<1>2. Idle.pc # "insert" /\ Idle.pc # "rmdir" /\ Idle.kind # "decide"
  BY IdleType
<1> QED
  BY <1>1, <1>2, IdleType DEF End, Plain, Shape, Quiet, Honest, docvars

\* A request that goes on with its copy, or with its status changed to draft.
LEMMA GoOn ==
  ASSUME Types, NEW q \in Requests, NEW x \in RequestRecord, Local(x),
         request' = [request EXCEPT ![q] = x], x.kind = request[q].kind, x.kind # "decide",
         x.pc \notin {"insert", "rmdir"},
         x.copy.ver = request[q].copy.ver,
         x.copy.status \in {request[q].copy.status, "draft"},
         UNCHANGED apvars,
         UNCHANGED docvars \/ (/\ doc' \in {request[q].copy, x.copy}
                              /\ UNCHANGED <<deleted, versions, files>>)
  PROVE  Plain(q, x) /\ Quiet(q, x)
<1>1. Honest(q, x)
  BY DEF Honest, docvars
<1>2. Quiet(q, x)
  BY DEF Quiet, docvars
<1> QED
  BY <1>1, <1>2 DEF Plain, Shape

\* A request that has saved a version.
LEMMA AfterSaveType ==
  ASSUME NEW r \in RequestRecord, r.kind # "decide"
  PROVE  /\ AfterSave(r) \in RequestRecord /\ Local(AfterSave(r))
         /\ AfterSave(r).kind # "decide"
         /\ AfterSave(r).pc \notin {"insert", "rmdir"}
         /\ AfterSave(r).copy.ver \in {r.copy.ver, 0}
         /\ AfterSave(r).copy.status \in {r.copy.status, "draft"}
<1>0. 0 \in 0 .. MaxVersion
  BY BoundsAssumption
<1>d. "draft" \in Statuses
  BY DEF Statuses
<1>1. CASE r.kind \in {"create", "import"}
  <2>1. AfterSave(r) = Idle
    BY <1>1 DEF AfterSave
  <2> QED
    BY <2>1, IdleType, NewDocumentType
<1>2. CASE r.kind \in {"edit", "office"}
  <2> DEFINE x == [r EXCEPT !.pc = "update", !.copy.status = "draft", !.n = 0, !.content = "none"]
  <2>1. AfterSave(r) = x
    BY <1>2 DEF AfterSave
  <2>2. x \in RequestRecord
    BY <1>0, <1>d, Names DEF RequestRecord, Rows
  <2>3. x.pc = "update" /\ x.kind = r.kind /\ x.copy.ver = r.copy.ver /\ x.copy.status = "draft"
    BY DEF RequestRecord, Rows
  <2> HIDE DEF x
  <2> QED
    BY <2>1, <2>2, <2>3, Names DEF Local
<1>3. CASE r.kind \notin {"create", "import", "edit", "office"}
  <2> DEFINE x == [r EXCEPT !.pc = "update", !.n = 0, !.content = "none"]
  <2>1. AfterSave(r) = x
    BY <1>3 DEF AfterSave
  <2>2. x \in RequestRecord
    BY <1>0, Names DEF RequestRecord
  <2>3. x.pc = "update" /\ x.kind = r.kind /\ x.copy = r.copy
    BY DEF RequestRecord
  <2> HIDE DEF x
  <2> QED
    BY <2>1, <2>2, <2>3, Names DEF Local
<1> QED
  BY <1>1, <1>2, <1>3

LEMMA ArriveShape ==
  ASSUME Types, NEW q \in Requests, Arrive(q)
  PROVE  /\ DocType'
         /\ tokens' \in [Numbers -> 0 .. MaxTokens]
         /\ \/ UNCHANGED <<docvars, apvars, request>>
            \/ \E x : Plain(q, x) /\ Quiet(q, x)
            \/ \E i \in Ids, u \in Approvers : ApprovalDecision(q, i, u)
<1> DEFINE Goal == /\ DocType'
                   /\ tokens' \in [Numbers -> 0 .. MaxTokens]
                   /\ \/ UNCHANGED <<docvars, apvars, request>>
                      \/ \E x : Plain(q, x) /\ Quiet(q, x)
                      \/ \E i \in Ids, u \in Approvers : ApprovalDecision(q, i, u)
<1>0. DocType /\ tokens \in [Numbers -> 0 .. MaxTokens]
  BY DocTyped DEF Types, TypeOK
<1>same. ASSUME UNCHANGED docvars PROVE DocType'
  BY <1>0, <1>same DEF DocType, docvars
<1>n. 0 \in 0 .. MaxVersion /\ Numbers \subseteq 0 .. MaxVersion
  BY BoundsAssumption DEF Numbers
<1>s. {"edit", "import", "restore", "office"} \subseteq Savers
      /\ {"write", "redraft", "load"} \subseteq SaveSteps \ {"insert"}
  BY DEF Savers, SaveSteps
<1>1. ASSUME NEW c \in Contents, UpdateContent(q, c) PROVE Goal
  <2>1. BeginSave(q, "edit", "write", 0, c) /\ UNCHANGED <<docvars, apvars, tokens>>
    BY <1>1 DEF UpdateContent
  <2>2. \E x : Plain(q, x) /\ Quiet(q, x)
    BY <2>1, <1>n, <1>s, BeginSaveShape
  <2> QED
    BY <1>0, <1>same, <2>1, <2>2
<1>2. ASSUME NEW c \in Contents, ImportCommit(q, c) PROVE Goal
  <2>1. BeginSave(q, "import", "redraft", 0, c) /\ UNCHANGED <<docvars, apvars, tokens>>
    BY <1>2 DEF ImportCommit
  <2>2. \E x : Plain(q, x) /\ Quiet(q, x)
    BY <2>1, <1>n, <1>s, BeginSaveShape
  <2> QED
    BY <1>0, <1>same, <2>1, <2>2
<1>3. ASSUME NEW v \in Numbers, RestoreVersion(q, v) PROVE Goal
  <2>1. /\ BeginSave(q, "restore", "load", v, versions[v]) /\ versions[v] \in Contents
        /\ UNCHANGED <<docvars, apvars, tokens>>
    BY <1>0, <1>3 DEF RestoreVersion, DocType, Stored
  <2>2. \E x : Plain(q, x) /\ Quiet(q, x)
    BY <2>1, <1>n, <1>s, BeginSaveShape
  <2> QED
    BY <1>0, <1>same, <2>1, <2>2
<1>4. ASSUME NEW v \in Numbers, NEW c \in Contents, OfficeCallback(q, v, c) PROVE Goal
  <2>1. tokens' \in [Numbers -> 0 .. MaxTokens]
    BY <1>0, <1>4, BoundsAssumption DEF OfficeCallback, Consume
  <2>2. UNCHANGED <<docvars, apvars>>
    BY <1>4 DEF OfficeCallback
  <2>3. ASSUME BeginSave(q, "office", "load", v, c) PROVE \E x : Plain(q, x) /\ Quiet(q, x)
    BY <2>2, <2>3, <1>n, <1>s, BeginSaveShape
  <2> QED
    BY <1>4, <1>same, <2>1, <2>2, <2>3 DEF OfficeCallback
<1>5. ASSUME NEW kind \in {"classify", "start"}, NEW pc \in {"update", "ask"}, Begin(q, kind, pc),
             UNCHANGED <<docvars, apvars, tokens>>
      PROVE  Goal
  <2>1. PICK x : Shape(q, x) /\ x.kind # "decide" /\ x.pc = pc /\ x.copy = doc
    BY <1>5, BeginShape
  <2>2. Plain(q, x) /\ Quiet(q, x)
    BY <1>5, <2>1 DEF Plain, Quiet, Honest, docvars
  <2> QED
    BY <1>0, <1>5, <1>same, <2>2
<1>6. CASE DeleteDocument(q)
  <2>1. PICK x : Shape(q, x) /\ x.kind # "decide" /\ x.pc = "rmdir" /\ x.copy = doc
    BY <1>6, BeginShape DEF DeleteDocument
  <2>2. doc' = [doc EXCEPT !.status = "deleted"] /\ doc \in Rows
    BY <1>6, <1>0 DEF DeleteDocument, DocType
  <2>3. doc' \in Rows /\ doc'.ver = doc.ver /\ doc'.status = "deleted"
    BY <2>2 DEF Rows, Statuses
  <2>4. deleted' /\ UNCHANGED <<versions, files, apvars, tokens>>
    BY <1>6 DEF DeleteDocument
  <2>5. Plain(q, x) /\ Quiet(q, x)
    BY <2>1, <2>3, <2>4 DEF Plain, Quiet, Honest
  <2> QED
    BY <1>0, <1>6, <2>3, <2>4, <2>5 DEF DocType, DeleteDocument
<1>7. ASSUME NEW i \in Ids, NEW u \in Approvers, ApprovalDecision(q, i, u) PROVE Goal
  BY <1>0, <1>7, <1>same DEF ApprovalDecision
<1> QED
  BY <1>1, <1>2, <1>3, <1>4, <1>5, <1>6, <1>7 DEF Arrive, UpdateClassification, StartApproval

\* What the steps of saves need of the request.
LEMMA Saver ==
  ASSUME Types, NEW q \in Requests, request[q].pc \in SaveSteps \union PruneSteps \union {"rmdir"}
  PROVE  request[q].kind # "decide"
<1>1. Local(request[q])
  BY Typed
<1> QED
  BY <1>1, Names DEF Local, DecideSteps, SaveSteps, PruneSteps

LEMMA NextNumber ==
  ASSUME Types, NEW q \in Requests, request[q].pc \in SaveSteps
  PROVE  NextVersion(q) \in Numbers /\ request[q].content \in Contents
<1>1. /\ request[q].copy.ver \in 0 .. MaxVersion /\ request[q].copy.ver < MaxVersion
      /\ request[q].content \in Contents
  BY Typed DEF Local
<1> QED
  BY <1>1, BoundsAssumption DEF NextVersion, Numbers

LEMMA SaveShape ==
  ASSUME Types, NEW q \in Requests, SaveStep(q)
  PROVE  DocType' /\ UNCHANGED tokens /\ \E x : Plain(q, x) /\ Effect(q, x)
<1> DEFINE r == request[q]
           Goal == DocType' /\ UNCHANGED tokens /\ \E x : Plain(q, x) /\ Effect(q, x)
<1>0. /\ DocType /\ r \in RequestRecord /\ Local(r) /\ r.copy \in Rows
      /\ r.copy.ver \in 0 .. MaxVersion
  BY Typed, DocTyped
<1>same. ASSUME UNCHANGED docvars PROVE DocType'
  BY <1>0, <1>same DEF DocType, docvars
<1>end. ASSUME End(q), UNCHANGED <<docvars, apvars, tokens>> PROVE Goal
  BY <1>end, <1>same, EndShape DEF Effect
<1>d. "draft" \in Statuses /\ "none" \in Contents \union {"none"}
  BY DEF Statuses
<1>1. CASE ImportRedraft(q)
  <2> DEFINE x == [r EXCEPT !.pc = "write", !.copy.status = "draft"]
  <2>1. /\ r.pc = "redraft" /\ request' = [request EXCEPT ![q] = x]
        /\ doc' = [r.copy EXCEPT !.status = "draft"]
        /\ UNCHANGED <<deleted, versions, files, apvars, tokens>>
    BY <1>1 DEF ImportRedraft, At
  <2>2. /\ x \in RequestRecord
        /\ x.pc = "write" /\ x.kind = r.kind /\ x.content = r.content
        /\ x.copy = [r.copy EXCEPT !.status = "draft"]
        /\ x.copy.ver = r.copy.ver /\ x.copy.status = "draft" /\ x.copy \in Rows
    BY <1>0, <1>d, Names DEF RequestRecord, Rows, SaveSteps
  <2> HIDE DEF x
  <2>3. r.kind # "decide"
    BY <2>1, Saver DEF SaveSteps
  <2>4. Local(x)
    BY <1>0, <2>1, <2>2, <2>3, Names DEF Local, SaveSteps, DecideSteps
  <2>5. Plain(q, x) /\ Quiet(q, x)
    BY <2>1, <2>2, <2>3, <2>4, GoOn
  <2>6. DocType'
    BY <1>0, <2>1, <2>2 DEF DocType
  <2> QED
    BY <2>1, <2>5, <2>6 DEF Effect
<1>2. CASE RestoreLoad(q)
  <2> DEFINE loaded == LoadContent(r.content, files[r.n])
             x == [r EXCEPT !.pc = "write", !.content = loaded]
  <2>1. /\ r.pc = "load" /\ UNCHANGED <<docvars, apvars, tokens>>
        /\ \/ End(q)
           \/ loaded # "none" /\ request' = [request EXCEPT ![q] = x]
    BY <1>2 DEF RestoreLoad, At
  <2>2. loaded \in {r.content, "none"}
    BY DEF LoadContent
  <2>3. r.content \in Contents /\ r.kind # "decide" /\ r.copy.ver < MaxVersion
    BY <1>0, <2>1, Saver DEF Local, SaveSteps
  <2>4. CASE loaded # "none" /\ request' = [request EXCEPT ![q] = x]
    <3>1. loaded \in Contents
      BY <2>2, <2>3, <2>4
    <3> HIDE DEF loaded
    <3>2. x \in RequestRecord /\ x.pc = "write" /\ x.kind = r.kind /\ x.content = loaded
          /\ x.copy = r.copy
      BY <1>0, <3>1, Names DEF RequestRecord, SaveSteps
    <3>3. request' = [request EXCEPT ![q] = x]
      BY <2>4
    <3> HIDE DEF x
    <3>4. Local(x)
      BY <2>3, <3>1, <3>2, Names DEF Local, SaveSteps, DecideSteps
    <3>5. Plain(q, x) /\ Quiet(q, x)
      BY <2>1, <2>3, <3>2, <3>3, <3>4, GoOn
    <3> QED
      BY <1>same, <2>1, <3>5 DEF Effect
  <2> QED
    BY <1>end, <2>1, <2>4
<1>3. CASE OfficeCompare(q)
  <2> DEFINE x == [r EXCEPT !.pc = "write"]
  <2>1. /\ r.pc = "load" /\ UNCHANGED <<docvars, apvars, tokens>>
        /\ End(q) \/ request' = [request EXCEPT ![q] = x]
    BY <1>3 DEF OfficeCompare, At, Goto
  <2>2. r.content \in Contents /\ r.kind # "decide" /\ r.copy.ver < MaxVersion
    BY <1>0, <2>1, Saver DEF Local, SaveSteps
  <2>3. x \in RequestRecord /\ x.pc = "write" /\ x.kind = r.kind /\ x.content = r.content
        /\ x.copy = r.copy
    BY <1>0, Names DEF RequestRecord, SaveSteps
  <2> HIDE DEF x
  <2>4. Local(x)
    BY <2>2, <2>3, Names DEF Local, SaveSteps, DecideSteps
  <2>5. CASE request' = [request EXCEPT ![q] = x]
    <3>1. Plain(q, x) /\ Quiet(q, x)
      BY <2>1, <2>2, <2>3, <2>4, <2>5, GoOn
    <3> QED
      BY <1>same, <2>1, <3>1 DEF Effect
  <2> QED
    BY <1>end, <2>1, <2>5
<1>4. CASE WriteFile(q)
  <2> DEFINE x == [r EXCEPT !.pc = "insert"]
  <2>1. /\ r.pc = "write" /\ request' = [request EXCEPT ![q] = x]
        /\ files' = [files EXCEPT ![NextVersion(q)] = r.content]
        /\ UNCHANGED <<doc, deleted, versions, apvars, tokens>>
    BY <1>4 DEF WriteFile, At, Goto
  <2>2. r.content \in Contents /\ r.kind # "decide" /\ r.copy.ver < MaxVersion
    BY <1>0, <2>1, Saver DEF Local, SaveSteps
  <2>3. x \in RequestRecord /\ x.pc = "insert" /\ x.kind = r.kind /\ x.content = r.content
        /\ x.copy = r.copy
    BY <1>0, Names DEF RequestRecord, SaveSteps
  <2> HIDE DEF x
  <2>4. Local(x)
    BY <2>2, <2>3, Names DEF Local, SaveSteps, DecideSteps
  <2>5. Plain(q, x)
    BY <2>1, <2>2, <2>3, <2>4 DEF Plain, Shape, Honest
  <2>6. Writes(q, x)
    BY <2>1, <2>2, <2>3 DEF Writes
  <2>7. DocType'
    BY <1>0, <2>1, <2>2, StoredType DEF DocType
  <2> QED
    BY <2>1, <2>5, <2>6, <2>7 DEF Effect
<1>5. CASE AddVersion(q)
  <2> DEFINE y == [r EXCEPT !.copy.ver = @ + 1]
             x == IF Limit > 0 THEN [y EXCEPT !.pc = "list"] ELSE AfterSave(y)
  <2>1. /\ r.pc = "insert" /\ request' = [request EXCEPT ![q] = x]
        /\ versions' = [versions EXCEPT ![NextVersion(q)] = r.content]
        /\ doc' = [doc EXCEPT !.ver = NextVersion(q)]
        /\ UNCHANGED <<deleted, files, apvars, tokens>>
    BY <1>5 DEF AddVersion, At
  <2>2. r.content \in Contents /\ r.kind # "decide" /\ NextVersion(q) \in Numbers
    BY <2>1, Saver, NextNumber DEF SaveSteps
  <2>3. NextVersion(q) \in 0 .. MaxVersion /\ NextVersion(q) = r.copy.ver + 1
    BY <2>2 DEF Numbers, NextVersion
  <2>4. /\ y \in RequestRecord /\ y.kind = r.kind /\ y.copy.ver = NextVersion(q)
        /\ y.copy.status = r.copy.status
    BY <1>0, <2>3 DEF RequestRecord, Rows
  <2>5. doc' \in Rows /\ doc'.ver = NextVersion(q) /\ doc'.status = doc.status
    BY <1>0, <2>1, <2>3 DEF DocType, Rows
  <2> HIDE DEF y
  <2>6. /\ x \in RequestRecord /\ Local(x) /\ x.kind # "decide" /\ x.pc \notin {"insert", "rmdir"}
        /\ x.copy.ver \in {NextVersion(q), 0} /\ x.copy.status \in {r.copy.status, "draft"}
    <3>1. CASE Limit > 0
      <4>1. [y EXCEPT !.pc = "list"] \in RequestRecord
        BY <2>4, Names DEF RequestRecord, PruneSteps
      <4>2. /\ [y EXCEPT !.pc = "list"].pc = "list" /\ [y EXCEPT !.pc = "list"].kind = y.kind
            /\ [y EXCEPT !.pc = "list"].copy = y.copy
        BY <2>4 DEF RequestRecord
      <4>3. x = [y EXCEPT !.pc = "list"]
        BY <3>1
      <4> QED
        BY <2>2, <2>4, <3>1, <4>1, <4>2, <4>3, Names DEF Local, PruneSteps, DecideSteps, SaveSteps
    <3>2. CASE ~(Limit > 0)
      BY <2>2, <2>4, <3>2, AfterSaveType
    <3> QED
      BY <3>1, <3>2
  <2> HIDE DEF x
  <2>7. Plain(q, x)
    BY <2>1, <2>5, <2>6 DEF Plain, Shape, Honest
  <2>8. Adds(q, x)
    BY <2>1, <2>2, <2>5, <2>6 DEF Adds
  <2>9. DocType'
    BY <1>0, <2>1, <2>2, <2>5, StoredType DEF DocType
  <2> QED
    BY <2>1, <2>7, <2>8, <2>9 DEF Effect
<1>6. CASE AddVersionRefused(q)
  BY <1>6, <1>end DEF AddVersionRefused
<1>7. ASSUME r.pc \in PruneSteps, NEW f \in Stored, NEW g \in Stored, versions' = f, files' = g,
             UNCHANGED <<doc, deleted, apvars, tokens>>,
             \/ request' = [request EXCEPT ![q] = AfterSave(r)]
             \/ \E pc \in {"drop", "unlink"}, n \in 0 .. MaxVersion :
                  request' = [request EXCEPT ![q] = [r EXCEPT !.pc = pc, !.n = n]]
      PROVE  Goal
  <2>1. r.kind # "decide" /\ Limit > 0
    BY <1>0, <1>7, Saver DEF Local
  <2>2. DocType' /\ UNCHANGED tokens /\ Prunes(q)
    BY <1>0, <1>7 DEF DocType, Prunes
  <2>3. CASE request' = [request EXCEPT ![q] = AfterSave(r)]
    <3>1. Plain(q, AfterSave(r))
      BY <1>0, <1>7, <2>1, <2>3, AfterSaveType DEF Plain, Shape, Honest
    <3> QED
      BY <2>2, <3>1 DEF Effect
  <2>4. ASSUME NEW pc \in {"drop", "unlink"}, NEW n \in 0 .. MaxVersion,
               request' = [request EXCEPT ![q] = [r EXCEPT !.pc = pc, !.n = n]]
        PROVE  Goal
    <3> DEFINE x == [r EXCEPT !.pc = pc, !.n = n]
    <3>1. pc \in Steps /\ pc \in PruneSteps
      BY Names DEF PruneSteps
    <3>2. x \in RequestRecord /\ x.pc = pc /\ x.kind = r.kind /\ x.copy = r.copy
      BY <1>0, <3>1 DEF RequestRecord
    <3>3. request' = [request EXCEPT ![q] = x]
      BY <2>4
    <3> HIDE DEF x
    <3>4. Local(x)
      BY <2>1, <3>1, <3>2, Names DEF Local, PruneSteps, DecideSteps, SaveSteps
    <3>5. Plain(q, x)
      BY <1>7, <2>1, <3>2, <3>3, <3>4 DEF Plain, Shape, Honest
    <3> QED
      BY <2>2, <3>5 DEF Effect
  <2> QED
    BY <1>7, <2>3, <2>4
<1>8. CASE ListVersions(q)
  <2>1. r.pc \in PruneSteps /\ UNCHANGED <<docvars, apvars, tokens>>
    BY <1>8 DEF ListVersions, At, PruneSteps
  <2>2. \/ request' = [request EXCEPT ![q] = AfterSave(r)]
        \/ \E v \in Numbers : request' = [request EXCEPT ![q] = [r EXCEPT !.pc = "drop", !.n = v]]
    BY <1>8 DEF ListVersions
  <2>3. Numbers \subseteq 0 .. MaxVersion /\ versions \in Stored /\ files \in Stored
    BY <1>0 DEF Numbers, DocType
  <2> QED
    BY <1>7, <2>1, <2>2, <2>3 DEF docvars
<1>9. CASE DeleteVersion(q)
  <2>1. /\ r.pc \in PruneSteps /\ UNCHANGED <<doc, deleted, files, apvars, tokens>>
        /\ versions' = [versions EXCEPT ![r.n] = "none"]
    BY <1>9 DEF DeleteVersion, At, PruneSteps
  <2>2. Prunes(q) /\ r.kind # "decide" /\ Limit > 0
    BY <1>0, <2>1, Saver DEF Local, Prunes
  <2>3. DocType'
    BY <1>0, <1>d, <2>1, StoredType DEF DocType
  <2> DEFINE x == [r EXCEPT !.pc = "unlink"]
  <2>4. x \in RequestRecord /\ x.pc = "unlink" /\ x.kind = r.kind /\ x.copy = r.copy
    BY <1>0, Names DEF RequestRecord, PruneSteps
  <2>5. request' = [request EXCEPT ![q] = x]
    BY <1>9 DEF DeleteVersion, Goto
  <2> HIDE DEF x
  <2>6. Local(x)
    BY <2>2, <2>4, Names DEF Local, PruneSteps, DecideSteps, SaveSteps
  <2>7. Plain(q, x)
    BY <2>1, <2>2, <2>4, <2>5, <2>6 DEF Plain, Shape, Honest
  <2> QED
    BY <2>1, <2>2, <2>3, <2>7 DEF Effect
<1>10. CASE RemoveFile(q)
  <2>1. /\ r.pc \in PruneSteps /\ UNCHANGED <<doc, deleted, versions, apvars, tokens>>
        /\ files' = [files EXCEPT ![r.n] = "none"]
        /\ request' = [request EXCEPT ![q] = AfterSave(r)]
    BY <1>10 DEF RemoveFile, At, PruneSteps
  <2>2. files' \in Stored /\ versions \in Stored
    BY <1>0, <1>d, <2>1, StoredType DEF DocType
  <2> QED
    BY <1>7, <2>1, <2>2
<1>11. CASE UpdateRow(q)
  <2>1. /\ r.pc = "update" /\ r.kind # "decide" /\ doc' = r.copy /\ End(q)
        /\ UNCHANGED <<deleted, versions, files, apvars, tokens>>
    BY <1>11 DEF UpdateRow, At, UpdateDocument
  <2>2. DocType'
    BY <1>0, <2>1 DEF DocType
  <2>3. Idle.copy.ver = 0 /\ Idle.copy.status = "draft" /\ Idle.pc = "idle" /\ Idle.kind # "decide"
    BY IdleType, NewDocumentType
  <2>4. Plain(q, Idle) /\ Quiet(q, Idle)
    BY <2>1, <2>3, IdleType DEF End, Plain, Shape, Quiet, Honest
  <2> QED
    BY <2>1, <2>2, <2>4 DEF Effect
<1>12. CASE RemoveDir(q)
  <2>1. /\ r.pc = "rmdir" /\ End(q) /\ files' = [v \in Numbers |-> "none"]
        /\ UNCHANGED <<doc, deleted, versions, apvars, tokens>>
    BY <1>12 DEF RemoveDir, At
  <2>2. DocType'
    BY <1>0, <2>1 DEF DocType, Stored
  <2>3. Idle.copy.status = "draft" /\ Idle.kind # "decide"
    BY IdleType, NewDocumentType
  <2>4. Plain(q, Idle) /\ RemovesDir(q, Idle)
    BY <2>1, <2>3, IdleType DEF End, Plain, Shape, RemovesDir, Honest
  <2> QED
    BY <2>1, <2>2, <2>4 DEF Effect
<1> QED
  BY <1>1, <1>2, <1>3, <1>4, <1>5, <1>6, <1>8, <1>9, <1>10, <1>11, <1>12 DEF SaveStep

-----------------------------------------------------------------------------
\* What is true of an approval a of which g was given.
Complete(a, g) == a.asked # {} /\ a.asked \subseteq g
EarlierGiven(a, g, stage) == \A p \in a.asked : p[2] < stage => p \in g
ApprovalOK(a, g) ==
  /\ g \subseteq a.asked /\ a.yes \subseteq g
  /\ a.status = "none" => a.asked = {}
  /\ a.status # "none" => a.asked # {} /\ EarlierGiven(a, g, a.stage)
  /\ a.status = "approved" => a.asked \subseteq g

\* What a request that decides on it holds of it.
Decided(x, a, g) ==
  x.kind = "decide" =>
    /\ a.status # "none" /\ EarlierGiven(a, g, x.ap.stage)
    /\ x.ap.status = "approved" => a.asked \subseteq g
    /\ x.pc \in {"parts", "save"} => x.ap.status = "review" /\ x.pair[2] = x.ap.stage
    /\ x.pc = "save" => x.ap.asked = a.asked /\ x.ap.yes \subseteq g /\ x.pair \in a.asked

Someone == \E i \in Ids : Complete(approvals[i], given[i])

Approved ==
  /\ Types
  /\ \A i \in Ids : ApprovalOK(approvals[i], given[i])
  /\ \A q \in Requests : Decided(request[q], approvals[request[q].n], given[request[q].n])
  /\ doc.status = "approved" => Someone
  /\ \A q \in Requests : request[q].copy.status = "approved" => Someone

\* The steps of Approval, from a and g to b and h.
ApprovalStep(a, g, b, h) ==
  \/ a.asked = b.asked /\ a.status = b.status /\ g = h
  \/ /\ a.status = "none" /\ b.status = "review" /\ b.asked \in (SUBSET Pairs) \ {{}} /\ g = h
  \/ /\ a.asked = b.asked /\ a.status = b.status
     /\ \E p \in a.asked : EarlierGiven(a, g, p[2]) /\ h = g \union {p}
  \/ /\ a.asked = b.asked /\ g = h /\ a.status \in {"review", "returned"}
     /\ b.status = "approved" /\ a.asked \subseteq g
  \/ /\ a.asked = b.asked /\ g = h /\ a.status \in Verdicts /\ b.status \in {"review", "returned"}
  \/ a.asked = b.asked /\ g = h /\ a.status # "none" /\ b.status = "gone"

ApprovalType ==
  /\ approvals \in [Ids -> Approvals] /\ given \in [Ids -> SUBSET Pairs]
  /\ \A i \in Ids : Begun(approvals[i]) /\ ApprovalOK(approvals[i], given[i])
Steps1 == \A i \in Ids : ApprovalStep(approvals[i], given[i], approvals'[i], given'[i])

LEMMA ApprovalTyped ==
  ASSUME Approved
  PROVE  ApprovalType
BY DEF Approved, Types, TypeOK, ApprovalType

LEMMA Stutters ==
  ASSUME Approved, UNCHANGED apvars
  PROVE  ApprovalType' /\ Steps1
<1>1. ApprovalType /\ approvals' = approvals /\ given' = given
  BY ApprovalTyped DEF apvars
<1> QED
  BY <1>1 DEF ApprovalType, Steps1, ApprovalStep

\* One approval changes.
LEMMA OneApproval ==
  ASSUME Approved, NEW n \in Ids, NEW b \in Approvals, NEW h \in SUBSET Pairs,
         approvals' = [approvals EXCEPT ![n] = b], given' = [given EXCEPT ![n] = h],
         Begun(b), ApprovalOK(b, h), ApprovalStep(approvals[n], given[n], b, h)
  PROVE  ApprovalType' /\ Steps1
<1>1. ApprovalType
  BY ApprovalTyped
<1>2. /\ approvals' \in [Ids -> Approvals] /\ given' \in [Ids -> SUBSET Pairs]
      /\ approvals'[n] = b /\ given'[n] = h
      /\ \A i \in Ids \ {n} : approvals'[i] = approvals[i] /\ given'[i] = given[i]
  BY <1>1 DEF ApprovalType
<1>3. \A i \in Ids \ {n} : ApprovalStep(approvals[i], given[i], approvals'[i], given'[i])
  BY <1>2 DEF ApprovalStep
<1>4. Steps1
  BY <1>2, <1>3 DEF Steps1
<1>5. \A i \in Ids : Begun(approvals'[i]) /\ ApprovalOK(approvals'[i], given'[i])
  BY <1>1, <1>2 DEF ApprovalType
<1> QED
  BY <1>2, <1>4, <1>5 DEF ApprovalType

\* What others hold stays true.
LEMMA Grows ==
  ASSUME NEW a, NEW g, NEW b, NEW h, ApprovalStep(a, g, b, h), a.status # "none"
  PROVE  b.status # "none" /\ b.asked = a.asked /\ g \subseteq h
BY DEF ApprovalStep, Verdicts

LEMMA DecidedKept ==
  ASSUME NEW x, NEW a, NEW g, NEW b, NEW h, ApprovalStep(a, g, b, h), Decided(x, a, g)
  PROVE  Decided(x, b, h)
BY Grows DEF Decided, EarlierGiven

LEMMA SomeoneKept ==
  ASSUME Approved, Steps1, Someone
  PROVE  Someone'
<1>1. PICK i \in Ids : Complete(approvals[i], given[i])
  BY DEF Someone
<1>2. approvals[i].status # "none"
  BY <1>1 DEF Approved, ApprovalOK, Complete
<1>3. approvals'[i].asked = approvals[i].asked /\ given[i] \subseteq given'[i]
  BY <1>2, Grows DEF Steps1
<1> QED
  BY <1>1, <1>3 DEF Complete, Someone

\* One request goes on to x, the approvals as they may.
LEMMA ApprovedStep ==
  ASSUME Approved, NEW q \in Requests, NEW x, Shape(q, x), DocType',
         tokens' \in [Numbers -> 0 .. MaxTokens], ApprovalType', Steps1,
         Decided(x, approvals'[x.n], given'[x.n]),
         doc'.status = "approved" => Someone', x.copy.status = "approved" => Someone'
  PROVE  Approved'
<1>1. request \in [Requests -> RequestRecord]
  BY DEF Approved, Types, TypeOK
<1>2. /\ request' \in [Requests -> RequestRecord] /\ request'[q] = x
      /\ \A w \in Requests \ {q} : request'[w] = request[w]
  BY <1>1 DEF Shape
<1>3. Types'
  BY <1>2 DEF Types, TypeOK, DocType, ApprovalType, Stored, Shape, Approved
<1>4. \A w \in Requests : Decided(request'[w], approvals'[request'[w].n], given'[request'[w].n])
  <2> SUFFICES ASSUME NEW w \in Requests \ {q}, request[w].kind = "decide"
               PROVE  Decided(request[w], approvals'[request[w].n], given'[request[w].n])
    BY <1>2 DEF Decided
  <2>1. request[w].n \in Ids
    BY DEF Approved, Types, Local
  <2>2. Decided(request[w], approvals[request[w].n], given[request[w].n])
    BY DEF Approved
  <2> QED
    BY <2>1, <2>2, DecidedKept DEF Steps1
<1>5. \A w \in Requests : request'[w].copy.status = "approved" => Someone'
  BY <1>2, SomeoneKept DEF Approved
<1> QED
  BY <1>3, <1>4, <1>5 DEF Approved, ApprovalType

\* The steps of the requests that approve nothing.
LEMMA PlainApproved ==
  ASSUME Approved, NEW q \in Requests, NEW x, Plain(q, x), DocType',
         tokens' \in [Numbers -> 0 .. MaxTokens]
  PROVE  Approved' /\ Steps1
<1>1. ApprovalType' /\ Steps1 /\ Shape(q, x) /\ x.kind # "decide"
  BY Stutters DEF Plain
<1>2. doc.status = "approved" \/ request[q].copy.status = "approved" => Someone'
  BY <1>1, SomeoneKept DEF Approved
<1>3. Decided(x, approvals'[x.n], given'[x.n])
  BY <1>1 DEF Decided
<1> QED
  BY <1>1, <1>2, <1>3, ApprovedStep DEF Plain, Honest

\* Time passes for the others.
LEMMA QuietApproved ==
  ASSUME Approved, UNCHANGED <<docvars, request>>, tokens' \in [Numbers -> 0 .. MaxTokens],
         ApprovalType', Steps1
  PROVE  Approved'
<1>1. Types'
  BY DEF Types, TypeOK, ApprovalType, Approved, docvars
<1>2. \A w \in Requests : Decided(request[w], approvals'[request[w].n], given'[request[w].n])
  <2> SUFFICES ASSUME NEW w \in Requests, request[w].kind = "decide"
               PROVE  Decided(request[w], approvals'[request[w].n], given'[request[w].n])
    BY DEF Decided
  <2>1. request[w].n \in Ids
    BY DEF Approved, Types, Local
  <2>2. Decided(request[w], approvals[request[w].n], given[request[w].n])
    BY DEF Approved
  <2> QED
    BY <2>1, <2>2, DecidedKept DEF Steps1
<1>3. Someone => Someone'
  BY SomeoneKept
<1> QED
  BY <1>1, <1>2, <1>3 DEF Approved, ApprovalType, docvars

-----------------------------------------------------------------------------
LEMMA OutcomeType ==
  ASSUME NEW status \in Verdicts, NEW stage \in Stages
  PROVE  /\ Outcome(status, stage) \in Approvals
         /\ Outcome(status, stage).status = status /\ Outcome(status, stage).stage = stage
<1>1. stage \in 0 .. MaxStage
  BY StageAssumption DEF Stages
<1> QED
  BY <1>1, NoApprovalType DEF Outcome, Approvals, Verdicts

\* What a decision makes of what it has read is true of the approval once its own is given.
LEMMA JudgedSound ==
  ASSUME NEW a \in Approvals, a.stage \in Stages, NEW p \in a.asked, p[2] = a.stage,
         NEW g, a.yes \subseteq g, EarlierGiven(a, g, a.stage)
  PROVE  LET j == Judged(a, p)
         IN  /\ j \in Approvals /\ j.status \in Verdicts /\ j.stage \in Stages
             /\ EarlierGiven(a, g \union {p}, j.stage)
             /\ j.status = "approved" => a.asked \subseteq g \union {p}
<1> DEFINE rest == {x \in a.asked : x[2] = a.stage} \ {p}
           j == Judged(a, p)
<1>0. /\ \A x \in a.asked : x[2] \in Stages
      /\ {"review", "returned", "approved"} \subseteq Verdicts
  BY DEF Approvals, Pairs, Verdicts
<1>1. CASE rest \intersect a.no # {}
  <2>1. j = Outcome("returned", a.stage)
    BY <1>1 DEF Judged
  <2> QED
    BY <1>0, <2>1, OutcomeType DEF EarlierGiven
<1>2. CASE rest \intersect a.no = {} /\ ~(rest \subseteq a.yes)
  <2>1. j = Outcome("review", a.stage)
    BY <1>2 DEF Judged
  <2> QED
    BY <1>0, <2>1, OutcomeType DEF EarlierGiven
<1>3. CASE rest \intersect a.no = {} /\ rest \subseteq a.yes
  <2>1. \A x \in a.asked : x[2] <= a.stage => x \in g \union {p}
    BY <1>0, <1>3 DEF EarlierGiven, Stages
  <2>2. CASE \E x \in a.asked : x[2] > a.stage
    <3>1. j = Outcome("review", a.stage + 1)
      BY <1>3, <2>2 DEF Judged
    <3>2. a.stage + 1 \in Stages
      BY <1>0, <2>2, StageAssumption DEF Stages
    <3>3. \A x \in a.asked : x[2] < a.stage + 1 => x[2] <= a.stage
      BY <1>0 DEF Stages
    <3> QED
      BY <1>0, <2>1, <3>1, <3>2, <3>3, OutcomeType DEF EarlierGiven
  <2>3. CASE ~\E x \in a.asked : x[2] > a.stage
    <3>1. j = Outcome("approved", a.stage)
      BY <1>3, <2>3 DEF Judged
    <3>2. a.asked \subseteq g \union {p}
      BY <1>0, <2>1, <2>3 DEF Stages
    <3> QED
      BY <1>0, <3>1, <3>2, OutcomeType DEF EarlierGiven
  <2> QED
    BY <2>2, <2>3
<1> QED
  BY <1>1, <1>2, <1>3

\* What a decision on an approval knows.
LEMMA Deciding ==
  ASSUME Approved, NEW q \in Requests, request[q].kind = "decide"
  PROVE  LET n == request[q].n
         IN  /\ n \in Ids /\ approvals[n] \in Approvals /\ given[n] \in SUBSET Pairs
             /\ Begun(approvals[n]) /\ ApprovalOK(approvals[n], given[n])
             /\ Decided(request[q], approvals[n], given[n])
             /\ approvals[n].status # "none" /\ approvals[n].asked # {}
             /\ request[q] \in RequestRecord /\ Local(request[q])
             /\ request[q].ap \in Approvals
             /\ request[q].ap.status \in Verdicts /\ request[q].ap.stage \in Stages
<1>1. request[q].n \in Ids /\ request[q] \in RequestRecord /\ Local(request[q])
      /\ request[q].ap.status \in Verdicts /\ request[q].ap.stage \in Stages
  BY Typed DEF Approved, Local
<1>2. request[q].ap \in Approvals
  BY <1>1 DEF RequestRecord
<1>3. ApprovalType /\ Decided(request[q], approvals[request[q].n], given[request[q].n])
  BY ApprovalTyped DEF Approved
<1> QED
  BY <1>1, <1>2, <1>3 DEF ApprovalType, Decided, ApprovalOK

LEMMA DecisionShape ==
  ASSUME Approved, NEW q \in Requests, NEW i \in Ids, NEW u \in Approvers,
         ApprovalDecision(q, i, u)
  PROVE  Approved' /\ Steps1 /\ DocType' /\ \E x : Shape(q, x) /\ Quiet(q, x)
<1> DEFINE stage == approvals[i].stage
           ap == Outcome("review", stage)
           x == [Idle EXCEPT !.kind = "decide", !.pc = "parts", !.n = i,
                             !.pair = <<u, stage>>, !.ap = ap]
<1>1. /\ approvals[i].status = "review" /\ request' = [request EXCEPT ![q] = x]
      /\ UNCHANGED <<docvars, apvars, tokens>>
  BY DEF ApprovalDecision
<1>2. ApprovalType /\ DocType /\ tokens \in [Numbers -> 0 .. MaxTokens]
  BY ApprovalTyped, DocTyped DEF Approved, Types, TypeOK
<1>3. stage \in Stages /\ EarlierGiven(approvals[i], given[i], stage)
  BY <1>1, <1>2 DEF ApprovalType, Begun, ApprovalOK
<1>4. ap \in Approvals /\ ap.status = "review" /\ ap.stage = stage /\ "review" \in Verdicts
  BY <1>3, OutcomeType DEF Verdicts
<1>5. <<u, stage>> \in Pairs
  BY <1>3 DEF Pairs
<1> HIDE DEF ap, stage
<1>6. x \in RequestRecord
  BY <1>4, <1>5, IdleType, Names DEF RequestRecord, DecideSteps
<1>7. /\ x.kind = "decide" /\ x.pc = "parts" /\ x.n = i /\ x.pair = <<u, stage>> /\ x.ap = ap
      /\ x.copy = NewDocument
  BY IdleType DEF RequestRecord
<1> HIDE DEF x
<1>8. Local(x)
  BY <1>3, <1>4, <1>5, <1>7, Names DEF Local, DecideSteps, SaveSteps, PruneSteps
<1>9. Shape(q, x)
  BY <1>1, <1>6, <1>8 DEF Shape
<1>10. Decided(x, approvals[i], given[i])
  BY <1>1, <1>3, <1>4, <1>7 DEF Decided
<1>11. ApprovalType' /\ Steps1 /\ DocType'
  BY <1>1, <1>2, Stutters DEF DocType, docvars
<1>12. doc'.status = "approved" => Someone'
  BY <1>1, <1>11, SomeoneKept DEF Approved, docvars
<1>13. Approved'
  BY <1>1, <1>2, <1>7, <1>9, <1>10, <1>11, <1>12, ApprovedStep, NewDocumentType DEF apvars
<1>14. Quiet(q, x)
  BY <1>1, <1>7, NewDocumentType DEF Quiet, docvars
<1> QED
  BY <1>9, <1>11, <1>13, <1>14

LEMMA StageOne == \A plan \in Plans : plan # {} /\ plan \in SUBSET Pairs /\ 1 \in Stages
<1> SUFFICES ASSUME NEW plan \in Plans PROVE plan # {} /\ plan \in SUBSET Pairs /\ 1 \in Stages
  OBVIOUS
<1>1. plan # {} /\ plan \in SUBSET Pairs
  <2>1. Pairs = Approvers \X (1 .. MaxStage)
    BY DEF Pairs, Stages
  <2>2. Plans \subseteq (SUBSET Pairs) \ {{}}
    BY <2>1, PlansAssumption
  <2> QED
    BY <2>2
<1>2. PICK p \in plan : p[2] \in Stages
  BY <1>1 DEF Pairs
<1> QED
  BY <1>1, <1>2, StageAssumption DEF Stages

LEMMA CreateShape ==
  ASSUME Approved, NEW q \in Requests, NEW i \in Ids, NEW plan \in Plans,
         CreateApproval(q, i, plan)
  PROVE  Approved' /\ Steps1 /\ DocType' /\ \E x : Shape(q, x) /\ Quiet(q, x)
<1> DEFINE r == request[q]
           b == NewApproval(plan)
           x == [r EXCEPT !.pc = "update", !.copy.status = "review"]
<1>1. /\ r.pc = "ask" /\ approvals[i].status = "none"
      /\ approvals' = [approvals EXCEPT ![i] = b]
      /\ request' = [request EXCEPT ![q] = x]
      /\ UNCHANGED <<docvars, given, tokens>>
  BY DEF CreateApproval, At
<1>2. /\ ApprovalType /\ DocType /\ tokens \in [Numbers -> 0 .. MaxTokens]
      /\ r \in RequestRecord /\ Local(r) /\ r.copy.ver \in 0 .. MaxVersion
  BY ApprovalTyped, DocTyped, Typed DEF Approved, Types, TypeOK
<1>3. plan # {} /\ plan \in SUBSET Pairs /\ 1 \in Stages /\ 1 \in 0 .. MaxStage
  BY StageOne, StageAssumption DEF Stages
<1>4. /\ b \in Approvals /\ b.status = "review" /\ b.stage = 1 /\ b.asked = plan /\ b.yes = {}
  BY <1>3, NoApprovalType DEF NewApproval, Approvals
<1>5. given[i] = {} /\ given[i] \in SUBSET Pairs
  BY <1>1, <1>2 DEF ApprovalType, ApprovalOK
<1> HIDE DEF b
<1>6. Begun(b) /\ ApprovalStep(approvals[i], given[i], b, given[i])
  <2>1. b.asked \in (SUBSET Pairs) \ {{}}
    BY <1>3, <1>4
  <2>2. ApprovalStep(approvals[i], given[i], b, given[i])
    BY <1>1, <1>4, <2>1 DEF ApprovalStep
  <2> QED
    BY <1>3, <1>4, <2>2 DEF Begun
<1>7. ApprovalOK(b, given[i])
  BY <1>3, <1>4, <1>5 DEF ApprovalOK, EarlierGiven, Pairs, Stages
<1>8. given' = [given EXCEPT ![i] = given[i]]
  BY <1>1, <1>2 DEF ApprovalType
<1>9. ApprovalType' /\ Steps1
  BY <1>1, <1>4, <1>5, <1>6, <1>7, <1>8, OneApproval
<1>10. "review" \in Statuses /\ r.kind # "decide"
  BY <1>1, <1>2, Names DEF Statuses, Local, DecideSteps
<1>11. /\ x \in RequestRecord /\ x.pc = "update" /\ x.kind = r.kind /\ x.copy.status = "review"
       /\ x.copy.ver = r.copy.ver
  BY <1>2, <1>10, Names DEF RequestRecord, Rows
<1> HIDE DEF x
<1>12. Local(x) /\ Decided(x, approvals'[x.n], given'[x.n])
  BY <1>10, <1>11, Names DEF Local, Decided
<1>13. Shape(q, x) /\ DocType'
  BY <1>1, <1>2, <1>11, <1>12 DEF Shape, DocType, docvars
<1>14. doc'.status = "approved" => Someone'
  BY <1>1, <1>9, SomeoneKept DEF Approved, docvars
<1>15. Approved'
  BY <1>1, <1>2, <1>9, <1>11, <1>12, <1>13, <1>14, ApprovedStep
<1>16. Quiet(q, x)
  BY <1>1, <1>11 DEF Quiet, docvars
<1> QED
  BY <1>9, <1>13, <1>15, <1>16

\* A decision that ends, or goes on to x without changing an approval.
LEMMA DecisionGoesOn ==
  ASSUME Approved, NEW q \in Requests, NEW x, Shape(q, x), UNCHANGED <<approvals, given, tokens>>,
         DocType', Decided(x, approvals[x.n], given[x.n]),
         doc'.status = "approved" => Someone, x.copy.status = "approved" => Someone
  PROVE  Approved' /\ Steps1
<1>1. ApprovalType' /\ Steps1
  BY Stutters DEF apvars
<1>2. Someone => Someone'
  BY <1>1, SomeoneKept
<1>3. tokens' \in [Numbers -> 0 .. MaxTokens]
  BY DEF Approved, Types, TypeOK
<1> QED
  BY <1>1, <1>2, <1>3, ApprovedStep

LEMMA DecisionEnds ==
  ASSUME Approved, NEW q \in Requests, End(q), UNCHANGED <<docvars, apvars, tokens>>
  PROVE  Approved' /\ Steps1 /\ DocType' /\ Shape(q, Idle) /\ Quiet(q, Idle)
<1>1. Plain(q, Idle) /\ Quiet(q, Idle)
  BY EndShape DEF Approved
<1>2. DocType' /\ tokens' \in [Numbers -> 0 .. MaxTokens]
  BY DocTyped DEF Approved, Types, TypeOK, DocType, docvars
<1> QED
  BY <1>1, <1>2, PlainApproved DEF Plain

LEMMA ReadParticipantsShape ==
  ASSUME Approved, NEW q \in Requests, ReadParticipants(q)
  PROVE  Approved' /\ Steps1 /\ DocType' /\ \E x : Shape(q, x) /\ Quiet(q, x)
<1> DEFINE r == request[q]
           a == approvals[r.n]
           ap == [a EXCEPT !.status = r.ap.status, !.stage = r.ap.stage]
           x == [r EXCEPT !.pc = "save", !.ap = ap]
<1>1. /\ r.pc = "parts" /\ UNCHANGED <<docvars, apvars, tokens>>
      /\ \/ End(q)
         \/ a.status # "gone" /\ r.pair \in a.asked /\ request' = [request EXCEPT ![q] = x]
  BY DEF ReadParticipants, At, End
<1>2. r.kind = "decide"
  BY <1>1, Typed DEF Approved, Local, DecideSteps
<1>3. /\ r.n \in Ids /\ a \in Approvals /\ ApprovalOK(a, given[r.n]) /\ a.status # "none"
      /\ Decided(r, a, given[r.n])
      /\ r \in RequestRecord /\ Local(r) /\ r.ap.status \in Verdicts /\ r.ap.stage \in Stages
  BY <1>2, Deciding
<1>4. CASE a.status # "gone" /\ r.pair \in a.asked /\ request' = [request EXCEPT ![q] = x]
  <2>1. /\ ap \in Approvals /\ ap.status = r.ap.status /\ ap.stage = r.ap.stage
        /\ ap.asked = a.asked /\ ap.yes = a.yes
    <3>1. r.ap.stage \in 0 .. MaxStage /\ r.ap.status \in Verdicts /\ a \in Approvals
      BY <1>3, StageAssumption DEF Stages
    <3> HIDE DEF a, r
    <3> QED
      BY <3>1 DEF Approvals, Verdicts
  <2> HIDE DEF ap
  <2>2. /\ x \in RequestRecord /\ x.pc = "save" /\ x.kind = "decide" /\ x.n = r.n
        /\ x.pair = r.pair /\ x.ap = ap /\ x.copy = r.copy
    BY <1>2, <1>3, <2>1, Names DEF RequestRecord, DecideSteps
  <2>3. request' = [request EXCEPT ![q] = x]
    BY <1>4 DEF ap
  <2> HIDE DEF x
  <2>4. Local(x)
    BY <1>1, <1>3, <2>1, <2>2, Names DEF Local, DecideSteps, SaveSteps, PruneSteps
  <2>5. Decided(x, a, given[r.n])
    BY <1>1, <1>2, <1>3, <1>4, <2>1, <2>2 DEF Decided, ApprovalOK
  <2>6. Shape(q, x) /\ DocType' /\ UNCHANGED <<doc, approvals, given, tokens>>
    BY <1>1, <2>2, <2>3, <2>4, DocTyped DEF Shape, DocType, docvars, apvars, Approved
  <2>7. /\ doc'.status = "approved" => Someone
        /\ x.copy.status = "approved" => Someone
    BY <2>2, <2>6 DEF Approved
  <2>8. Approved' /\ Steps1
    BY <2>2, <2>5, <2>6, <2>7, DecisionGoesOn
  <2>9. Quiet(q, x)
    BY <1>1, <2>2 DEF Quiet, docvars
  <2> QED
    BY <2>6, <2>8, <2>9
<1> QED
  BY <1>1, <1>4, DecisionEnds

\* SaveApprovalDecision with b and h, and the verdict j.
LEMMA SaveShape1 ==
  ASSUME Approved, NEW q \in Requests, request[q].pc = "save",
         NEW b \in Approvals, NEW h \in SUBSET Pairs, NEW j \in Approvals,
         approvals' = [approvals EXCEPT ![request[q].n] = b],
         given' = [given EXCEPT ![request[q].n] = h],
         request' = [request EXCEPT ![q] = [request[q] EXCEPT !.pc = "reread", !.pair = <<>>, !.ap = j]],
         UNCHANGED <<docvars, tokens>>,
         b.status = approvals[request[q].n].status, b.stage = approvals[request[q].n].stage,
         b.asked = approvals[request[q].n].asked, b.yes \subseteq h,
         \/ h = given[request[q].n] 
         \/ h = given[request[q].n] \union {request[q].pair},
         j.status \in Verdicts, j.stage \in Stages,
         EarlierGiven(approvals[request[q].n], h, j.stage),
         j.status = "approved" => approvals[request[q].n].asked \subseteq h
  PROVE  Approved' /\ Steps1 /\ DocType' /\ \E x : Shape(q, x) /\ Quiet(q, x)
<1> DEFINE r == request[q]
           n == r.n
           x == [r EXCEPT !.pc = "reread", !.pair = <<>>, !.ap = j]
<1>1. r.kind = "decide"
  BY Typed DEF Approved, Local, DecideSteps
<1>2. /\ n \in Ids /\ approvals[n] \in Approvals /\ given[n] \in SUBSET Pairs
      /\ Begun(approvals[n]) /\ ApprovalOK(approvals[n], given[n]) /\ Decided(r, approvals[n], given[n])
      /\ approvals[n].status # "none" /\ r \in RequestRecord /\ Local(r)
  BY <1>1, Deciding
<1>3. /\ r.pair \in approvals[n].asked /\ r.pair[2] = r.ap.stage
      /\ EarlierGiven(approvals[n], given[n], r.pair[2])
  BY <1>1, <1>2 DEF Decided
<1>4. ApprovalStep(approvals[n], given[n], b, h)
  BY <1>3 DEF ApprovalStep
<1>5. Begun(b) /\ ApprovalOK(b, h)
  BY <1>2, <1>3 DEF Begun, ApprovalOK, EarlierGiven
<1>6. ApprovalType' /\ Steps1
  BY <1>2, <1>4, <1>5, OneApproval
<1>7. /\ x \in RequestRecord /\ x.pc = "reread" /\ x.kind = "decide" /\ x.n = n
      /\ x.ap = j /\ x.copy = r.copy
  BY <1>1, <1>2, Names DEF RequestRecord, DecideSteps
<1>8. request' = [request EXCEPT ![q] = x]
  OBVIOUS
<1> HIDE DEF x
<1>9. Local(x)
  BY <1>2, <1>7, Names DEF Local, DecideSteps, SaveSteps, PruneSteps
<1>10. approvals'[n] = b /\ given'[n] = h
  BY <1>2, ApprovalTyped DEF ApprovalType
<1>11. Decided(x, b, h)
  BY <1>2, <1>7 DEF Decided, EarlierGiven
<1>12. Shape(q, x) /\ DocType' /\ doc' = doc
  BY <1>7, <1>8, <1>9, DocTyped DEF Shape, DocType, docvars, Approved
<1>13. Someone => Someone'
  BY <1>6, SomeoneKept
<1>14. /\ doc'.status = "approved" => Someone'
       /\ x.copy.status = "approved" => Someone'
       /\ tokens' \in [Numbers -> 0 .. MaxTokens]
  BY <1>7, <1>12, <1>13 DEF Approved, Types, TypeOK
<1>15. Approved'
  BY <1>6, <1>7, <1>10, <1>11, <1>12, <1>14, ApprovedStep
<1>16. Quiet(q, x)
  BY <1>7 DEF Quiet, docvars
<1> QED
  BY <1>6, <1>12, <1>15, <1>16

LEMMA VoteShape ==
  ASSUME Approved, NEW q \in Requests, Approve(q) \/ Reject(q)
  PROVE  Approved' /\ Steps1 /\ DocType' /\ \E x : Shape(q, x) /\ Quiet(q, x)
<1> DEFINE r == request[q]
           n == r.n
           a == approvals[n]
           p == r.pair
<1>1. r.pc = "save" /\ r.kind = "decide"
  BY Typed DEF Approve, Reject, At, Approved, Local, DecideSteps
<1>2. /\ n \in Ids /\ a \in Approvals /\ given[n] \in SUBSET Pairs
      /\ ApprovalOK(a, given[n]) /\ Decided(r, a, given[n]) /\ a.status # "none"
      /\ r.ap \in Approvals /\ r.ap.stage \in Stages
  BY <1>1, Deciding
<1>3. /\ p \in a.asked /\ p[2] = r.ap.stage /\ r.ap.asked = a.asked /\ r.ap.yes \subseteq given[n]
      /\ EarlierGiven(a, given[n], r.ap.stage) /\ p \in Pairs
  BY <1>1, <1>2 DEF Decided, Approvals
<1>4. CASE Approve(q)
  <2> DEFINE b == [a EXCEPT !.yes = @ \union {p}, !.no = @ \ {p}]
             h == given[n] \union {p}
             j == Judged(r.ap, p)
  <2>1. /\ approvals' = [approvals EXCEPT ![n] = b]
        /\ given' = [given EXCEPT ![n] = h]
        /\ request' = [request EXCEPT ![q] = [r EXCEPT !.pc = "reread", !.pair = <<>>, !.ap = j]]
        /\ UNCHANGED <<docvars, tokens>>
    BY <1>2, <1>4, ApprovalTyped DEF Approve, ApprovalType
  <2>2. /\ b \in Approvals /\ b.status = a.status /\ b.stage = a.stage /\ b.asked = a.asked
        /\ b.yes = a.yes \union {p}
    BY <1>2, <1>3 DEF Approvals
  <2>3. h \in SUBSET Pairs /\ b.yes \subseteq h
    BY <1>2, <1>3, <2>2 DEF ApprovalOK
  <2>4. /\ j \in Approvals /\ j.status \in Verdicts /\ j.stage \in Stages
        /\ EarlierGiven(r.ap, h, j.stage)
        /\ j.status = "approved" => r.ap.asked \subseteq h
    <3>1. EarlierGiven(r.ap, given[n], r.ap.stage) /\ p \in r.ap.asked
      BY <1>3 DEF EarlierGiven
    <3> QED
      BY <1>2, <1>3, <3>1, JudgedSound
  <2> HIDE DEF b, h, j
  <2>5. EarlierGiven(a, h, j.stage) /\ (j.status = "approved" => a.asked \subseteq h)
    BY <1>3, <2>4 DEF EarlierGiven
  <2>6. h = given[n] \union {p}
    BY DEF h
  <2> QED
    BY <1>1, <2>1, <2>2, <2>3, <2>4, <2>5, <2>6, SaveShape1
<1>5. CASE Reject(q)
  <2> DEFINE b == [a EXCEPT !.no = @ \union {p}, !.yes = @ \ {p}]
             j == Outcome("returned", r.ap.stage)
  <2>1. /\ approvals' = [approvals EXCEPT ![n] = b]
        /\ given' = [given EXCEPT ![n] = given[n]]
        /\ request' = [request EXCEPT ![q] = [r EXCEPT !.pc = "reread", !.pair = <<>>, !.ap = j]]
        /\ UNCHANGED <<docvars, tokens>>
    BY <1>2, <1>5, ApprovalTyped DEF Reject, ApprovalType
  <2>2. /\ b \in Approvals /\ b.status = a.status /\ b.stage = a.stage /\ b.asked = a.asked
        /\ b.yes \subseteq a.yes
    BY <1>2, <1>3 DEF Approvals
  <2>3. b.yes \subseteq given[n]
    BY <1>2, <2>2 DEF ApprovalOK
  <2>4. /\ j \in Approvals /\ j.status = "returned" /\ j.status \in Verdicts
        /\ j.stage = r.ap.stage /\ j.stage \in Stages
    BY <1>2, OutcomeType DEF Verdicts
  <2> HIDE DEF b, j
  <2>5. EarlierGiven(a, given[n], j.stage) /\ j.status # "approved"
    BY <1>3, <2>4
  <2> QED
    BY <1>1, <1>2, <2>1, <2>2, <2>3, <2>4, <2>5, SaveShape1
<1> QED
  BY <1>4, <1>5

LEMMA RereadShape ==
  ASSUME Approved, NEW q \in Requests, RereadDocument(q)
  PROVE  Approved' /\ Steps1 /\ DocType' /\ \E x : Shape(q, x) /\ Quiet(q, x)
<1> DEFINE r == request[q]
           copy == [doc EXCEPT !.status = r.ap.status]
           x == [r EXCEPT !.pc = "update", !.copy = copy]
<1>1. /\ r.pc = "reread" /\ request' = [request EXCEPT ![q] = x]
      /\ UNCHANGED <<docvars, apvars, tokens>>
  BY DEF RereadDocument, At, GetDocument
<1>2. r.kind = "decide"
  BY <1>1, Typed DEF Approved, Local, DecideSteps
<1>3. /\ r.n \in Ids /\ Decided(r, approvals[r.n], given[r.n]) /\ approvals[r.n].asked # {}
      /\ r \in RequestRecord /\ Local(r) /\ r.ap.status \in Verdicts
  BY <1>2, Deciding
<1>4. doc \in Rows /\ r.ap.status \in Statuses
  BY <1>3, DocTyped DEF DocType, Approved, Verdicts, Statuses
<1>5. copy \in Rows /\ copy.ver = doc.ver /\ copy.status = r.ap.status
  BY <1>4 DEF Rows
<1> HIDE DEF copy
<1>6. /\ x \in RequestRecord /\ x.pc = "update" /\ x.kind = "decide" /\ x.n = r.n
      /\ x.pair = r.pair /\ x.ap = r.ap /\ x.copy = copy
  BY <1>2, <1>3, <1>5, Names DEF RequestRecord
<1>7. request' = [request EXCEPT ![q] = x]
  BY <1>1 DEF copy
<1> HIDE DEF x
<1>8. Local(x)
  BY <1>2, <1>3, <1>6, Names DEF Local
<1>9. Decided(x, approvals[x.n], given[x.n])
  BY <1>2, <1>3, <1>6 DEF Decided
<1>10. Shape(q, x) /\ DocType' /\ UNCHANGED <<doc, approvals, given, tokens>>
  BY <1>1, <1>6, <1>7, <1>8, DocTyped DEF Shape, DocType, docvars, apvars, Approved
<1>11. x.copy.status = "approved" => Someone
  BY <1>2, <1>3, <1>5, <1>6 DEF Decided, Someone, Complete
<1>12. Approved' /\ Steps1
  BY <1>9, <1>10, <1>11, DecisionGoesOn DEF Approved
<1>13. Quiet(q, x)
  BY <1>1, <1>5, <1>6 DEF Quiet, docvars
<1> QED
  BY <1>10, <1>12, <1>13

\* The decision goes on to settle, with the document written or not.
LEMMA SettleNext ==
  ASSUME Approved, NEW q \in Requests, request[q].kind = "decide",
         request' = [request EXCEPT ![q].pc = "settle", ![q].copy = NewDocument],
         doc' = doc \/ doc' = request[q].copy, UNCHANGED <<deleted, versions, files, apvars, tokens>>
  PROVE  Approved' /\ Steps1 /\ DocType' /\ \E x : Shape(q, x) /\ Quiet(q, x)
<1> DEFINE r == request[q]
           x == [r EXCEPT !.pc = "settle", !.copy = NewDocument]
<1>1. request' = [request EXCEPT ![q] = x]
  OBVIOUS
<1>2. /\ r.n \in Ids /\ Decided(r, approvals[r.n], given[r.n])
      /\ r \in RequestRecord /\ Local(r) /\ r.copy \in Rows
  BY Deciding, Typed DEF Approved
<1>3. /\ x \in RequestRecord /\ x.pc = "settle" /\ x.kind = "decide" /\ x.n = r.n
      /\ x.pair = r.pair /\ x.ap = r.ap /\ x.copy = NewDocument
  BY <1>2, NewDocumentType, Names DEF RequestRecord, DecideSteps
<1> HIDE DEF x
<1>4. Local(x)
  BY <1>2, <1>3, Names DEF Local, DecideSteps, SaveSteps, PruneSteps
<1>5. Decided(x, approvals[x.n], given[x.n])
  BY <1>2, <1>3 DEF Decided
<1>6. Shape(q, x)
  BY <1>1, <1>3, <1>4 DEF Shape
<1>7. DocType' /\ UNCHANGED <<approvals, given, tokens>>
  BY <1>2, DocTyped DEF DocType, apvars, Approved
<1>8. /\ doc'.status = "approved" => Someone
      /\ x.copy.status = "approved" => Someone
  BY <1>3, NewDocumentType DEF Approved
<1>9. Approved' /\ Steps1
  BY <1>5, <1>6, <1>7, <1>8, DecisionGoesOn
<1>10. Quiet(q, x)
  BY <1>3, NewDocumentType DEF Quiet
<1> QED
  BY <1>6, <1>7, <1>9, <1>10

LEMMA SettleShape ==
  ASSUME Approved, NEW q \in Requests, SettleApproval(q)
  PROVE  Approved' /\ Steps1 /\ DocType' /\ \E x : Shape(q, x) /\ Quiet(q, x)
<1> DEFINE r == request[q]
           n == r.n
           a == approvals[n]
           b == [a EXCEPT !.status = r.ap.status, !.stage = r.ap.stage]
<1>1. /\ r.pc = "settle" /\ End(q) /\ UNCHANGED <<docvars, given, tokens>>
      /\ approvals' = IF a.status = "gone" THEN approvals
                      ELSE [approvals EXCEPT ![n].status = r.ap.status, ![n].stage = r.ap.stage]
  BY DEF SettleApproval, At
<1>2. r.kind = "decide"
  BY <1>1, Typed DEF Approved, Local, DecideSteps
<1>3. /\ n \in Ids /\ a \in Approvals /\ given[n] \in SUBSET Pairs /\ ApprovalOK(a, given[n])
      /\ Decided(r, a, given[n]) /\ a.status # "none" /\ a.asked # {}
      /\ r.ap.status \in Verdicts /\ r.ap.stage \in Stages
  BY <1>2, Deciding
<1>4. CASE a.status = "gone"
  <2>1. UNCHANGED apvars
    BY <1>1, <1>4 DEF apvars
  <2> QED
    BY <1>1, <2>1, DecisionEnds
<1>5. CASE a.status # "gone"
  <2>1. approvals' = [approvals EXCEPT ![n] = b] /\ given' = [given EXCEPT ![n] = given[n]]
    BY <1>1, <1>3, <1>5, ApprovalTyped DEF ApprovalType
  <2>2. /\ b \in Approvals /\ b.status = r.ap.status /\ b.stage = r.ap.stage
        /\ b.asked = a.asked /\ b.yes = a.yes
    <3>1. r.ap.stage \in 0 .. MaxStage /\ r.ap.status \in Verdicts /\ a \in Approvals
      BY <1>3, StageAssumption DEF Stages
    <3> HIDE DEF a, r
    <3> QED
      BY <3>1 DEF Approvals, Verdicts
  <2> HIDE DEF b
  <2>3. /\ EarlierGiven(a, given[n], b.stage)
        /\ b.status = "approved" => a.asked \subseteq given[n]
    BY <1>2, <1>3, <2>2 DEF Decided
  <2>4. ApprovalOK(b, given[n]) /\ Begun(b)
    BY <1>3, <2>2, <2>3 DEF ApprovalOK, Begun, EarlierGiven, Verdicts
  <2>5. a.status \in Verdicts
    BY <1>3, <1>5 DEF Approvals, Verdicts
  <2>6. ApprovalStep(a, given[n], b, given[n])
    BY <1>3, <2>2, <2>3, <2>5 DEF ApprovalStep, Verdicts
  <2>7. ApprovalType' /\ Steps1
    BY <1>3, <2>1, <2>2, <2>4, <2>6, OneApproval
  <2>8. Shape(q, Idle) /\ Idle.kind # "decide" /\ Idle.copy.status = "draft" /\ Idle.copy.ver = 0
    BY <1>1, IdleType, NewDocumentType DEF End, Shape
  <2>9. DocType' /\ tokens' \in [Numbers -> 0 .. MaxTokens] /\ doc' = doc
    BY <1>1, DocTyped DEF DocType, docvars, Approved, Types, TypeOK
  <2>10. doc'.status = "approved" => Someone'
    BY <2>7, <2>9, SomeoneKept DEF Approved
  <2>11. Approved'
    BY <2>7, <2>8, <2>9, <2>10, ApprovedStep DEF Decided
  <2>12. Quiet(q, Idle)
    BY <1>1, <2>8, IdleType DEF Quiet, docvars
  <2> QED
    BY <2>7, <2>8, <2>9, <2>11, <2>12
<1> QED
  BY <1>4, <1>5

LEMMA CleanupShape ==
  ASSUME Approved, NEW all \in BOOLEAN, CleanupApprovals(all)
  PROVE  Approved' /\ Steps1
<1>1. /\ approvals' = [i \in Ids |->
                     IF approvals[i].status = "none" \/ (~all /\ approvals[i].status = "review")
                     THEN approvals[i] ELSE [approvals[i] EXCEPT !.status = "gone"]]
      /\ UNCHANGED <<docvars, given, tokens, request>>
  BY DEF CleanupApprovals
<1>2. ApprovalType
  BY ApprovalTyped
<1>3. ASSUME NEW i \in Ids
      PROVE  /\ approvals'[i] \in Approvals /\ Begun(approvals'[i])
             /\ ApprovalOK(approvals'[i], given[i])
             /\ ApprovalStep(approvals[i], given[i], approvals'[i], given[i])
  <2> DEFINE a == approvals[i]
             b == [a EXCEPT !.status = "gone"]
  <2>1. a \in Approvals /\ Begun(a) /\ ApprovalOK(a, given[i])
    BY <1>2 DEF ApprovalType
  <2>2. CASE approvals'[i] = a
    BY <2>1, <2>2 DEF ApprovalStep
  <2>3. CASE approvals'[i] = b /\ a.status # "none"
    <3>1. /\ b \in Approvals /\ b.status = "gone" /\ b.stage = a.stage /\ b.asked = a.asked
          /\ b.yes = a.yes
      BY <2>1 DEF Approvals
    <3> HIDE DEF b
    <3> QED
      BY <2>1, <2>3, <3>1 DEF Begun, ApprovalOK, ApprovalStep, EarlierGiven
  <2> QED
    BY <1>1, <2>2, <2>3
<1>4. ApprovalType' /\ Steps1
  BY <1>1, <1>2, <1>3 DEF ApprovalType, Steps1
<1>5. tokens' \in [Numbers -> 0 .. MaxTokens]
  BY <1>1 DEF Approved, Types, TypeOK
<1> QED
  BY <1>1, <1>4, <1>5, QuietApproved

LEMMA FailsShape ==
  ASSUME Approved, NEW q \in Requests, Fails(q)
  PROVE  Approved' /\ Steps1 /\ DocType' /\ \E x : Shape(q, x) /\ Effect(q, x)
<1> DEFINE r == request[q]
<1>1. UNCHANGED <<docvars, apvars, tokens>> /\ r \in RequestRecord /\ Types
  BY Typed DEF Fails, Approved
<1>2. CASE End(q)
  BY <1>1, <1>2, DecisionEnds DEF Effect
<1>3. CASE r.kind = "decide" /\ request' = [request EXCEPT ![q].pc = "settle", ![q].copy = NewDocument]
  BY <1>1, <1>3, SettleNext DEF Effect, docvars
<1>4. CASE r.pc \in {"list", "drop", "unlink"} /\ request' = [request EXCEPT ![q] = AfterSave(r)]
  <2>1. r.kind # "decide" /\ Prunes(q)
    BY <1>1, <1>4, Saver DEF PruneSteps, Prunes
  <2>2. Plain(q, AfterSave(r))
    BY <1>1, <1>4, <2>1, AfterSaveType DEF Plain, Shape, Honest, docvars
  <2>3. DocType' /\ tokens' \in [Numbers -> 0 .. MaxTokens]
    BY <1>1, DocTyped DEF DocType, docvars, Types, TypeOK
  <2> QED
    BY <2>1, <2>2, <2>3, PlainApproved DEF Effect, Plain
<1> QED
  BY <1>2, <1>3, <1>4 DEF Fails

-----------------------------------------------------------------------------
\* Every step, in its effect on the approvals, and on the documents by one request.
LEMMA NextShape ==
  ASSUME Approved, [Next]_vars
  PROVE  /\ Approved' /\ Steps1
         /\ \/ UNCHANGED <<docvars, request>>
            \/ \E q \in Requests : \E x : Shape(q, x) /\ Effect(q, x)
<1>0. Types
  BY DEF Approved
<1>1. CASE UNCHANGED vars
  <2>1. UNCHANGED <<docvars, request>> /\ UNCHANGED apvars /\ tokens' \in [Numbers -> 0 .. MaxTokens]
    BY <1>0, <1>1 DEF vars, docvars, apvars, Types, TypeOK
  <2> QED
    BY <2>1, Stutters, QuietApproved
<1>2. ASSUME NEW q \in Requests, Arrive(q)
      PROVE  /\ Approved' /\ Steps1
             /\ UNCHANGED <<docvars, request>> \/ \E x : Shape(q, x) /\ Effect(q, x)
  <2>1. CASE UNCHANGED <<docvars, apvars, request>>
    BY <1>0, <1>2, <2>1, ArriveShape, Stutters, QuietApproved
  <2>2. CASE \E x : Plain(q, x) /\ Quiet(q, x)
    BY <1>0, <1>2, <2>2, ArriveShape, PlainApproved DEF Plain, Effect
  <2>3. CASE \E i \in Ids, u \in Approvers : ApprovalDecision(q, i, u)
    BY <2>3, DecisionShape DEF Effect
  <2> QED
    BY <1>0, <1>2, <2>1, <2>2, <2>3, ArriveShape
<1>3. ASSUME NEW q \in Requests, SaveStep(q)
      PROVE  Approved' /\ Steps1 /\ \E x : Shape(q, x) /\ Effect(q, x)
  <2>1. /\ DocType' /\ tokens' \in [Numbers -> 0 .. MaxTokens]
        /\ \E x : Plain(q, x) /\ Effect(q, x)
    BY <1>0, <1>3, SaveShape DEF Types, TypeOK
  <2> QED
    BY <2>1, PlainApproved DEF Plain
<1>4. ASSUME NEW q \in Requests, DecideStep(q)
      PROVE  Approved' /\ Steps1 /\ \E x : Shape(q, x) /\ Effect(q, x)
  <2>1. ASSUME DecideDocument(q)
        PROVE  Approved' /\ Steps1 /\ \E x : Shape(q, x) /\ Quiet(q, x)
    BY <2>1, SettleNext DEF DecideDocument, UpdateDocument, At
  <2> QED
    BY <1>4, <2>1, CreateShape, ReadParticipantsShape, VoteShape, RereadShape, SettleShape
    DEF DecideStep, Effect
<1>5. ASSUME NEW v \in Numbers, ForceSave(v) \/ LoseToken(v)
      PROVE  Approved' /\ Steps1 /\ UNCHANGED <<docvars, request>>
  <2>1. UNCHANGED <<docvars, request>> /\ UNCHANGED apvars
    BY <1>5 DEF ForceSave, LoseToken
  <2>2. tokens' \in [Numbers -> 0 .. MaxTokens]
    BY <1>0, <1>5, BoundsAssumption DEF ForceSave, LoseToken, Consume, Types, TypeOK
  <2> QED
    BY <2>1, <2>2, Stutters, QuietApproved
<1>6. ASSUME NEW all \in BOOLEAN, CleanupApprovals(all)
      PROVE  Approved' /\ Steps1 /\ UNCHANGED <<docvars, request>>
  BY <1>6, CleanupShape DEF CleanupApprovals
<1> QED
  BY <1>1, <1>2, <1>3, <1>4, <1>5, <1>6, FailsShape DEF Next

-----------------------------------------------------------------------------
LEMMA InitApproved == Init => Approved
<1> SUFFICES ASSUME Init PROVE Approved
  OBVIOUS
<1>1. /\ approvals \in [Ids -> Approvals] /\ given \in [Ids -> SUBSET Pairs]
      /\ \A i \in Ids : approvals[i] = NoApproval /\ given[i] = {}
  BY NoApprovalType DEF Init
<1>2. doc \in Rows /\ doc.ver = 0 /\ doc.status = "draft"
  BY NewDocumentType DEF Init
<1>3. /\ deleted \in BOOLEAN /\ versions \in Stored /\ files \in Stored
      /\ tokens \in [Numbers -> 0 .. MaxTokens]
  <2>1. 0 \in 0 .. MaxTokens
    BY BoundsAssumption
  <2>2. [v \in Numbers |-> "none"] \in Stored
    BY DEF Stored
  <2> QED
    BY <2>1, <2>2 DEF Init
<1>4. PICK creator \in Requests, c \in Contents :
        request = [q \in Requests |->
                     IF q = creator
                     THEN [Idle EXCEPT !.kind = "create", !.pc = "write", !.content = c]
                     ELSE Idle]
  BY DEF Init
<1> DEFINE x == [Idle EXCEPT !.kind = "create", !.pc = "write", !.content = c]
<1>5. /\ x \in RequestRecord /\ x.kind = "create" /\ x.pc = "write" /\ x.content = c
      /\ x.copy = NewDocument
  BY IdleType, Names DEF RequestRecord, SaveSteps, Savers
<1>6. request = [q \in Requests |-> IF q = creator THEN x ELSE Idle]
  BY <1>4
<1> HIDE DEF x
<1>7. Local(x)
  BY <1>5, NewDocumentType, BoundsAssumption DEF Local, SaveSteps, PruneSteps, DecideSteps
<1>8. \A q \in Requests : /\ request[q] \in RequestRecord /\ Local(request[q])
                          /\ request[q].kind # "decide" /\ request[q].copy = NewDocument
  BY <1>5, <1>6, <1>7, IdleType
<1>9. request \in [Requests -> RequestRecord]
  BY <1>5, <1>6, IdleType
<1>10. Types
  BY <1>1, <1>2, <1>3, <1>8, <1>9, NoApprovalType DEF Types, TypeOK, Stored, Begun
<1>11. \A i \in Ids : ApprovalOK(approvals[i], given[i])
  BY <1>1, NoApprovalType DEF ApprovalOK
<1> QED
  BY <1>2, <1>8, <1>10, <1>11, NewDocumentType DEF Approved, Decided

LEMMA AlwaysApproved == Spec => []Approved
<1>1. Approved /\ [Next]_vars => Approved'
  BY NextShape
<1> QED
  BY <1>1, InitApproved, PTL DEF Spec

\* Every variable keeps its type, and every request has what its next step reads.
THEOREM TypeCorrect == Spec => []TypeOK
<1>1. Approved => TypeOK
  BY DEF Approved, Types
<1> QED
  BY <1>1, AlwaysApproved, PTL

\* The document says "approved" only when one of its approvals has the approval of all whom
\* it asked, whatever copies of the row ApprovalDecision, UpdateContent and the others write.
THEOREM ApprovedByAsked == Spec => []ApprovedMeansAsked
<1>1. Approved => ApprovedMeansAsked
  BY DEF Approved, Someone, Complete, ApprovedMeansAsked
<1> QED
  BY <1>1, AlwaysApproved, PTL

\* A step of one approval is a step of Approval.
LEMMA StepImplements ==
  ASSUME Approved, Steps1
  PROVE  [A!Next]_A!vars
<1> DEFINE a == approvals[Watched]
           g == given[Watched]
           b == approvals'[Watched]
           h == given'[Watched]
<1>1. Watched \in Ids
  BY WatchedAssumption DEF Ids
<1>2. ApprovalStep(a, g, b, h)
  BY <1>1 DEF Steps1
<1>3. a.asked \subseteq Pairs
  BY <1>1, ApprovalTyped DEF ApprovalType, Approvals
<1>4. A!Pairs = Pairs
  BY DEF A!Pairs, Pairs
<1>5. CASE a.asked = b.asked /\ a.status = b.status /\ g = h
  BY <1>5 DEF A!vars
<1>6. CASE a.status = "none" /\ b.status = "review" /\ b.asked \in (SUBSET Pairs) \ {{}} /\ g = h
  <2>1. a.asked = {}
    BY <1>1, <1>6, ApprovalTyped DEF ApprovalType, ApprovalOK
  <2> QED
    BY <1>4, <1>6, <2>1 DEF A!Next, A!Ask
<1>7. CASE /\ a.asked = b.asked /\ a.status = b.status
           /\ \E p \in a.asked : EarlierGiven(a, g, p[2]) /\ h = g \union {p}
  <2>1. PICK p \in a.asked : EarlierGiven(a, g, p[2]) /\ h = g \union {p}
    BY <1>7
  <2>2. A!Give(p)
    BY <1>7, <2>1 DEF A!Give, A!Earlier, EarlierGiven
  <2> QED
    BY <1>3, <1>4, <2>1, <2>2 DEF A!Next
<1>8. CASE /\ a.asked = b.asked /\ g = h /\ a.status \in {"review", "returned"}
           /\ b.status = "approved" /\ a.asked \subseteq g
  BY <1>8 DEF A!Next, A!Approve
<1>9. CASE /\ a.asked = b.asked /\ g = h
           /\ a.status \in Verdicts /\ b.status \in {"review", "returned"}
  BY <1>9 DEF A!Next, A!Reopen, Verdicts
<1>10. CASE a.asked = b.asked /\ g = h /\ a.status # "none" /\ b.status = "gone"
  BY <1>10 DEF A!Next, A!Remove
<1> QED
  BY <1>2, <1>5, <1>6, <1>7, <1>8, <1>9, <1>10 DEF ApprovalStep

\* The approvals implement Approval, however many decide at once on what they have read.
THEOREM ApprovalImplemented == Spec => ApprovalKept
<1>1. Init => A!Init
  <2> SUFFICES ASSUME Init PROVE A!Init
    OBVIOUS
  <2>1. Watched \in Ids
    BY WatchedAssumption DEF Ids
  <2>2. approvals[Watched] = NoApproval /\ given[Watched] = {}
    BY <2>1 DEF Init
  <2> QED
    BY <2>2, NoApprovalType DEF A!Init
<1>2. Approved /\ [Next]_vars => [A!Next]_A!vars
  BY NextShape, StepImplements
<1> QED
  BY <1>1, <1>2, AlwaysApproved, PTL DEF Spec, ApprovalKept, A!Spec

-----------------------------------------------------------------------------
\* What a request holds of the versions when nothing is pruned: the version it has read is
\* one that was saved, and the file of the number it is about to insert is there.
Saved(vs, n) == n = 0 \/ vs[n] # "none"
Saving ==
  Limit = 0 =>
    /\ Saved(versions, doc.ver)
    /\ \A q \in Requests : /\ Saved(versions, request[q].copy.ver)
                           /\ request[q].pc = "rmdir" => deleted
                           /\ request[q].pc = "insert" /\ ~deleted =>
                                files[NextVersion(q)] # "none"
    /\ ~deleted => \A v \in Numbers : versions[v] # "none" => files[v] # "none"

LEMMA InitSaving == Init => Saving
<1> SUFFICES ASSUME Init PROVE Saving
  OBVIOUS
<1>1. doc.ver = 0 /\ \A v \in Numbers : versions[v] = "none"
  BY NewDocumentType DEF Init
<1>2. PICK creator \in Requests, c \in Contents :
        request = [q \in Requests |->
                     IF q = creator
                     THEN [Idle EXCEPT !.kind = "create", !.pc = "write", !.content = c]
                     ELSE Idle]
  BY DEF Init
<1> DEFINE x == [Idle EXCEPT !.kind = "create", !.pc = "write", !.content = c]
<1>3. x.pc = "write" /\ x.copy = NewDocument
  BY IdleType DEF RequestRecord
<1>4. request = [q \in Requests |-> IF q = creator THEN x ELSE Idle]
  BY <1>2
<1> HIDE DEF x
<1>5. \A q \in Requests : request[q].copy.ver = 0 /\ request[q].pc \notin {"insert", "rmdir"}
  BY <1>3, <1>4, IdleType, NewDocumentType
<1> QED
  BY <1>1, <1>5 DEF Saving, Saved

LEMMA SavingStep ==
  ASSUME Approved, Saving, NEW q \in Requests, NEW x, Shape(q, x), Effect(q, x)
  PROVE  Saving'
<1> SUFFICES ASSUME Limit = 0 PROVE Saving'
  BY DEF Saving
<1>0. /\ Types /\ versions \in Stored /\ files \in Stored /\ doc.ver \in 0 .. MaxVersion
      /\ request \in [Requests -> RequestRecord] /\ Local(request[q])
      /\ \A w \in Requests : request[w].copy.ver \in 0 .. MaxVersion
  BY Typed, DocTyped DEF Approved, DocType
<1>1. /\ request'[q] = x
      /\ \A w \in Requests \ {q} : request'[w] = request[w]
  BY <1>0 DEF Shape
<1>2. /\ Saved(versions, doc.ver)
      /\ \A w \in Requests : /\ Saved(versions, request[w].copy.ver)
                             /\ request[w].pc = "rmdir" => deleted
                             /\ request[w].pc = "insert" /\ ~deleted =>
                                  files[request[w].copy.ver + 1] # "none"
      /\ ~deleted => \A v \in Numbers : versions[v] # "none" => files[v] # "none"
  BY DEF Saving, NextVersion
<1>3. CASE Quiet(q, x)
  <2>1. UNCHANGED <<versions, files>> /\ (~deleted' => ~deleted) /\ (deleted => deleted')
    BY <1>3 DEF Quiet
  <2>2. Saved(versions', doc'.ver) /\ Saved(versions', x.copy.ver)
    BY <1>2, <1>3, <2>1 DEF Quiet, Saved
  <2>3. x.pc # "insert" /\ (x.pc = "rmdir" => deleted')
    BY <1>3 DEF Quiet
  <2> QED
    BY <1>1, <1>2, <2>1, <2>2, <2>3 DEF Saving, Saved, NextVersion
<1>4. CASE Writes(q, x)
  <2>1. NextVersion(q) \in Numbers /\ request[q].content # "none"
    BY <1>0, <1>4, NextNumber, NoneAssumption DEF Writes, SaveSteps
  <2>2. /\ \A v \in Numbers : files[v] # "none" => files'[v] # "none"
        /\ files'[request[q].copy.ver + 1] # "none"
    BY <1>0, <1>4, <2>1 DEF Writes, Stored, NextVersion
  <2>3. \A w \in Requests : request[w].pc = "insert" => request[w].copy.ver + 1 \in Numbers
    BY <1>0, NextNumber DEF SaveSteps, NextVersion
  <2>4. /\ UNCHANGED <<doc, deleted, versions>> /\ x.copy = request[q].copy /\ x.pc = "insert"
    BY <1>4 DEF Writes
  <2>5. \A w \in Requests : /\ Saved(versions', request'[w].copy.ver)
                            /\ request'[w].pc = "rmdir" => deleted'
                            /\ request'[w].pc = "insert" /\ ~deleted' =>
                                 files'[request'[w].copy.ver + 1] # "none"
    BY <1>1, <1>2, <2>2, <2>3, <2>4 DEF Saved
  <2> QED
    BY <1>2, <2>2, <2>4, <2>5 DEF Saving, Saved, NextVersion
<1>5. CASE Adds(q, x)
  <2>1. NextVersion(q) \in Numbers /\ request[q].content # "none"
    BY <1>0, <1>5, NextNumber, NoneAssumption DEF Adds, SaveSteps
  <2>2. /\ \A v \in Numbers : versions[v] # "none" => versions'[v] # "none"
        /\ \A v \in Numbers : versions'[v] # "none" => versions[v] # "none" \/ v = NextVersion(q)
        /\ versions'[NextVersion(q)] # "none"
    BY <1>0, <1>5, <2>1 DEF Adds, Stored
  <2>3. /\ UNCHANGED <<deleted, files>> /\ x.pc \notin {"insert", "rmdir"}
        /\ x.copy.ver \in {NextVersion(q), 0} /\ doc'.ver = NextVersion(q)
        /\ request[q].pc = "insert"
    BY <1>5 DEF Adds
  <2>4. \A w \in Requests : Saved(versions', request[w].copy.ver)
    BY <1>0, <1>2, <2>2, BoundsAssumption DEF Saved, Numbers
  <2>5. Saved(versions', doc'.ver) /\ Saved(versions', x.copy.ver)
    BY <2>2, <2>3 DEF Saved
  <2>6. ~deleted => \A v \in Numbers : versions'[v] # "none" => files[v] # "none"
    BY <1>2, <2>2, <2>3 DEF NextVersion
  <2> QED
    BY <1>1, <1>2, <2>3, <2>4, <2>5, <2>6 DEF Saving, Saved, NextVersion
<1>6. CASE Prunes(q)
  BY <1>0, <1>6 DEF Prunes, Local
<1>7. CASE RemovesDir(q, x)
  <2>1. deleted /\ deleted' /\ UNCHANGED <<doc, versions>> /\ x = Idle
    BY <1>2, <1>7 DEF RemovesDir
  <2>2. Idle.copy.ver = 0
    BY IdleType, NewDocumentType
  <2> QED
    BY <1>1, <1>2, <2>1, <2>2 DEF Saving, Saved
<1> QED
  BY <1>3, <1>4, <1>5, <1>6, <1>7 DEF Effect

\* As long as nothing is pruned the current version is one of those saved, and every
\* version has its file until the document is deleted.
THEOREM VersionsStay == Spec => []VersionsKept
<1>1. Approved /\ Saving /\ [Next]_vars => Saving'
  <2> SUFFICES ASSUME Approved, Saving, [Next]_vars PROVE Saving'
    OBVIOUS
  <2>1. CASE UNCHANGED <<docvars, request>>
    BY <2>1 DEF Saving, Saved, NextVersion, docvars
  <2> QED
    BY <2>1, NextShape, SavingStep
<1>2. Approved /\ Saving => VersionsKept
  <2> SUFFICES ASSUME Approved, Saving, Limit = 0, ~deleted
               PROVE  doc.ver \in Kept \union {0} /\ \A v \in Kept : files[v] # "none"
    BY DEF VersionsKept
  <2>1. doc.ver \in 0 .. MaxVersion
    BY DEF Approved, Types, TypeOK, Rows
  <2> QED
    BY <2>1, BoundsAssumption DEF Saving, Saved, Kept, Numbers
<1> QED
  BY <1>1, <1>2, InitSaving, AlwaysApproved, PTL DEF Spec

-----------------------------------------------------------------------------
\* A callback works on the version that its editor had: until it has inserted its own,
\* the copy it has read says so.
OnTop(r) == r.kind = "office" /\ r.pc \in SaveSteps => r.copy.ver = r.n
OfficeHolds == \A q \in Requests : OnTop(request[q])

\* What every step of a request does for the two promises about saves.
Honours(q) ==
  /\ OnTop(request'[q])
  /\ At(q, "load") /\ request[q].kind = "restore" /\ request'[q].pc = "write" =>
       request'[q].content = request[q].content
  /\ request[q].kind = "office" /\ versions' # versions /\ request'[q].pc # "insert"
       /\ At(q, "insert") => doc'.ver = request[q].n + 1

LEMMA Untouched ==
  ASSUME OfficeHolds, NEW q \in Requests, request'[q] = request[q]
  PROVE  Honours(q)
BY DEF OfficeHolds, Honours, At

\* A request with nothing to save, or that has saved.
LEMMA NotSaving ==
  ASSUME NEW q \in Requests, request'[q].pc \notin SaveSteps,
         At(q, "insert") => UNCHANGED versions
  PROVE  Honours(q)
BY DEF Honours, OnTop, SaveSteps

LEMMA ArriveHonours ==
  ASSUME Types, NEW q \in Requests, Arrive(q)
  PROVE  Honours(q) \/ request' = request
<1>a. /\ request \in [Requests -> RequestRecord] /\ UNCHANGED versions /\ Idle \in RequestRecord
      /\ doc \in Rows
  BY IdleType DEF Types, TypeOK, Arrive, UpdateContent, ImportCommit, RestoreVersion,
     OfficeCallback, UpdateClassification, DeleteDocument, StartApproval, ApprovalDecision,
     docvars
<1>1. ASSUME NEW kind, NEW pc, NEW n, NEW c, BeginSave(q, kind, pc, n, c),
             kind = "office" => n = doc.ver
      PROVE  Honours(q)
  BY <1>1, <1>a DEF BeginSave, Honours, OnTop, At, GetDocument, RequestRecord
<1>2. ASSUME NEW kind, NEW pc, Begin(q, kind, pc), pc \notin SaveSteps
      PROVE  Honours(q)
  BY <1>2, <1>a, NotSaving DEF Begin, RequestRecord
<1>3. ASSUME NEW v \in Numbers, NEW c \in Contents, OfficeCallback(q, v, c)
      PROVE  Honours(q) \/ request' = request
  BY <1>1, <1>3 DEF OfficeCallback
<1>4. ASSUME NEW i \in Ids, NEW u \in Approvers, ApprovalDecision(q, i, u)
      PROVE  Honours(q)
  BY <1>4, <1>a, NotSaving DEF ApprovalDecision, RequestRecord, SaveSteps
<1>5. ASSUME NEW c \in Contents, UpdateContent(q, c) \/ ImportCommit(q, c)
      PROVE  Honours(q)
  BY <1>1, <1>5 DEF UpdateContent, ImportCommit
<1>6. ASSUME NEW v \in Numbers, RestoreVersion(q, v)
      PROVE  Honours(q)
  BY <1>1, <1>6 DEF RestoreVersion
<1>7. CASE UpdateClassification(q) \/ DeleteDocument(q) \/ StartApproval(q)
  BY <1>2, <1>7 DEF UpdateClassification, DeleteDocument, StartApproval, SaveSteps
<1> QED
  BY <1>3, <1>4, <1>5, <1>6, <1>7 DEF Arrive

LEMMA SaveHonours ==
  ASSUME Types, OfficeHolds, NEW q \in Requests, SaveStep(q)
  PROVE  Honours(q)
<1>a. /\ request \in [Requests -> RequestRecord] /\ Idle \in RequestRecord /\ Idle.pc = "idle"
      /\ OnTop(request[q]) /\ request[q] \in RequestRecord
  BY IdleType DEF Types, TypeOK, OfficeHolds
<1>b. ASSUME NEW r \in RequestRecord PROVE AfterSave(r).pc \notin SaveSteps
  BY <1>a DEF AfterSave, RequestRecord, SaveSteps
<1>1. CASE ImportRedraft(q) \/ WriteFile(q)
  BY <1>1, <1>a DEF ImportRedraft, WriteFile, Goto, At, Honours, OnTop, RequestRecord, SaveSteps, Rows
<1>2. CASE RestoreLoad(q)
  BY <1>2, <1>a DEF RestoreLoad, LoadContent, End, At, Honours, OnTop, RequestRecord, SaveSteps
<1>3. CASE OfficeCompare(q)
  BY <1>3, <1>a DEF OfficeCompare, Goto, End, At, Honours, OnTop, RequestRecord, SaveSteps
<1>4. CASE AddVersion(q)
  <2>1. /\ doc'.ver = request[q].copy.ver + 1 /\ At(q, "insert")
    <3>1. doc \in Rows
      BY DEF Types, TypeOK
    <3> QED BY <1>4, <3>1 DEF AddVersion, NextVersion, Rows
  <2>2. request'[q].pc \notin SaveSteps
    <3> DEFINE r == [request[q] EXCEPT !.copy.ver = @ + 1]
    <3>1. r.kind = request[q].kind
      BY <1>a DEF RequestRecord
    <3>2. request'[q] = IF Limit > 0 THEN [r EXCEPT !.pc = "list"] ELSE AfterSave(r)
      BY <1>4, <1>a DEF AddVersion
    <3>3. [r EXCEPT !.pc = "list"].pc = "list" /\ AfterSave(r).pc \notin SaveSteps
      BY <1>a DEF RequestRecord, AfterSave, SaveSteps
    <3> HIDE DEF r
    <3> QED BY <3>2, <3>3 DEF SaveSteps
  <2> QED BY <1>a, <2>1, <2>2 DEF Honours, OnTop, At, SaveSteps
<1>5. CASE AddVersionRefused(q) \/ RemoveDir(q) \/ UpdateRow(q)
  BY <1>5, <1>a, NotSaving DEF AddVersionRefused, RemoveDir, UpdateRow, End, At, docvars, SaveSteps
<1>6. CASE ListVersions(q) \/ DeleteVersion(q) \/ RemoveFile(q)
  <2>1. request'[q].pc \notin SaveSteps /\ ~At(q, "insert")
    BY <1>6, <1>a, <1>b DEF ListVersions, DeleteVersion, RemoveFile, Goto, At, RequestRecord, SaveSteps
  <2> QED BY <2>1, NotSaving
<1> QED
  BY <1>1, <1>2, <1>3, <1>4, <1>5, <1>6 DEF SaveStep

LEMMA DecideHonours ==
  ASSUME Types, NEW q \in Requests, DecideStep(q)
  PROVE  Honours(q)
<1>a. /\ request \in [Requests -> RequestRecord] /\ Idle \in RequestRecord /\ Idle.pc = "idle"
      /\ request[q] \in RequestRecord
  BY IdleType DEF Types, TypeOK
<1>1. request'[q].pc \notin SaveSteps
  <2>1. ASSUME NEW pc, request'[q].pc = pc, pc \in {"update", "reread", "settle", "save", "idle"}
        PROVE  request'[q].pc \notin SaveSteps
    BY <2>1 DEF SaveSteps
  <2>2. ASSUME NEW i \in Ids, NEW plan \in Plans, CreateApproval(q, i, plan)
        PROVE  request'[q].pc = "update"
    BY <1>a, <2>2 DEF CreateApproval, RequestRecord
  <2>3. ASSUME ReadParticipants(q) PROVE request'[q].pc \in {"save", "idle"}
    BY <1>a, <2>3 DEF ReadParticipants, RequestRecord
  <2>4. ASSUME Approve(q) \/ Reject(q) PROVE request'[q].pc = "reread"
    <3>1. \E a : request' = [request EXCEPT ![q] = [@ EXCEPT !.pc = "reread", !.pair = <<>>,
                                                           !.ap = a]]
      BY <2>4, Zenon DEF Approve, Reject
    <3>2. DOMAIN request = Requests /\ "pc" \in DOMAIN request[q]
      BY <1>a DEF RequestRecord
    <3> QED
      BY <3>1, <3>2
  <2>5. ASSUME RereadDocument(q) PROVE request'[q].pc = "update"
    BY <1>a, <2>5 DEF RereadDocument, RequestRecord
  <2>6. ASSUME DecideDocument(q) \/ SettleApproval(q) PROVE request'[q].pc \in {"settle", "idle"}
    BY <1>a, <2>6 DEF DecideDocument, SettleApproval, End, RequestRecord
  <2> QED
    BY <2>1, <2>2, <2>3, <2>4, <2>5, <2>6 DEF DecideStep
<1>2. UNCHANGED versions
  BY DEF DecideStep, CreateApproval, ReadParticipants, Approve, Reject, RereadDocument,
     DecideDocument, SettleApproval, docvars
<1> QED BY <1>1, <1>2, NotSaving

LEMMA FailsHonours ==
  ASSUME Types, NEW q \in Requests, Fails(q)
  PROVE  Honours(q)
<1>a. /\ request \in [Requests -> RequestRecord] /\ Idle.pc = "idle"
      /\ request[q] \in RequestRecord
  BY IdleType DEF Types, TypeOK
<1>1. request'[q].pc \notin SaveSteps
  <2>1. CASE End(q)
    BY <1>a, <2>1 DEF End, SaveSteps
  <2>2. CASE request' = [request EXCEPT ![q].pc = "settle", ![q].copy = NewDocument]
    <3>1. request'[q].pc = "settle"
      BY <1>a, <2>2 DEF RequestRecord
    <3> QED BY <3>1 DEF SaveSteps
  <2>3. CASE request' = [request EXCEPT ![q] = AfterSave(@)]
    <3>1. request'[q] = AfterSave(request[q])
      BY <1>a, <2>3
    <3>2. AfterSave(request[q]).pc \in {"idle", "update"}
      BY <1>a DEF AfterSave, RequestRecord
    <3> QED BY <3>1, <3>2 DEF SaveSteps
  <2> QED
    BY <2>1, <2>2, <2>3 DEF Fails
<1>2. UNCHANGED versions
  BY DEF Fails, docvars
<1> QED BY <1>1, <1>2, NotSaving

\* A step is one request's, and leaves the others as they are.
LEMMA OneRequest ==
  ASSUME Types, [Next]_vars
  PROVE  \/ UNCHANGED request
         \/ \E q \in Requests : /\ Arrive(q) \/ SaveStep(q) \/ DecideStep(q) \/ Fails(q)
                                /\ \A w \in Requests \ {q} : request'[w] = request[w]
<1>1. ASSUME NEW q \in Requests, Arrive(q)
      PROVE  \A w \in Requests \ {q} : request'[w] = request[w]
  BY <1>1 DEF Types, TypeOK, Arrive, UpdateContent, ImportCommit, RestoreVersion, OfficeCallback,
     UpdateClassification, DeleteDocument, StartApproval, ApprovalDecision, Begin, BeginSave
<1>2. ASSUME NEW q \in Requests, SaveStep(q)
      PROVE  \A w \in Requests \ {q} : request'[w] = request[w]
  BY <1>2 DEF Types, TypeOK, SaveStep, ImportRedraft, RestoreLoad, OfficeCompare, WriteFile,
     AddVersion, AddVersionRefused, ListVersions, DeleteVersion, RemoveFile, UpdateRow,
     RemoveDir, Goto, End
<1>3. ASSUME NEW q \in Requests, DecideStep(q)
      PROVE  \A w \in Requests \ {q} : request'[w] = request[w]
  BY <1>3 DEF Types, TypeOK, DecideStep, CreateApproval, ReadParticipants, Approve, Reject,
     RereadDocument, DecideDocument, SettleApproval, End
<1>4. ASSUME NEW q \in Requests, Fails(q)
      PROVE  \A w \in Requests \ {q} : request'[w] = request[w]
  BY <1>4 DEF Types, TypeOK, Fails, End
<1>5. ASSUME \/ \E v \in Numbers : ForceSave(v) \/ LoseToken(v)
             \/ \E all \in BOOLEAN : CleanupApprovals(all)
             \/ UNCHANGED vars
      PROVE  UNCHANGED request
  BY <1>5 DEF ForceSave, LoseToken, CleanupApprovals, vars
<1> QED
  BY <1>1, <1>2, <1>3, <1>4, <1>5 DEF Next

LEMMA StepHonours ==
  ASSUME Types, OfficeHolds, [Next]_vars
  PROVE  \A q \in Requests : Honours(q)
<1>1. CASE UNCHANGED request
  BY <1>1, Untouched
<1>2. ASSUME NEW q \in Requests, Arrive(q) \/ SaveStep(q) \/ DecideStep(q) \/ Fails(q)
      PROVE  Honours(q) \/ UNCHANGED request
  BY <1>2, ArriveHonours, SaveHonours, DecideHonours, FailsHonours
<1> QED
  BY <1>1, <1>2, OneRequest, Untouched

LEMMA OfficeInvariance == Spec => []OfficeHolds
<1>1. Init => OfficeHolds
  BY IdleType DEF Init, OfficeHolds, OnTop, RequestRecord
<1>2. Types /\ OfficeHolds /\ [Next]_vars => OfficeHolds'
  BY StepHonours DEF Honours, OfficeHolds
<1>3. Spec => []Types
  <2>1. Approved => Types
    BY DEF Approved
  <2> QED BY <2>1, AlwaysApproved, PTL
<1> QED
  BY <1>1, <1>2, <1>3, PTL DEF Spec

\* What a restore saves is what the version said when it was chosen, for any requests that
\* prune, overwrite or save at the same time.
THEOREM RestoresAreTrue == Spec => RestoresTrue
<1>1. Types /\ OfficeHolds /\ [Next]_vars =>
        [\A q \in Requests :
           At(q, "load") /\ request[q].kind = "restore" /\ request'[q].pc = "write" =>
             request'[q].content = request[q].content]_vars
  BY StepHonours DEF Honours
<1>2. Spec => []Types
  <2>1. Approved => Types
    BY DEF Approved
  <2> QED BY <2>1, AlwaysApproved, PTL
<1> QED
  BY <1>1, <1>2, OfficeInvariance, PTL DEF Spec, RestoresTrue

\* A callback's save becomes the version after the one that its editor opened, or none,
\* however many versions were saved since it compared them.
THEOREM OfficeOnTop == Spec => OfficeSavesOnTop
<1>1. Types /\ OfficeHolds /\ [Next]_vars =>
        [\A q \in Requests :
           request[q].kind = "office" /\ versions' # versions /\ request'[q].pc # "insert"
             /\ At(q, "insert") => doc'.ver = request[q].n + 1]_vars
  BY StepHonours DEF Honours
<1>2. Spec => []Types
  <2>1. Approved => Types
    BY DEF Approved
  <2> QED BY <2>1, AlwaysApproved, PTL
<1> QED
  BY <1>1, <1>2, OfficeInvariance, PTL DEF Spec, OfficeSavesOnTop
=============================================================================
