--------------------------- MODULE TaskBoardProofs ---------------------------
(***************************************************************************)
(* What TaskBoard guarantees for any tasks, columns and subcolumns, any    *)
(* number of requests, and any number that overlap.                        *)
(*                                                                         *)
(* TypeOK is not inductive: why a request's writes are rows, and why it    *)
(* writes over nobody's, is in Safe.  No row is locked by two (Exclusive). *)
(* A request that shifts has the rows it has locked within one of where    *)
(* they are, and never changed two of them about (Kept, Level): it shifts  *)
(* once, or the ones after a position up and then those from one on down,  *)
(* of which Left says how much is left.  So nobody is overtaken, whatever  *)
(* it has read.                                                            *)
(*                                                                         *)
(* Sound adds what holds while the board is clean.  A request near which   *)
(* nothing has changed since it read (Fit) has a copy that is the row, has *)
(* selected the rows that match, and has the others in their order, with   *)
(* its position free at the end (Apt, Going); whatever else commits leaves *)
(* that alone (AptFrame), and so the rows stay apart (FinishSound).        *)
(***************************************************************************)
EXTENDS TaskBoard, TLAPS

\* The requests that shift others, and those that put one task at a place.

Shifting == {"move", "relocate", "restore"}
Placing == Shifting \union {"create"}

LEMMA AbsentPlace == Absent \notin Places
BY DEF Absent, Places

LEMMA RowFacts ==
  ASSUME NEW r \in Rows
  PROVE  /\ r.position \in Positions /\ r.archived \in BOOLEAN /\ r.origin \in Entries
         /\ r.place \in Places \union {Absent} /\ (r # NoRow => r.place \in Places)
         /\ r.position \in Nat /\ r.position >= 1 /\ r.position <= MaxPosition
<1>1. NoRow.position \in Positions /\ NoRow.archived \in BOOLEAN /\ NoRow.origin \in Entries
      /\ NoRow.place = Absent
  BY BoundAssumption DEF NoRow, NoEntry, Entries, Positions
<1>2. r # NoRow =>
        r \in [place : Places, position : Positions, archived : BOOLEAN, origin : Entries]
  BY DEF Rows
<1>3. r.position \in Positions
  BY <1>1, <1>2
<1>4. r.position \in Nat /\ r.position >= 1 /\ r.position <= MaxPosition
  BY <1>3, BoundAssumption DEF Positions
<1> QED
  BY <1>1, <1>2, <1>3, <1>4

LEMMA NoRowFacts ==
  NoRow \in Rows /\ NoRow.place = Absent /\ NoRow.archived = FALSE /\ NoRow.position = 1
BY BoundAssumption DEF Rows, NoRow, NoEntry

LEMMA TxFacts ==
  ASSUME NEW x \in Transactions
  PROVE  /\ x.op \in {"none", "create", "move", "relocate", "restore", "archive", "drop"}
         /\ x.pc \in {"idle", "check", "max", "list", "entry", "update", "wait"}
         /\ x.task \in Tasks \union {NoTask} /\ x.copy \in Rows /\ x.to \in Places \union {Absent}
         /\ x.n \in 0 .. MaxPosition /\ x.given \in BOOLEAN /\ x.todo \in Seq(Updates)
         /\ x.chosen \subseteq Tasks /\ x.locks \subseteq Tasks /\ x.stale \in BOOLEAN
BY DEF Transactions

LEMMA IdleType == Idle \in Transactions
BY NoRowFacts, BoundAssumption DEF Idle, Transactions

LEMMA AskedType ==
  ASSUME NEW op \in Placing, NEW t \in Tasks, NEW r \in Rows, NEW p \in Places,
         NEW n \in 0 .. MaxPosition
  PROVE  Asked(op, t, r, p, n) \in Transactions
BY DEF Asked, Transactions, Placing, Shifting

LEMMA ChangedType ==
  ASSUME NEW r \in Rows, NEW u \in Updates, Matches(r, u), r.position + u.by <= MaxPosition
  PROVE  Changed(r, u) \in Rows /\ Changed(r, u).place = u.into
         /\ Changed(r, u).position = r.position + u.by /\ Changed(r, u).archived = r.archived
<1>1. u.place \in Places /\ u.into \in Places /\ u.by \in {-1, 0, 1} /\ u.low + u.by >= 1
      /\ u.low \in Nat
  BY DEF Updates
<1>2. r # NoRow
  BY <1>1, NoRowFacts, AbsentPlace DEF Matches
<1>3. r \in [place : Places, position : Positions, archived : BOOLEAN, origin : Entries]
  BY <1>2 DEF Rows
<1>4. r.position + u.by \in Positions
  BY <1>1, <1>3, BoundAssumption DEF Matches, Positions
<1> QED
  BY <1>1, <1>3, <1>4 DEF Changed, Rows

LEMMA ShiftTypes ==
  ASSUME NEW p \in Places, NEW m \in Positions, NEW n \in Positions
  PROVE  /\ Close(p, m) \in Updates /\ Slide(p, m, n) \in Updates
         /\ \A live \in BOOLEAN : Open(p, n, live) \in Updates
BY BoundAssumption DEF Close, Slide, Open, Updates, Positions

LEMMA SeesType ==
  ASSUME TypeOK, NEW q \in Requests, NEW t \in Tasks
  PROVE  See(q, t) \in Rows
BY DEF TypeOK, See

-----------------------------------------------------------------------------
\* What a request x has written to its rows w, beside the committed rows f.
Kept(x, w, f) ==
  \A u \in x.locks : /\ w[u].place = f[u].place /\ w[u].archived = f[u].archived
                     /\ f[u].position - 1 <= w[u].position /\ w[u].position <= f[u].position + 1
Level(x, w, f) ==
  \A u, v \in x.locks : Before(f, u, v) => w[u].position <= w[v].position

\* What is left to do of a move, a relocation or a restore: one shift, or one up and one down.
IsShift(d) == d.into = d.place /\ d.by \in {-1, 1}
Left(x, w, f) ==
  \/ x.pc \in {"check", "max"} /\ x.locks = {}
  \/ x.pc = "update" /\ x.todo = <<>>
  \/ /\ x.pc \in {"update", "wait"}
     /\ \/ x.locks = {} /\ \E d \in Updates : x.todo = <<d>> /\ IsShift(d)
        \/ /\ \E d \in Updates : x.todo = <<d>> /\ IsShift(d) /\ d.by = 1 /\ ~d.live
           /\ \A u \in x.locks : w[u].position <= f[u].position
        \/ /\ x.locks = {}
           /\ \E d, e \in Updates : /\ x.todo = <<d, e>> /\ IsShift(d) /\ IsShift(e)
                                    /\ d.by = -1 /\ e.by = 1 /\ ~e.live

Shifts1(x, w, f) ==
  /\ x.copy # NoRow
  /\ Kept(x, w, f) /\ Level(x, w, f) /\ Left(x, w, f)
  /\ x.pc = "wait" => \A u \in x.locks : u \in x.chosen <=> Matches(w[u], Head(x.todo))

Places1(x) ==
  /\ x.task \in Tasks /\ x.to \in Places
  /\ x.given => x.n \in Positions
  /\ x.pc \in {"update", "wait"} => x.n \in Positions
  /\ x.pc \in {"check", "max", "update", "wait"}

Mine(x, w, f) ==
  /\ x.op = "none" => x.pc = "idle" /\ x.locks = {}
  /\ x.op \in Placing => Places1(x)
  /\ x.op \in Shifting => Shifts1(x, w, f)
  /\ x.op = "create" => x.locks = {} /\ x.todo = <<>> /\ x.pc # "wait"
  /\ x.op = "archive" =>
       /\ x.pc \in {"list", "entry"} /\ (x.pc = "entry" => x.task \in Tasks)
       /\ \A u \in x.locks :
            w[u].place = f[u].place /\ w[u].position = f[u].position /\ w[u].archived
  /\ x.op = "drop" =>
       /\ x.pc \in {"update", "wait"} /\ x.to \in Places
       /\ \/ x.pc = "update" /\ x.todo = <<>>
          \/ x.locks = {} /\ \E d \in Updates : x.todo = <<d>> /\ d.place = x.to
       /\ \A u \in x.locks : f[u].place = x.to /\ w[u].archived = f[u].archived

Exclusive == \A q, r \in Requests : q # r => tx[q].locks \cap tx[r].locks = {}

Safe ==
  /\ TypeOK
  /\ Exclusive
  /\ \A q \in Requests : Mine(tx[q], write[q], row)

-----------------------------------------------------------------------------
LEMMA InitSafe == Init => Safe
<1> SUFFICES ASSUME Init PROVE Safe
  OBVIOUS
<1>1. TypeOK
  BY IdleType, NoRowFacts, BoardsAssumption, BoundAssumption DEF Init, TypeOK
<1>2. \A q \in Requests : tx[q] = Idle
  BY DEF Init
<1>3. Exclusive
  BY <1>2 DEF Exclusive, Idle
<1>4. \A q \in Requests : Mine(tx[q], write[q], row)
  <2>1. Idle.op = "none" /\ Idle.pc = "idle" /\ Idle.locks = {}
    BY DEF Idle
  <2> QED
    BY <1>2, <2>1 DEF Mine, Placing, Shifting
<1> QED
  BY <1>1, <1>3, <1>4 DEF Safe

\* An action of one request that commits nothing.
LEMMA LocalStep ==
  ASSUME Safe, NEW q \in Requests, NEW x \in Transactions, NEW w \in [Tasks -> Rows],
         tx' = [tx EXCEPT ![q] = x], write' = [write EXCEPT ![q] = w],
         UNCHANGED <<row, active, clean>>, begun' \in 0 .. MaxBegun,
         \A u \in x.locks \ tx[q].locks : Free(q, u),
         Mine(x, w, row)
  PROVE  Safe'
<1>1. TypeOK'
  BY DEF Safe, TypeOK
<1>2. /\ tx'[q] = x /\ write'[q] = w
      /\ \A r \in Requests \ {q} : tx'[r] = tx[r] /\ write'[r] = write[r]
  BY DEF Safe, TypeOK
<1>3. Exclusive'
  BY <1>2 DEF Safe, Exclusive, Free
<1>4. \A r \in Requests : Mine(tx'[r], write'[r], row')
  BY <1>2 DEF Safe
<1> QED
  BY <1>1, <1>3, <1>4 DEF Safe

\* The same without locks.
LEMMA QuietStep ==
  ASSUME Safe, NEW q \in Requests, NEW x \in Transactions,
         tx' = [tx EXCEPT ![q] = x], UNCHANGED <<row, active, write, clean>>,
         begun' \in 0 .. MaxBegun,
         x.locks \subseteq tx[q].locks, Mine(x, write[q], row)
  PROVE  Safe'
<1>1. write' = [write EXCEPT ![q] = write[q]] /\ write[q] \in [Tasks -> Rows]
  BY DEF Safe, TypeOK
<1> QED
  BY <1>1, LocalStep

\* A commit of q's, or of nobody's, leaves alone the rows that others have locked.
LEMMA MineFrame ==
  ASSUME NEW x \in Transactions, NEW w, NEW f, NEW g, NEW stale \in BOOLEAN,
         Mine(x, w, f), \A u \in x.locks : g[u] = f[u]
  PROVE  Mine([x EXCEPT !.stale = stale], w, g)
<1> DEFINE y == [x EXCEPT !.stale = stale]
<1>1. /\ y.op = x.op /\ y.pc = x.pc /\ y.task = x.task /\ y.copy = x.copy /\ y.to = x.to
      /\ y.n = x.n /\ y.given = x.given /\ y.todo = x.todo /\ y.chosen = x.chosen
      /\ y.locks = x.locks
  BY DEF Transactions
<1> HIDE DEF y
<1>2. x.op \in Placing => Places1(y)
  BY <1>1 DEF Mine, Places1
<1>3. x.op \in Shifting => Shifts1(y, w, g)
  <2> SUFFICES ASSUME x.op \in Shifting PROVE Shifts1(y, w, g)
    OBVIOUS
  <2>1. Shifts1(x, w, f)
    BY DEF Mine
  <2>2. Kept(y, w, g)
    BY <1>1, <2>1 DEF Shifts1, Kept
  <2>3. Level(y, w, g)
    BY <1>1, <2>1 DEF Shifts1, Level, Before
  <2>4. Left(y, w, g)
    BY <1>1, <2>1 DEF Shifts1, Left
  <2> QED
    BY <1>1, <2>1, <2>2, <2>3, <2>4 DEF Shifts1
<1>4. Mine(y, w, g)
  BY <1>1, <1>2, <1>3 DEF Mine
<1> QED
  BY <1>4 DEF y

LEMMA CommitStep ==
  ASSUME Safe, NEW q, NEW f \in [Tasks -> Rows], Commit(q, f),
         \A r \in Requests \ {q} : \A u \in tx[r].locks : f[u] = row[u],
         active' \subseteq SubColumns, clean' \in BOOLEAN, begun' \in 0 .. MaxBegun
  PROVE  Safe'
<1>1. /\ row' = f
      /\ tx' = [r \in Requests |-> IF r = q THEN Idle
                                   ELSE [tx[r] EXCEPT !.stale = @ \/ Touched(f, tx[r])]]
      /\ write' = [r \in Requests |-> IF r = q THEN [t \in Tasks |-> NoRow] ELSE write[r]]
  BY DEF Commit
<1>2. \A r \in Requests \ {q} : \E stale \in BOOLEAN : tx'[r] = [tx[r] EXCEPT !.stale = stale]
  <2> SUFFICES ASSUME NEW r \in Requests \ {q}
               PROVE  \E stale \in BOOLEAN : tx'[r] = [tx[r] EXCEPT !.stale = stale]
    OBVIOUS
  <2>1. tx'[r] = [tx[r] EXCEPT !.stale = tx[r].stale \/ Touched(f, tx[r])]
    BY <1>1 DEF Safe, TypeOK
  <2>2. (tx[r].stale \/ Touched(f, tx[r])) \in BOOLEAN
    OBVIOUS
  <2> QED
    BY <2>1, <2>2
<1>3. \A r \in Requests \ {q} : tx'[r] \in Transactions /\ tx'[r].locks = tx[r].locks
                                /\ Mine(tx'[r], write'[r], row')
  <2> SUFFICES ASSUME NEW r \in Requests \ {q}
               PROVE  tx'[r] \in Transactions /\ tx'[r].locks = tx[r].locks
                      /\ Mine(tx'[r], write'[r], row')
    OBVIOUS
  <2>1. PICK stale \in BOOLEAN : tx'[r] = [tx[r] EXCEPT !.stale = stale]
    BY <1>2
  <2>2. tx[r] \in Transactions /\ Mine(tx[r], write[r], row)
    BY DEF Safe, TypeOK
  <2>3. write'[r] = write[r] /\ row' = f
    BY <1>1
  <2>4. Mine(tx'[r], write[r], f)
    BY <2>1, <2>2, MineFrame
  <2>5. tx'[r] \in Transactions /\ tx'[r].locks = tx[r].locks
    BY <2>1, <2>2 DEF Transactions
  <2> QED
    BY <2>3, <2>4, <2>5
<1>4. q \in Requests => tx'[q] = Idle
  BY <1>1
<1>5. Idle.op = "none" /\ Idle.pc = "idle" /\ Idle.locks = {}
  BY DEF Idle
<1>6. \A r \in Requests : Mine(tx'[r], write'[r], row')
  <2>1. q \in Requests => Mine(tx'[q], write'[q], row')
    BY <1>4, <1>5 DEF Mine, Placing, Shifting
  <2> QED
    BY <1>3, <2>1
<1>7. tx' \in [Requests -> Transactions]
  <2>1. \A r \in Requests : tx'[r] \in Transactions
    BY <1>3, <1>4, IdleType
  <2>2. tx' = [r \in Requests |-> tx'[r]]
    BY <1>1
  <2> QED
    BY <2>1, <2>2
<1>8. TypeOK'
  <2>1. [t \in Tasks |-> NoRow] \in [Tasks -> Rows]
    BY NoRowFacts
  <2>2. \A r \in Requests :
          (IF r = q THEN [t \in Tasks |-> NoRow] ELSE write[r]) \in [Tasks -> Rows]
    BY <2>1 DEF Safe, TypeOK
  <2>3. write' \in [Requests -> [Tasks -> Rows]]
    BY <1>1, <2>2
  <2> QED
    BY <1>1, <1>7, <2>3 DEF TypeOK
<1>9. Exclusive'
  <2> SUFFICES ASSUME NEW r \in Requests, NEW s \in Requests, r # s
               PROVE  tx'[r].locks \cap tx'[s].locks = {}
    BY DEF Exclusive
  <2>1. CASE r = q \/ s = q
    BY <1>4, <1>5, <2>1
  <2>2. CASE r # q /\ s # q
    BY <1>3, <2>2 DEF Safe, Exclusive
  <2> QED
    BY <2>1, <2>2
<1> QED
  BY <1>6, <1>8, <1>9 DEF Safe

\* The rows as q would leave them are as they were where another has a lock.
LEMMA SeenByOthers ==
  ASSUME Safe, NEW q \in Requests
  PROVE  /\ [t \in Tasks |-> See(q, t)] \in [Tasks -> Rows]
         /\ \A r \in Requests \ {q} : \A u \in tx[r].locks : u \in Tasks /\ See(q, u) = row[u]
<1>1. \A r \in Requests : tx[r].locks \subseteq Tasks
  BY TxFacts DEF Safe, TypeOK
<1>2. \A r \in Requests \ {q} : \A u \in tx[r].locks : u \notin tx[q].locks
  BY DEF Safe, Exclusive
<1> QED
  BY <1>1, <1>2, SeesType DEF See, Safe

LEMMA BeginSafe ==
  ASSUME Safe, NEW q \in Requests, Asks(q)
  PROVE  Safe'
<1>1. ASSUME NEW x \in Transactions, Begin(q, x), x.locks = {}, Mine(x, write[q], row)
      PROVE  Safe'
  <2>1. begun' \in 0 .. MaxBegun
    BY <1>1, BoundAssumption DEF Begin, Safe, TypeOK
  <2> QED
    BY <1>1, <2>1, QuietStep DEF Begin
<1>2. ASSUME NEW op \in Placing, NEW t \in Tasks, NEW r \in Rows, NEW p \in Places,
             NEW n \in 0 .. MaxPosition, op \in Shifting => r # NoRow,
             Begin(q, Asked(op, t, r, p, n))
      PROVE  Safe'
  <2> DEFINE x == Asked(op, t, r, p, n)
  <2>1. x \in Transactions
    BY AskedType
  <2>2. /\ x.op = op /\ x.pc = "check" /\ x.locks = {} /\ x.todo = <<>> /\ x.task = t /\ x.to = p
        /\ x.copy = r /\ x.n = n /\ x.given = (n # 0)
    BY DEF Asked
  <2>6. x.given => n # 0
    BY DEF Asked
  <2> HIDE DEF x
  <2>7. n # 0 => n \in Positions
    BY BoundAssumption DEF Positions
  <2>3. Places1(x)
    BY <2>2, <2>6, <2>7 DEF Places1
  <2>4. op \in Shifting => Shifts1(x, write[q], row)
    BY <1>2, <2>2 DEF Shifts1, Kept, Level, Left
  <2>5. Mine(x, write[q], row)
    BY <2>2, <2>3, <2>4 DEF Mine, Placing, Shifting
  <2> QED
    BY <1>1, <1>2, <2>1, <2>2, <2>5 DEF x
<1>3. \A t \in Tasks : row[t] \in Rows /\ (row[t].archived => row[t] # NoRow)
  BY NoRowFacts DEF Safe, TypeOK
<1>4. CASE \E t \in Tasks, p \in Places, n \in 0 .. MaxPosition :
             CreateTask(q, t, p, n) \/ MoveTask(q, t, p, n) \/ RelocateTask(q, t, p, n)
  BY <1>2, <1>3, <1>4, NoRowFacts DEF CreateTask, MoveTask, RelocateTask, Placing, Shifting
<1>5. CASE \E t \in Tasks, p \in Places : RestoreTask(q, t, p)
  BY <1>2, <1>3, <1>5, BoundAssumption DEF RestoreTask, Placing, Shifting
<1>6. ASSUME NEW s \in SUBSET Tasks,
             Begin(q, [Idle EXCEPT !.op = "archive", !.pc = "list", !.chosen = s])
      PROVE  Safe'
  <2> DEFINE x == [Idle EXCEPT !.op = "archive", !.pc = "list", !.chosen = s]
  <2>1. x \in Transactions /\ x.op = "archive" /\ x.pc = "list" /\ x.locks = {}
    BY IdleType DEF Idle, Transactions
  <2> HIDE DEF x
  <2>2. Mine(x, write[q], row)
    BY <2>1 DEF Mine, Placing, Shifting
  <2> QED
    BY <1>1, <1>6, <2>1, <2>2 DEF x
<1>7. CASE \E t \in Tasks : ArchiveTask(q, t)
  BY <1>6, <1>7 DEF ArchiveTask
<1>8. CASE \E c \in Columns : ArchiveTasksByColumn(q, c)
  BY <1>6, <1>8 DEF ArchiveTasksByColumn, Shown
<1>9. CASE \E s \in SubColumns : DeleteSubColumn(q, s)
  <2>1. PICK s \in SubColumns : DeleteSubColumn(q, s)
    BY <1>9
  <2> DEFINE p == <<Owner[s], s>>
             d == [place |-> p, low |-> 1, high |-> MaxPosition, by |-> 0, live |-> FALSE,
                   into |-> <<Owner[s], "none">>]
             x == [Idle EXCEPT !.op = "drop", !.pc = "update", !.to = p, !.todo = <<d>>]
  <2>2. p \in Places /\ <<Owner[s], "none">> \in Places
    BY OwnerAssumption DEF Places
  <2>3. d \in Updates /\ d.place = p
    BY <2>2, BoundAssumption DEF Updates
  <2> HIDE DEF p, d
  <2>4. <<d>> \in Seq(Updates)
    BY <2>3
  <2>5. /\ x.op = "drop" /\ x.pc = "update" /\ x.locks = {} /\ x.to = p /\ x.todo = <<d>>
        /\ x \in Transactions
    BY IdleType, <2>2, <2>4 DEF Idle, Transactions
  <2>6. Begin(q, x)
    BY <2>1 DEF DeleteSubColumn, x, d, p
  <2> HIDE DEF x
  <2>7. Mine(x, write[q], row)
    BY <2>2, <2>3, <2>5 DEF Mine, Placing, Shifting
  <2> QED
    BY <1>1, <2>5, <2>6, <2>7
<1> QED
  BY <1>4, <1>5, <1>7, <1>8, <1>9 DEF Asks

LEMMA ShiftsType ==
  ASSUME NEW x \in Transactions, x.op \in Placing, x.to \in Places, x.n \in Positions,
         x.op \in Shifting => x.copy # NoRow
  PROVE  /\ Shifts(x) \in Seq(Updates)
         /\ x.op = "create" => Shifts(x) = <<>>
         /\ x.op \in Shifting =>
              \/ \E d \in Updates : Shifts(x) = <<d>> /\ IsShift(d)
              \/ \E d, e \in Updates : /\ Shifts(x) = <<d, e>> /\ IsShift(d) /\ IsShift(e)
                                       /\ d.by = -1 /\ e.by = 1 /\ ~e.live
<1>1. x.copy \in Rows
  BY DEF Transactions
<1>2. CASE x.op = "create"
  BY <1>2 DEF Shifts, Shifting
<1>3. CASE x.op = "restore"
  <2> DEFINE d == Open(x.to, x.n, TRUE)
  <2>1. d \in Updates /\ IsShift(d)
    BY ShiftTypes DEF IsShift, Open
  <2>2. Shifts(x) = <<d>>
    BY <1>3 DEF Shifts
  <2> HIDE DEF d
  <2> QED
    BY <1>3, <2>1, <2>2
<1>4. CASE x.op = "move" /\ x.to = x.copy.place
  <2> DEFINE d == Slide(x.to, x.copy.position, x.n)
  <2>1. d \in Updates
    BY <1>1, RowFacts, ShiftTypes
  <2>2. IsShift(d)
    BY DEF IsShift, Slide
  <2>3. Shifts(x) = <<d>>
    BY <1>4 DEF Shifts
  <2> HIDE DEF d
  <2> QED
    BY <1>4, <2>1, <2>2, <2>3
<1>5. CASE x.op \in {"move", "relocate"} /\ ~(x.op = "move" /\ x.to = x.copy.place)
  <2> DEFINE d == Close(x.copy.place, x.copy.position)
             e == Open(x.to, x.n, FALSE)
  <2>1. x.copy.place \in Places /\ x.copy.position \in Positions
    BY <1>1, <1>5, RowFacts DEF Shifting
  <2>2. d \in Updates /\ e \in Updates
    BY <2>1, ShiftTypes
  <2>3. IsShift(d) /\ IsShift(e) /\ d.by = -1 /\ e.by = 1 /\ ~e.live
    BY DEF IsShift, Close, Open
  <2>4. Shifts(x) = <<d, e>>
    BY <1>5 DEF Shifts
  <2> HIDE DEF d, e
  <2> QED
    BY <1>5, <2>2, <2>3, <2>4
<1> QED
  BY <1>2, <1>3, <1>4, <1>5 DEF Placing, Shifting

\* A request that has read all it needs.
LEMMA PreparedSafe ==
  ASSUME Safe, NEW q \in Requests, NEW x \in Transactions, x.op = tx[q].op, x.locks = {},
         x.op \in Placing, x.task \in Tasks, x.to \in Places, x.n \in Positions,
         x.op \in Shifting => x.copy # NoRow,
         Step(q, Prepared(x))
  PROVE  Safe'
<1> DEFINE y == Prepared(x)
<1>1. Shifts(x) \in Seq(Updates)
  BY ShiftsType
<1>2. /\ y \in Transactions /\ y.op = x.op /\ y.pc = "update" /\ y.locks = {} /\ y.task = x.task
      /\ y.to = x.to /\ y.n = x.n /\ y.copy = x.copy /\ y.todo = Shifts(x)
  BY <1>1 DEF Prepared, Transactions
<1> HIDE DEF y
<1>3. Places1(y)
  BY <1>2 DEF Places1
<1>4. y.op \in Shifting => Shifts1(y, write[q], row)
  BY <1>2, ShiftsType DEF Shifts1, Kept, Level, Left
<1>5. Mine(y, write[q], row)
  BY <1>2, <1>3, <1>4, ShiftsType DEF Mine, Placing, Shifting
<1>6. Step(q, y)
  BY DEF y
<1> QED
  BY <1>2, <1>5, <1>6, QuietStep DEF Step, Safe, TypeOK

LEMMA CheckSafe ==
  ASSUME Safe, NEW q \in Requests, CheckPlace(q) \/ ReadMax(q) \/ CheckRestore(q)
  PROVE  Safe'
<1> DEFINE x == tx[q]
<1>0. x \in Transactions /\ Mine(x, write[q], row) /\ write[q] \in [Tasks -> Rows]
  BY DEF Safe, TypeOK
<1>1. /\ x.pc \in {"check", "max"}
      /\ CheckPlace(q) => x.op # "restore"
      /\ CheckRestore(q) => x.op = "restore"
  BY DEF CheckPlace, ReadMax, CheckRestore
<1> HIDE DEF x
<1>2. x.op \in Placing /\ x.task \in Tasks /\ x.to \in Places /\ (x.given => x.n \in Positions)
  BY <1>0, <1>1, TxFacts DEF Mine, Placing, Shifting, Places1
<1>3. x.locks = {} /\ (x.op \in Shifting => x.copy # NoRow)
  BY <1>0, <1>1, <1>2 DEF Mine, Shifts1, Left, Placing
<1>4. CASE CheckPlace(q) /\ x.given
  BY <1>0, <1>2, <1>3, <1>4, PreparedSafe DEF CheckPlace, x
<1>5. CASE CheckPlace(q) /\ ~x.given
  <2> DEFINE y == [x EXCEPT !.pc = "max"]
  <2>1. /\ y \in Transactions /\ y.op = x.op /\ y.pc = "max" /\ y.locks = {} /\ y.task = x.task
        /\ y.to = x.to /\ y.n = x.n /\ y.copy = x.copy /\ y.todo = x.todo /\ y.given = x.given
    BY <1>0, <1>3 DEF Transactions
  <2>2. Step(q, y)
    BY <1>5 DEF CheckPlace, x
  <2> HIDE DEF y
  <2>3. Places1(y)
    BY <1>2, <2>1 DEF Places1
  <2>4. y.op \in Shifting => Shifts1(y, write[q], row)
    BY <1>3, <2>1 DEF Shifts1, Kept, Level, Left
  <2>5. Mine(y, write[q], row)
    BY <1>0, <1>2, <2>1, <2>3, <2>4 DEF Mine, Placing, Shifting
  <2> QED
    BY <2>1, <2>2, <2>5, QuietStep DEF Step, Safe, TypeOK
<1>6. CASE ReadMax(q)
  <2>1. PICK n \in Positions : Step(q, Prepared([x EXCEPT !.n = n]))
    BY <1>6 DEF ReadMax, x
  <2> DEFINE y == [x EXCEPT !.n = n]
  <2>2. /\ y \in Transactions /\ y.op = x.op /\ y.locks = {} /\ y.task = x.task
        /\ y.to = x.to /\ y.n = n /\ y.copy = x.copy
    BY <1>0, <1>3, BoundAssumption DEF Transactions, Positions
  <2> HIDE DEF y
  <2>3. Step(q, Prepared(y))
    BY <2>1 DEF y
  <2> QED
    BY <1>2, <1>3, <2>2, <2>3, PreparedSafe DEF x
<1>7. CASE CheckRestore(q)
  <2> DEFINE e == EntryOf(x)
             sub == IF x.to[2] = "none" THEN e.place[2] ELSE x.to[2]
             p == <<x.to[1], IF sub \in active THEN sub ELSE "none">>
             y == [x EXCEPT !.to = p, !.n = e.position]
  <2>1. (sub # "none" => Owner[sub] = x.to[1]) /\ Step(q, Prepared(y))
    BY <1>7 DEF CheckRestore, x
  <2>2. e.position \in Positions
    <3>1. x.copy.position \in Positions
      BY <1>0, RowFacts DEF Transactions
    <3>2. row[x.task].origin.position \in Positions
      BY <1>2, RowFacts, BoundAssumption DEF Safe, TypeOK, Entries, NoEntry, Positions
    <3> QED
      BY <3>1, <3>2 DEF EntryOf
  <2> HIDE DEF e
  <2>3. p \in Places
    <3> HIDE DEF sub
    <3>1. CASE sub \in active
      BY <2>1, <3>1, OwnerAssumption DEF Places, Safe, TypeOK
    <3>2. CASE sub \notin active
      <4>1. x.to[1] \in Columns
        BY <1>2, OwnerAssumption DEF Places
      <4> QED
        BY <3>2, <4>1 DEF Places
    <3> QED
      BY <3>1, <3>2
  <2> HIDE DEF p
  <2>4. /\ y \in Transactions /\ y.op = x.op /\ y.locks = {} /\ y.task = x.task
        /\ y.to = p /\ y.n = e.position /\ y.copy = x.copy
    <3> DEFINE n == e.position
    <3>1. n \in 0 .. MaxPosition
      BY <2>2, BoundAssumption DEF Positions
    <3> HIDE DEF n
    <3>2. [x EXCEPT !.to = p, !.n = n] \in Transactions
      BY <1>0, <2>3, <3>1 DEF Transactions
    <3> QED
      BY <1>0, <1>3, <3>2 DEF n, Transactions
  <2> HIDE DEF y
  <2> QED
    BY <1>2, <1>3, <2>1, <2>2, <2>3, <2>4, PreparedSafe DEF x
<1> QED
  BY <1>4, <1>5, <1>6, <1>7

LEMMA SelectSafe ==
  ASSUME Safe, NEW q \in Requests, Select(q)
  PROVE  Safe'
<1> DEFINE x == tx[q]
           y == [x EXCEPT !.pc = "wait",
                          !.chosen = {t \in Tasks : Matches(See(q, t), Head(x.todo))}]
<1>1. x \in Transactions /\ Mine(x, write[q], row)
  BY DEF Safe, TypeOK
<1>2. x.pc = "update" /\ x.todo # <<>> /\ Step(q, y)
  BY DEF Select
<1>3. /\ y \in Transactions /\ y.op = x.op /\ y.pc = "wait" /\ y.locks = x.locks /\ y.task = x.task
      /\ y.to = x.to /\ y.n = x.n /\ y.copy = x.copy /\ y.given = x.given /\ y.todo = x.todo
      /\ y.chosen = {t \in Tasks : Matches(See(q, t), Head(x.todo))}
  BY <1>1 DEF Transactions
<1>4. \A u \in x.locks : u \in Tasks /\ See(q, u) = write[q][u]
  BY <1>1, TxFacts DEF See
<1> HIDE DEF x, y
<1>5. y.op \in Placing => Places1(y)
  BY <1>1, <1>2, <1>3 DEF Mine, Places1
<1>6. ASSUME x.op \in Shifting PROVE Shifts1(y, write[q], row)
  <2>1. Shifts1(x, write[q], row)
    BY <1>1, <1>6 DEF Mine
  <2>2. Kept(y, write[q], row) /\ Level(y, write[q], row)
    BY <1>3, <2>1 DEF Shifts1, Kept, Level
  <2>3. Left(y, write[q], row)
    BY <1>2, <1>3, <2>1 DEF Shifts1, Left
  <2>4. \A u \in y.locks : u \in y.chosen <=> Matches(write[q][u], Head(y.todo))
    BY <1>3, <1>4
  <2> QED
    BY <1>3, <2>1, <2>2, <2>3, <2>4 DEF Shifts1
<1>7. Mine(y, write[q], row)
  BY <1>1, <1>2, <1>3, <1>5, <1>6 DEF Mine
<1> QED
  BY <1>2, <1>3, <1>7, QuietStep DEF Step, Safe, TypeOK, x

LEMMA ReadTaskSafe ==
  ASSUME Safe, NEW q \in Requests, NEW t \in Tasks, ReadTask(q, t)
  PROVE  Safe'
<1> DEFINE x == tx[q]
           r == See(q, t)
           y == [x EXCEPT !.chosen = @ \ {t}]
           z == [x EXCEPT !.pc = "entry", !.task = t, !.copy = r]
<1>1. x \in Transactions /\ Mine(x, write[q], row) /\ r \in Rows
  BY SeesType DEF Safe, TypeOK
<1>2. x.pc = "list" /\ Step(q, IF r.archived THEN y ELSE z)
  BY DEF ReadTask
<1>3. y \in Transactions /\ y.op = x.op /\ y.pc = x.pc /\ y.locks = x.locks
  BY <1>1 DEF Transactions
<1> HIDE DEF r
<1>4. z \in Transactions /\ z.op = x.op /\ z.pc = "entry" /\ z.locks = x.locks /\ z.task = t
  BY <1>1 DEF Transactions
<1> HIDE DEF x, y, z
<1>5. x.op = "archive"
  BY <1>1, <1>2, TxFacts DEF Mine, Placing, Shifting, Places1
<1>6. Mine(y, write[q], row) /\ Mine(z, write[q], row)
  BY <1>1, <1>2, <1>3, <1>4, <1>5 DEF Mine, Placing, Shifting
<1> QED
  BY <1>2, <1>3, <1>4, <1>6, QuietStep DEF Step, Safe, TypeOK, x

LEMMA WriteEntrySafe ==
  ASSUME Safe, NEW q \in Requests, WriteEntry(q)
  PROVE  Safe'
<1> DEFINE x == tx[q]
           t == x.task
           r == See(q, t)
           entry == [place |-> x.copy.place, position |-> x.copy.position]
           v == [r EXCEPT !.archived = TRUE, !.origin = entry]
           w == [write[q] EXCEPT ![t] = v]
           y == [x EXCEPT !.pc = "list", !.chosen = @ \ {t}, !.locks = @ \union {t}]
<1>1. /\ x \in Transactions /\ Mine(x, write[q], row) /\ write[q] \in [Tasks -> Rows]
      /\ row \in [Tasks -> Rows]
  BY DEF Safe, TypeOK
<1>2. /\ x.pc = "entry" /\ Free(q, t) /\ r # NoRow
      /\ write' = [write EXCEPT ![q] = w] /\ tx' = [tx EXCEPT ![q] = y]
      /\ UNCHANGED <<row, active, begun, clean>>
  BY DEF WriteEntry
<1> HIDE DEF x
<1>3. x.op = "archive" /\ t \in Tasks
  BY <1>1, <1>2, TxFacts DEF Mine, Placing, Shifting, Places1
<1>4. r \in Rows /\ entry \in Entries
  <2>1. r \in Rows
    BY <1>3, SeesType DEF Safe
  <2>2. entry \in Entries
    <3>1. x.copy \in Rows
      BY <1>1, TxFacts
    <3>2. CASE x.copy = NoRow
      BY <3>2 DEF NoRow, NoEntry, Entries
    <3>3. CASE x.copy # NoRow
      BY <3>1, <3>3, RowFacts DEF Entries
    <3> QED
      BY <3>2, <3>3
  <2> QED
    BY <2>1, <2>2
<1> HIDE DEF entry, r
<1>5. v \in Rows /\ v.place = r.place /\ v.position = r.position /\ v.archived = TRUE
  <2>1. r \in [place : Places, position : Positions, archived : BOOLEAN, origin : Entries]
    BY <1>2, <1>4 DEF Rows
  <2> QED
    BY <1>4, <2>1 DEF Rows
<1>6. /\ y \in Transactions /\ y.op = x.op /\ y.pc = "list" /\ y.locks = x.locks \union {t}
  BY <1>1, <1>3 DEF Transactions
<1> HIDE DEF v, y
<1>7. w \in [Tasks -> Rows] /\ w[t] = v /\ \A u \in Tasks \ {t} : w[u] = write[q][u]
  BY <1>1, <1>3, <1>5
<1>8. r.place = row[t].place /\ r.position = row[t].position
  <2>1. t \in x.locks => write[q][t].place = row[t].place /\ write[q][t].position = row[t].position
    BY <1>1, <1>3 DEF Mine
  <2> QED
    BY <2>1 DEF See, r, x
<1>9. \A u \in y.locks :
        w[u].place = row[u].place /\ w[u].position = row[u].position /\ w[u].archived
  <2>1. \A u \in x.locks :
          u \in Tasks /\ write[q][u].place = row[u].place /\ write[q][u].position = row[u].position
          /\ write[q][u].archived
    BY <1>1, <1>3, TxFacts DEF Mine
  <2> HIDE DEF w
  <2> QED
    BY <1>5, <1>6, <1>7, <1>8, <2>1
<1> HIDE DEF w
<1>10. Mine(y, w, row)
  BY <1>3, <1>6, <1>9 DEF Mine, Placing, Shifting
<1>11. begun' \in 0 .. MaxBegun
  BY <1>2 DEF Safe, TypeOK
<1>12. \A u \in y.locks \ tx[q].locks : Free(q, u)
  BY <1>2, <1>6 DEF x
<1> QED
  BY <1>2, <1>6, <1>7, <1>10, <1>11, <1>12, LocalStep

\* y and v are x and w after the shift d of the rows hit, of which x has seen s.
ShiftMade(x, w, f, y, v, s, d, hit) ==
  /\ x.op \in Shifting /\ x.pc = "wait" /\ d = Head(x.todo) /\ hit \subseteq x.chosen
  /\ \A u \in Tasks : s[u] = IF u \in x.locks THEN w[u] ELSE f[u]
  /\ \A u \in x.chosen : u \in hit <=> Matches(s[u], d)
  /\ \A u \in hit : /\ v[u].place = d.into /\ v[u].position = s[u].position + d.by
                    /\ v[u].archived = s[u].archived
  /\ \A u \in Tasks \ hit : v[u] = w[u]
  /\ y.op = x.op /\ y.pc = "update" /\ y.todo = Tail(x.todo) /\ y.copy = x.copy
  /\ y.locks = x.locks \union hit

\* Each row that q has written is still within one of what is committed, and no two of them
\* have changed sides.
LEMMA UpdateShifts ==
  ASSUME NEW x \in Transactions, NEW y \in Transactions, NEW w \in [Tasks -> Rows],
         NEW v \in [Tasks -> Rows], NEW f \in [Tasks -> Rows], NEW s \in [Tasks -> Rows],
         NEW d, NEW hit, ShiftMade(x, w, f, y, v, s, d, hit), Shifts1(x, w, f)
  PROVE  Shifts1(y, v, f)
<1>0. /\ x.op \in Shifting /\ x.pc = "wait" /\ d = Head(x.todo) /\ hit \subseteq x.chosen
      /\ \A u \in Tasks : s[u] = IF u \in x.locks THEN w[u] ELSE f[u]
      /\ \A u \in x.chosen : u \in hit <=> Matches(s[u], d)
      /\ \A u \in hit : /\ v[u].place = d.into /\ v[u].position = s[u].position + d.by
                        /\ v[u].archived = s[u].archived
      /\ \A u \in Tasks \ hit : v[u] = w[u]
      /\ y.op = x.op /\ y.pc = "update" /\ y.todo = Tail(x.todo) /\ y.copy = x.copy
      /\ y.locks = x.locks \union hit
  BY DEF ShiftMade
<1> USE <1>0
<1>1. /\ x.locks \subseteq Tasks /\ x.chosen \subseteq Tasks /\ hit \subseteq Tasks
      /\ x.todo \in Seq(Updates)
  BY TxFacts
<1>2. /\ Kept(x, w, f) /\ Level(x, w, f) /\ Left(x, w, f) /\ x.copy # NoRow
      /\ \A u \in x.locks : u \in x.chosen <=> Matches(w[u], d)
  BY DEF Shifts1
<1>3. /\ d \in Updates /\ IsShift(d)
      /\ \/ x.locks = {} /\ y.todo = <<>>
         \/ /\ d.by = 1 /\ ~d.live /\ y.todo = <<>>
            /\ \A u \in x.locks : w[u].position <= f[u].position
         \/ /\ x.locks = {} /\ d.by = -1
            /\ \E e \in Updates : y.todo = <<e>> /\ IsShift(e) /\ e.by = 1 /\ ~e.live
  <2>1. CASE \E e \in Updates : x.todo = <<e>>
    BY <1>2, <2>1 DEF Left
  <2>2. CASE \E a, e \in Updates : x.todo = <<a, e>>
    BY <1>2, <2>2 DEF Left
  <2> QED
    BY <1>2, <2>1, <2>2 DEF Left
<1>4. \A u \in Tasks : s[u].position \in Int /\ f[u].position \in Int /\ w[u].position \in Int
                       /\ v[u].position \in Int
  <2>1. \A r \in Rows : r.position \in Int
    BY RowFacts
  <2> QED
    BY ONLY <2>1, s \in [Tasks -> Rows], f \in [Tasks -> Rows], w \in [Tasks -> Rows],
       v \in [Tasks -> Rows]
<1>5. d.by \in {-1, 1} /\ d.into = d.place /\ d.low \in Int /\ d.high \in Int
  BY <1>3 DEF IsShift, Updates
<1>6. \A u \in hit : /\ s[u].place = d.place /\ d.low <= s[u].position /\ s[u].position <= d.high
                     /\ d.live => ~s[u].archived
                     /\ v[u].place = s[u].place /\ v[u].position = s[u].position + d.by
                     /\ v[u].archived = s[u].archived
  BY <1>1, <1>5 DEF Matches
<1>7. Kept(y, v, f)
  <2> SUFFICES ASSUME NEW u \in y.locks
               PROVE  /\ v[u].place = f[u].place /\ v[u].archived = f[u].archived
                      /\ f[u].position - 1 <= v[u].position /\ v[u].position <= f[u].position + 1
    BY DEF Kept
  <2>1. u \in Tasks
    BY <1>1
  <2>2. CASE u \notin hit
    BY <1>2, <2>1, <2>2 DEF Kept
  <2>3. CASE u \in hit /\ u \notin x.locks
    BY <1>4, <1>5, <1>6, <2>1, <2>3
  <2>4. CASE u \in hit /\ u \in x.locks
    BY <1>2, <1>3, <1>4, <1>5, <1>6, <2>1, <2>4 DEF Kept
  <2> QED
    BY <2>2, <2>3, <2>4
<1>8. Level(y, v, f)
  <2> SUFFICES ASSUME NEW t \in y.locks, NEW u \in y.locks, Before(f, t, u)
               PROVE  v[t].position <= v[u].position
    BY DEF Level
  <2>1. t \in Tasks /\ u \in Tasks /\ f[t].place = f[u].place /\ f[t].position < f[u].position
    BY <1>1 DEF Before
  <2>2. CASE x.locks = {}
    <3>1. t \in hit /\ u \in hit
      BY <2>2
    <3>2. s[t] = f[t] /\ s[u] = f[u]
      BY <2>1, <2>2
    <3>3. v[t].position = f[t].position + d.by /\ v[u].position = f[u].position + d.by
      BY <1>6, <3>1, <3>2
    <3>4. f[t].position \in Int /\ f[u].position \in Int
      BY <1>4, <2>1
    <3> QED
      BY ONLY <1>5, <2>1, <3>3, <3>4
  <2>3. CASE d.by = 1 /\ ~d.live /\ \A m \in x.locks : w[m].position <= f[m].position
    <3>1. s[t].place = f[t].place /\ s[u].place = f[u].place
      BY <1>2, <2>1 DEF Kept
    <3>2. s[t].position <= s[u].position
      <4>1. CASE t \in x.locks /\ u \in x.locks
        BY <1>2, <2>1, <4>1 DEF Level
      <4>2. CASE t \in x.locks /\ u \notin x.locks
        BY <1>4, <2>1, <2>3, <4>2
      <4>3. CASE t \notin x.locks /\ u \in x.locks
        BY <1>2, <1>4, <2>1, <4>3 DEF Kept
      <4>4. CASE t \notin x.locks /\ u \notin x.locks
        BY <1>4, <2>1, <4>4
      <4> QED
        BY <4>1, <4>2, <4>3, <4>4
    <3>3. t \notin hit => v[t].position = s[t].position
      BY <2>1
    <3>4. u \notin hit => v[u].position = s[u].position /\ u \in x.locks
      BY <2>1
    <3>5. t \in hit => v[t].position = s[t].position + 1
      BY <1>6, <2>3
    <3>6. u \in hit => v[u].position = s[u].position + 1
      BY <1>6, <2>3
    <3>7. CASE t \in hit /\ u \notin hit
      <4>1. ~Matches(w[u], d)
        BY <1>2, <2>1, <3>4, <3>7
      <4>2. w[u] = s[u] /\ s[u].place = d.place
        BY <1>6, <2>1, <3>1, <3>4, <3>7
      <4>3. s[u].position < d.low \/ s[u].position > d.high
        BY <1>4, <1>5, <2>1, <2>3, <4>1, <4>2 DEF Matches
      <4> QED
        BY <1>4, <1>5, <1>6, <2>1, <3>2, <3>4, <3>5, <3>7, <4>3
    <3>8. CASE ~(t \in hit /\ u \notin hit)
      BY <1>4, <2>1, <3>2, <3>3, <3>4, <3>5, <3>6, <3>8
    <3> QED
      BY <3>7, <3>8
  <2> QED
    BY <1>3, <2>2, <2>3
<1>9. Left(y, v, f)
  <2>1. CASE y.todo = <<>>
    BY <2>1 DEF Left
  <2>2. CASE /\ x.locks = {} /\ d.by = -1
             /\ \E e \in Updates : y.todo = <<e>> /\ IsShift(e) /\ e.by = 1 /\ ~e.live
    <3>1. \A u \in y.locks : v[u].position <= f[u].position
      <4> SUFFICES ASSUME NEW u \in y.locks PROVE v[u].position <= f[u].position
        OBVIOUS
      <4>1. u \in hit /\ u \in Tasks
        BY <1>1, <2>2
      <4>2. v[u].position = s[u].position - 1 /\ s[u] = f[u]
        BY <1>4, <1>6, <2>2, <4>1
      <4>3. f[u].position \in Int
        BY <1>4, <4>1
      <4> QED
        BY ONLY <4>2, <4>3
    <3> QED
      BY <2>2, <3>1 DEF Left
  <2> QED
    BY <1>3, <2>1, <2>2
<1> QED
  BY <1>2, <1>7, <1>8, <1>9 DEF Shifts1

LEMMA UpdateSafe ==
  ASSUME Safe, NEW q \in Requests, Update(q)
  PROVE  Safe'
<1> DEFINE x == tx[q]
           d == Head(x.todo)
           s == [t \in Tasks |-> See(q, t)]
           hit == {t \in x.chosen : Matches(See(q, t), d)}
           w == [t \in Tasks |-> IF t \in hit THEN Changed(See(q, t), d) ELSE write[q][t]]
           y == [x EXCEPT !.pc = "update", !.todo = Tail(@), !.chosen = {}, !.locks = @ \union hit]
<1>1. /\ x \in Transactions /\ Mine(x, write[q], row) /\ write[q] \in [Tasks -> Rows]
      /\ row \in [Tasks -> Rows] /\ x.todo \in Seq(Updates) /\ x.locks \subseteq Tasks
      /\ x.chosen \subseteq Tasks
  BY TxFacts DEF Safe, TypeOK
<1>2. /\ x.pc = "wait" /\ \A t \in x.chosen : Free(q, t)
      /\ \A t \in hit : See(q, t).position + d.by <= MaxPosition
      /\ write' = [write EXCEPT ![q] = w] /\ tx' = [tx EXCEPT ![q] = y]
      /\ UNCHANGED <<row, active, begun, clean>>
  BY DEF Update
<1>3. s \in [Tasks -> Rows] /\ \A t \in Tasks : See(q, t) = s[t]
  BY SeesType DEF Safe
<1>4. \A t \in Tasks : s[t] = IF t \in x.locks THEN write[q][t] ELSE row[t]
  BY DEF See
<1>5. \A t \in Tasks : See(q, t) = s[t]
  BY <1>3
<1>6. \A t \in x.chosen : t \in hit <=> Matches(s[t], d)
  BY <1>1, <1>5
<1>7. \A t \in hit : s[t].position + d.by <= MaxPosition
  BY <1>1, <1>2, <1>5
<1>8. w = [t \in Tasks |-> IF t \in hit THEN Changed(s[t], d) ELSE write[q][t]]
  BY <1>5
<1> HIDE DEF x, s, hit, w
<1>9. x.op \in Shifting \union {"drop"} /\ x.todo # <<>>
  <2>1. x.op \in Shifting \union {"drop"}
    BY <1>1, <1>2, TxFacts DEF Mine, Placing, Shifting
  <2>2. x.op \in Shifting => x.todo # <<>>
    BY <1>1, <1>2 DEF Mine, Shifts1, Left
  <2>3. x.op = "drop" => \E e \in Updates : x.todo = <<e>>
    BY <1>1, <1>2 DEF Mine
  <2> QED
    BY <2>1, <2>2, <2>3
<1>10. d \in Updates /\ Tail(x.todo) \in Seq(Updates)
  BY <1>1, <1>9
<1> HIDE DEF d
<1>11. hit \subseteq x.chosen
  BY DEF hit
<1>12. \A t \in hit : /\ w[t] = Changed(s[t], d) /\ w[t] \in Rows /\ w[t].place = d.into
                      /\ w[t].position = s[t].position + d.by /\ w[t].archived = s[t].archived
  <2> SUFFICES ASSUME NEW t \in hit
               PROVE  /\ w[t] = Changed(s[t], d) /\ w[t] \in Rows /\ w[t].place = d.into
                      /\ w[t].position = s[t].position + d.by /\ w[t].archived = s[t].archived
    OBVIOUS
  <2>1. t \in Tasks /\ s[t] \in Rows /\ Matches(s[t], d) /\ s[t].position + d.by <= MaxPosition
    BY <1>1, <1>3, <1>6, <1>7, <1>11
  <2>2. w[t] = Changed(s[t], d)
    BY <1>8, <2>1
  <2> QED
    BY <1>10, <2>1, <2>2, ChangedType
<1>13. \A t \in Tasks \ hit : w[t] = write[q][t]
  BY <1>8
<1>14. w \in [Tasks -> Rows]
  <2>1. \A t \in Tasks : w[t] \in Rows
    BY <1>1, <1>12, <1>13
  <2>2. w = [t \in Tasks |-> w[t]]
    BY <1>8
  <2> QED
    BY <2>1, <2>2
<1>15. /\ y \in Transactions /\ y.op = x.op /\ y.pc = "update" /\ y.todo = Tail(x.todo)
       /\ y.locks = x.locks \union hit /\ y.task = x.task /\ y.to = x.to /\ y.n = x.n
       /\ y.copy = x.copy /\ y.given = x.given
  <2>1. hit \subseteq Tasks
    BY <1>1, <1>11
  <2> QED
    BY <1>1, <1>10, <2>1 DEF Transactions
<1> HIDE DEF y
<1>16. x.op \in Shifting => Shifts1(y, w, row)
  <2> SUFFICES ASSUME x.op \in Shifting PROVE Shifts1(y, w, row)
    OBVIOUS
  <2>1. Shifts1(x, write[q], row)
    BY <1>1 DEF Mine
  <2>2. hit \in SUBSET x.chosen
    BY <1>11
  <2>3. /\ x \in Transactions /\ write[q] \in [Tasks -> Rows] /\ row \in [Tasks -> Rows]
        /\ x.pc = "wait" /\ s \in [Tasks -> Rows] /\ d = Head(x.todo)
    BY <1>1, <1>2, <1>3 DEF d
  <2>4. \A u \in hit : /\ w[u].place = d.into /\ w[u].position = s[u].position + d.by
                      /\ w[u].archived = s[u].archived
    BY <1>12
  <2>5. /\ y \in Transactions /\ y.op = x.op /\ y.pc = "update" /\ y.todo = Tail(x.todo)
        /\ y.copy = x.copy /\ y.locks = x.locks \union hit
    BY <1>15
  <2>6. ShiftMade(x, write[q], row, y, w, s, d, hit)
    BY ONLY x.op \in Shifting, <1>4, <1>6, <1>13, <2>2, <2>3, <2>4, <2>5 DEF ShiftMade
  <2> QED
    BY ONLY <1>14, <2>1, <2>3, <2>5, <2>6, UpdateShifts
<1>17. ASSUME x.op = "drop" PROVE Mine(y, w, row)
  <2>1. x.to \in Places /\ x.locks = {} /\ \E e \in Updates : x.todo = <<e>> /\ e.place = x.to
    BY <1>1, <1>9, <1>17 DEF Mine
  <2>2. y.todo = <<>> /\ d.place = x.to
    BY <1>15, <2>1 DEF d
  <2>3. \A t \in hit : t \in Tasks /\ s[t] = row[t] /\ row[t].place = x.to
    BY <1>1, <1>4, <1>6, <1>11, <2>1, <2>2 DEF Matches
  <2>4. \A t \in y.locks : row[t].place = y.to /\ w[t].archived = row[t].archived
    BY <1>12, <1>15, <2>1, <2>3
  <2> QED
    BY <1>15, <1>17, <2>1, <2>2, <2>4 DEF Mine, Placing, Shifting
<1>18. Mine(y, w, row)
  <2>1. CASE x.op \in Shifting
    <3>1. Places1(y)
      BY <1>1, <1>2, <1>15, <2>1 DEF Mine, Placing, Places1
    <3> QED
      BY <1>15, <1>16, <2>1, <3>1 DEF Mine, Placing, Shifting
  <2> QED
    BY <1>9, <1>17, <2>1
<1>19. begun' \in 0 .. MaxBegun
  BY <1>2 DEF Safe, TypeOK
<1>20. \A u \in y.locks \ tx[q].locks : Free(q, u)
  BY <1>2, <1>11, <1>15 DEF x
<1> QED
  BY <1>2, <1>14, <1>15, <1>18, <1>19, <1>20, LocalStep

LEMMA LastType ==
  ASSUME Safe, NEW q \in Requests, Done(q), tx[q].op \in Placing
  PROVE  tx[q].task \in Tasks /\ Last(q) \in Rows
<1> DEFINE x == tx[q]
           r == See(q, x.task)
<1>1. x \in Transactions /\ Mine(x, write[q], row) /\ x.pc = "update"
  BY DEF Safe, TypeOK, Done
<1>2. x.task \in Tasks /\ x.to \in Places /\ x.n \in Positions
  BY <1>1 DEF Mine, Places1
<1>3. r \in Rows
  BY <1>2, SeesType DEF Safe
<1>4. CASE x.op = "create"
  BY <1>2, <1>4 DEF Last, Rows, Entries
<1>5. CASE x.op # "create" /\ r = NoRow
  BY <1>2, <1>5, NoRowFacts DEF Last
<1>6. CASE x.op # "create" /\ r # NoRow
  <2> DEFINE a == r.archived /\ x.op # "restore"
             z == [r EXCEPT !.place = x.to, !.position = x.n, !.archived = a]
  <2>1. r \in [place : Places, position : Positions, archived : BOOLEAN, origin : Entries]
    BY <1>3, <1>6 DEF Rows
  <2>2. Last(q) = z
    BY <1>6, <2>1 DEF Last
  <2>3. a \in BOOLEAN
    OBVIOUS
  <2> HIDE DEF a, r, x
  <2>4. z \in Rows
    BY <1>2, <2>1, <2>3 DEF Rows
  <2> QED
    BY <1>2, <2>2, <2>4 DEF x
<1> QED
  BY <1>2, <1>4, <1>5, <1>6

LEMMA FinishSafe ==
  ASSUME Safe, NEW q \in Requests, Finish(q)
  PROVE  Safe'
<1> DEFINE t == tx[q].task
           f == [u \in Tasks |-> IF u = t THEN Last(q) ELSE See(q, u)]
<1>1. Done(q) /\ tx[q].op \in Placing /\ Free(q, t) /\ Commit(q, f)
      /\ active' = active /\ begun' = begun /\ clean' \in BOOLEAN
  BY DEF Finish, Placing, Shifting, Safe, TypeOK
<1>2. f \in [Tasks -> Rows]
  BY <1>1, LastType, SeesType DEF Safe
<1>3. \A r \in Requests \ {q} : \A u \in tx[r].locks : f[u] = row[u]
  BY <1>1, SeenByOthers DEF Free
<1> HIDE DEF f
<1> QED
  BY <1>1, <1>2, <1>3, CommitStep DEF Safe, TypeOK

LEMMA OtherCommitsSafe ==
  ASSUME Safe, \/ \E q \in Requests : FinishArchive(q) \/ FinishDrop(q) \/ Fail(q)
               \/ \E t \in Tasks : DeleteTask(t)
  PROVE  Safe'
<1>1. ASSUME NEW q \in Requests, FinishArchive(q) \/ FinishDrop(q) PROVE Safe'
  <2> DEFINE f == [t \in Tasks |-> See(q, t)]
  <2>1. Commit(q, f) /\ active' \subseteq SubColumns /\ clean' \in BOOLEAN /\ begun' = begun
    BY <1>1 DEF FinishArchive, FinishDrop, Safe, TypeOK
  <2>2. f \in [Tasks -> Rows] /\ \A r \in Requests \ {q} : \A u \in tx[r].locks : f[u] = row[u]
    BY SeenByOthers
  <2> HIDE DEF f
  <2> QED
    BY <2>1, <2>2, CommitStep DEF Safe, TypeOK
<1>2. ASSUME NEW q \in Requests, Fail(q) PROVE Safe'
  BY <1>2, CommitStep DEF Fail, Safe, TypeOK
<1>3. ASSUME NEW t \in Tasks, DeleteTask(t) PROVE Safe'
  <2> DEFINE f == [row EXCEPT ![t] = NoRow]
  <2>1. Commit(NoTask, f) /\ active' = active /\ clean' = clean /\ begun' \in 0 .. MaxBegun
        /\ \A r \in Requests : t \notin tx[r].locks
    BY <1>3, BoundAssumption DEF DeleteTask, Safe, TypeOK
  <2>2. f \in [Tasks -> Rows] /\ \A u \in Tasks \ {t} : f[u] = row[u]
    BY NoRowFacts DEF Safe, TypeOK
  <2>3. \A r \in Requests : tx[r].locks \subseteq Tasks
    BY TxFacts DEF Safe, TypeOK
  <2> HIDE DEF f
  <2> QED
    BY <2>1, <2>2, <2>3, CommitStep DEF Safe, TypeOK
<1> QED
  BY <1>1, <1>2, <1>3

LEMMA StepSafe == Safe /\ [Next]_vars => Safe'
<1> SUFFICES ASSUME Safe, [Next]_vars PROVE Safe'
  OBVIOUS
<1>1. ASSUME NEW q \in Requests,
             \/ Asks(q) \/ CheckPlace(q) \/ ReadMax(q) \/ CheckRestore(q) \/ Select(q) \/ Update(q)
             \/ Finish(q) \/ WriteEntry(q) \/ FinishArchive(q) \/ FinishDrop(q) \/ Fail(q)
             \/ \E t \in Tasks : ReadTask(q, t)
      PROVE  Safe'
  BY <1>1, BeginSafe, CheckSafe, SelectSafe, UpdateSafe, FinishSafe, WriteEntrySafe, ReadTaskSafe,
     OtherCommitsSafe
<1>2. ASSUME NEW s \in SubColumns, NEW on \in BOOLEAN, UpdateSubColumn(s, on) PROVE Safe'
  <2>1. UNCHANGED <<row, tx, write, clean>> /\ active' \subseteq SubColumns
        /\ begun' \in 0 .. MaxBegun
    BY <1>2, BoundAssumption DEF UpdateSubColumn, Safe, TypeOK
  <2>2. TypeOK' /\ Exclusive'
    BY <2>1 DEF Safe, TypeOK, Exclusive
  <2> QED
    BY <2>1, <2>2 DEF Safe
<1>3. CASE UNCHANGED vars
  <2>1. TypeOK' /\ Exclusive'
    BY <1>3 DEF vars, Safe, TypeOK, Exclusive
  <2> QED
    BY <1>3, <2>1 DEF vars, Safe
<1>4. CASE \E t \in Tasks : DeleteTask(t)
  BY <1>4, OtherCommitsSafe
<1> QED
  BY <1>1, <1>2, <1>3, <1>4 DEF Next

\* Every variable keeps its type; no UPDATE takes a position below 1.
THEOREM TypeCorrect == Spec => []TypeOK
<1>1. Safe => TypeOK
  BY DEF Safe
<1> QED
  BY <1>1, InitSafe, StepSafe, PTL DEF Spec

-----------------------------------------------------------------------------
\* What x sees of u; the others that are shown; they are in their order, and x.n is free.
Seen(x, w, f, u) == IF u \in x.locks THEN w[u] ELSE f[u]
Others(x, f) == Shown(f) \ {x.task}
InOrder(x, w, f) ==
  \A u, v \in Others(x, f) :
    Before(f, u, v) => Seen(x, w, f, u).position < Seen(x, w, f, v).position
HasRoom(x, w, f) ==
  \A u \in Others(x, f) : f[u].place = x.to => Seen(x, w, f, u).position # x.n

\* How far x has come: before its shifts, at the first of them, at the last, or past them.
Going(x, w, f) ==
  \/ x.pc \in {"check", "max"}
  \/ x.pc = "update" /\ x.todo = <<>> /\ InOrder(x, w, f) /\ HasRoom(x, w, f)
  \/ /\ x.pc \in {"update", "wait"} /\ InOrder(x, w, f)
     /\ \E live \in BOOLEAN : x.todo = <<Open(x.to, x.n, live)>>
  \/ /\ x.pc \in {"update", "wait"} /\ x.locks = {} /\ x.op \in {"move", "relocate"}
     /\ \/ x.to = x.copy.place /\ x.todo = <<Slide(x.to, x.copy.position, x.n)>>
        \/ x.todo = <<Close(x.copy.place, x.copy.position), Open(x.to, x.n, FALSE)>>

\* Nothing near x has changed since it read: its copy is the row, and the rows that it has
\* selected are those that match.
Apt(x, w, f) ==
  /\ \A u \in x.locks : f[u].place \in Near(x)
  /\ x.op \in {"move", "relocate"} => f[x.task] = x.copy
  /\ Going(x, w, f)
  /\ x.pc = "wait" => \A u \in Tasks : u \in x.chosen <=> Matches(Seen(x, w, f, u), Head(x.todo))

Fit(x) == ~x.stale /\ (x.op \in {"move", "relocate"} => ~x.copy.archived)
Fine(x, w, f) ==
  /\ x.op \in Shifting /\ Fit(x) => Apt(x, w, f)
  /\ x.op = "create" /\ ~x.stale /\ x.pc = "update" /\ ~x.given =>
       \A u \in Tasks : f[u].place = x.to => f[u].position # x.n

Sound ==
  /\ Safe
  /\ clean => Distinct(row) /\ \A q \in Requests : Fine(tx[q], write[q], row)

LEMMA InitSound == Init => Sound
<1> SUFFICES ASSUME Init PROVE Sound
  OBVIOUS
<1>1. Distinct(row)
  BY BoardsAssumption DEF Init
<1>2. \A q \in Requests : tx[q].op = "none"
  BY DEF Init, Idle
<1>3. \A q \in Requests : Fine(tx[q], write[q], row)
  BY <1>2 DEF Fine, Shifting
<1> QED
  BY <1>1, <1>3, InitSafe DEF Sound

LEMMA LocalFine ==
  ASSUME Sound, Safe', NEW q \in Requests, NEW x, NEW w,
         tx' = [tx EXCEPT ![q] = x], write' = [write EXCEPT ![q] = w], UNCHANGED <<row, clean>>,
         clean => Fine(x, w, row)
  PROVE  Sound'
<1>1. /\ tx'[q] = x /\ write'[q] = w
      /\ \A r \in Requests \ {q} : tx'[r] = tx[r] /\ write'[r] = write[r]
  BY DEF Sound, Safe, TypeOK
<1>2. clean' => \A r \in Requests : Fine(tx'[r], write'[r], row')
  BY <1>1 DEF Sound
<1> QED
  BY <1>2 DEF Sound, Distinct, Shown

LEMMA GoingTodo ==
  ASSUME NEW x, NEW w, NEW f, Going(x, w, f), x.pc = "wait"
  PROVE  x.todo # <<>>
<1>1. \A a, b : <<a>> # <<>> /\ <<a, b>> # <<>>
  OBVIOUS
<1>2. CASE \E live \in BOOLEAN : x.todo = <<Open(x.to, x.n, live)>>
  BY <1>1, <1>2
<1>3. CASE x.todo = <<Slide(x.to, x.copy.position, x.n)>>
  BY <1>1, <1>3
<1>4. CASE x.todo = <<Close(x.copy.place, x.copy.position), Open(x.to, x.n, FALSE)>>
  BY <1>1, <1>4
<1> QED
  BY <1>2, <1>3, <1>4 DEF Going

LEMMA HeadNear ==
  ASSUME NEW x \in Transactions, x.to \in Places, x.copy # NoRow, NEW w, NEW f, Going(x, w, f),
         x.todo # <<>>, x.pc \in {"update", "wait"}
  PROVE  Head(x.todo).place \in Near(x)
<1>1. x.to \in Near(x)
  BY AbsentPlace DEF Near
<1>2. x.op \in {"move", "relocate"} => x.copy.place \in Near(x)
  BY RowFacts, TxFacts, AbsentPlace DEF Near
<1>3. CASE \E live \in BOOLEAN : x.todo = <<Open(x.to, x.n, live)>>
  BY <1>1, <1>3 DEF Open
<1>4. CASE x.todo = <<Slide(x.to, x.copy.position, x.n)>>
  BY <1>1, <1>4 DEF Slide
<1>5. CASE /\ x.todo = <<Close(x.copy.place, x.copy.position), Open(x.to, x.n, FALSE)>>
           /\ x.op \in {"move", "relocate"}
  BY <1>2, <1>5 DEF Close
<1> QED
  BY <1>3, <1>4, <1>5 DEF Going

\* Rows that are not near x, and not locked by it, have become g.
LEMMA AptFrame ==
  ASSUME NEW x \in Transactions, x.to \in Places, x.copy # NoRow, x.task \in Tasks,
         NEW w, NEW f \in [Tasks -> Rows], NEW g \in [Tasks -> Rows],
         Apt(x, w, f), \A u \in x.locks : u \in Tasks /\ g[u] = f[u],
         \A u \in Tasks : f[u] # g[u] => f[u].place \notin Near(x) /\ g[u].place \notin Near(x)
  PROVE  Apt(x, w, g)
<1>1. \A u \in x.locks : g[u].place \in Near(x)
  BY DEF Apt
<1>2. x.op \in {"move", "relocate"} => g[x.task] = x.copy
  <2> SUFFICES ASSUME x.op \in {"move", "relocate"} PROVE g[x.task] = x.copy
    OBVIOUS
  <2>1. x.copy.place \in Near(x) /\ f[x.task] = x.copy
    BY RowFacts, TxFacts, AbsentPlace DEF Near, Apt
  <2> QED
    BY <2>1
<1>3. InOrder(x, w, f) => InOrder(x, w, g)
  <2> SUFFICES ASSUME InOrder(x, w, f), NEW u \in Others(x, g), NEW v \in Others(x, g),
                      Before(g, u, v)
               PROVE  Seen(x, w, g, u).position < Seen(x, w, g, v).position
    BY DEF InOrder
  <2>1. u \in Tasks /\ v \in Tasks /\ u # x.task /\ v # x.task /\ g[u] # NoRow /\ g[v] # NoRow
        /\ ~g[u].archived /\ ~g[v].archived
    BY DEF Others, Shown
  <2>2. CASE g[u].place \in Near(x)
    <3>1. g[u] = f[u] /\ g[v] = f[v]
      BY <2>1, <2>2 DEF Before
    <3>2. u \in Others(x, f) /\ v \in Others(x, f) /\ Before(f, u, v)
      BY <2>1, <3>1 DEF Others, Shown, Before
    <3> QED
      BY <3>1, <3>2 DEF InOrder, Seen
  <2>3. CASE g[u].place \notin Near(x)
    <3>1. u \notin x.locks /\ v \notin x.locks
      BY <1>1, <2>3 DEF Before
    <3> QED
      BY <3>1 DEF Seen, Before
  <2> QED
    BY <2>2, <2>3
<1>4. HasRoom(x, w, f) => HasRoom(x, w, g)
  <2> SUFFICES ASSUME HasRoom(x, w, f), NEW u \in Others(x, g), g[u].place = x.to
               PROVE  Seen(x, w, g, u).position # x.n
    BY DEF HasRoom
  <2>1. u \in Tasks /\ g[u] = f[u]
    BY AbsentPlace DEF Near, Others, Shown
  <2>2. u \in Others(x, f)
    BY <2>1 DEF Others, Shown
  <2> QED
    BY <2>1, <2>2 DEF HasRoom, Seen
<1>5. Going(x, w, g)
  BY <1>3, <1>4 DEF Going, Apt
<1>6. ASSUME x.pc = "wait"
      PROVE  \A u \in Tasks : u \in x.chosen <=> Matches(Seen(x, w, g, u), Head(x.todo))
  <2> SUFFICES ASSUME NEW u \in Tasks
               PROVE  u \in x.chosen <=> Matches(Seen(x, w, g, u), Head(x.todo))
    OBVIOUS
  <2>1. u \in x.chosen <=> Matches(Seen(x, w, f, u), Head(x.todo))
    BY <1>6 DEF Apt
  <2>2. CASE g[u] = f[u]
    BY <2>1, <2>2 DEF Seen
  <2>3. CASE g[u] # f[u]
    <3>1. x.todo # <<>>
      BY <1>6, GoingTodo DEF Apt
    <3>2. Head(x.todo).place \in Near(x)
      BY <1>6, <3>1, HeadNear DEF Apt
    <3> QED
      BY <2>1, <2>3, <3>2 DEF Seen, Matches
  <2> QED
    BY <2>2, <2>3
<1> QED
  BY <1>1, <1>2, <1>5, <1>6 DEF Apt

LEMMA FineFrame ==
  ASSUME NEW x \in Transactions, NEW w, NEW f \in [Tasks -> Rows], NEW g \in [Tasks -> Rows],
         NEW stale \in BOOLEAN, Mine(x, w, f), Fine(x, w, f), \A u \in x.locks : g[u] = f[u],
         ~stale => /\ ~x.stale
                   /\ \A u \in Tasks : f[u] # g[u] => {g[u].place, f[u].place} \cap Near(x) = {}
  PROVE  Fine([x EXCEPT !.stale = stale], w, g)
<1> DEFINE y == [x EXCEPT !.stale = stale]
<1>1. /\ y.op = x.op /\ y.pc = x.pc /\ y.task = x.task /\ y.copy = x.copy /\ y.to = x.to
      /\ y.n = x.n /\ y.given = x.given /\ y.todo = x.todo /\ y.chosen = x.chosen
      /\ y.locks = x.locks /\ y.stale = stale
  BY DEF Transactions
<1> HIDE DEF y
<1>2. x.locks \subseteq Tasks
  BY TxFacts
<1>3. ASSUME x.op \in Shifting, Fit(y) PROVE Apt(y, w, g)
  <2>1. ~stale /\ Fit(x)
    BY <1>1, <1>3 DEF Fit
  <2>2. x.to \in Places /\ x.task \in Tasks /\ x.copy # NoRow /\ Apt(x, w, f)
    BY <1>3, <2>1 DEF Mine, Placing, Places1, Shifts1, Fine
  <2>3. Apt(x, w, g)
    BY <1>2, <2>1, <2>2, AptFrame
  <2>4. Near(y) = Near(x) /\ Others(y, g) = Others(x, g)
    BY <1>1 DEF Near, Others
  <2>5. \A u : Seen(y, w, g, u) = Seen(x, w, g, u)
    BY <1>1 DEF Seen
  <2>6. (InOrder(x, w, g) => InOrder(y, w, g)) /\ (HasRoom(x, w, g) => HasRoom(y, w, g))
    BY <1>1, <2>4, <2>5 DEF InOrder, HasRoom
  <2>7. Going(y, w, g)
    BY <1>1, <2>3, <2>6 DEF Apt, Going
  <2> QED
    BY <1>1, <2>3, <2>4, <2>5, <2>7 DEF Apt
<1>4. ASSUME x.op = "create", ~stale, x.pc = "update", ~x.given, NEW u \in Tasks, g[u].place = x.to
      PROVE  g[u].position # x.n
  <2>1. x.to \in Near(x)
    BY <1>4, AbsentPlace DEF Mine, Placing, Places1, Near
  <2>2. g[u] = f[u]
    BY <1>4, <2>1
  <2> QED
    BY <1>4, <2>2 DEF Fine
<1>5. Fine(y, w, g)
  BY <1>1, <1>3, <1>4 DEF Fine
<1> QED
  BY <1>5 DEF y

LEMMA CommitFine ==
  ASSUME Sound, Safe', NEW q, NEW f \in [Tasks -> Rows], Commit(q, f),
         \A r \in Requests \ {q} : \A u \in tx[r].locks : f[u] = row[u],
         clean' => clean /\ Distinct(f)
  PROVE  Sound'
<1>1. /\ row' = f
      /\ tx' = [r \in Requests |-> IF r = q THEN Idle
                                   ELSE [tx[r] EXCEPT !.stale = @ \/ Touched(f, tx[r])]]
      /\ write' = [r \in Requests |-> IF r = q THEN [t \in Tasks |-> NoRow] ELSE write[r]]
  BY DEF Commit
<1>2. ASSUME clean', NEW r \in Requests \ {q} PROVE Fine(tx'[r], write'[r], row')
  <2> DEFINE stale == tx[r].stale \/ Touched(f, tx[r])
  <2>1. /\ tx[r] \in Transactions /\ Mine(tx[r], write[r], row) /\ Fine(tx[r], write[r], row)
        /\ row \in [Tasks -> Rows]
    BY <1>2 DEF Sound, Safe, TypeOK
  <2>2. tx'[r] = [tx[r] EXCEPT !.stale = stale] /\ write'[r] = write[r]
    BY <1>1, <2>1
  <2>3. ~stale => /\ ~tx[r].stale
                  /\ \A u \in Tasks :
                       row[u] # f[u] => {f[u].place, row[u].place} \cap Near(tx[r]) = {}
    BY DEF Touched
  <2>4. stale \in BOOLEAN
    OBVIOUS
  <2> HIDE DEF stale
  <2>5. Fine([tx[r] EXCEPT !.stale = stale], write[r], f)
    BY <2>1, <2>3, <2>4, FineFrame
  <2> QED
    BY <1>1, <2>2, <2>5
<1>3. q \in Requests => Fine(tx'[q], write'[q], row')
  BY <1>1 DEF Idle, Fine, Shifting
<1>4. clean' => \A r \in Requests : Fine(tx'[r], write'[r], row')
  BY <1>2, <1>3
<1> QED
  BY <1>1, <1>4 DEF Sound

-----------------------------------------------------------------------------
LEMMA BeginSound ==
  ASSUME Sound, Safe', NEW q \in Requests, Asks(q)
  PROVE  Sound'
<1>1. ASSUME NEW x, Begin(q, x), Fine(x, write[q], row) PROVE Sound'
  <2>1. write' = [write EXCEPT ![q] = write[q]]
    BY <1>1 DEF Begin, Sound, Safe, TypeOK
  <2> QED
    BY <1>1, <2>1, LocalFine DEF Begin
<1>2. ASSUME NEW op, NEW t, NEW p, NEW n, Begin(q, Asked(op, t, row[t], p, n)) PROVE Sound'
  <2>1. Fine(Asked(op, t, row[t], p, n), write[q], row)
    BY DEF Fine, Apt, Going, Asked
  <2> QED
    BY <1>1, <1>2, <2>1
<1>3. ASSUME NEW t, NEW p, NEW n, CreateTask(q, t, p, n) PROVE Sound'
  BY <1>2, <1>3 DEF CreateTask
<1>4. ASSUME NEW s, Begin(q, [Idle EXCEPT !.op = "archive", !.pc = "list", !.chosen = s])
      PROVE  Sound'
  <2>1. Fine([Idle EXCEPT !.op = "archive", !.pc = "list", !.chosen = s], write[q], row)
    BY DEF Fine, Idle, Shifting
  <2> QED
    BY <1>1, <1>4, <2>1
<1>5. ASSUME NEW s, DeleteSubColumn(q, s) PROVE Sound'
  <2> DEFINE d == [place |-> <<Owner[s], s>>, low |-> 1, high |-> MaxPosition, by |-> 0,
                   live |-> FALSE, into |-> <<Owner[s], "none">>]
             x == [Idle EXCEPT !.op = "drop", !.pc = "update", !.to = <<Owner[s], s>>,
                               !.todo = <<d>>]
  <2>1. Begin(q, x)
    BY <1>5 DEF DeleteSubColumn
  <2>2. x.op = "drop"
    BY DEF Idle
  <2> HIDE DEF x
  <2>3. Fine(x, write[q], row)
    BY <2>2 DEF Fine, Shifting
  <2> QED
    BY <1>1, <2>1, <2>3
<1> QED
  BY <1>2, <1>3, <1>4, <1>5
     DEF Asks, MoveTask, RelocateTask, RestoreTask, ArchiveTask, ArchiveTasksByColumn

LEMMA PreparedSound ==
  ASSUME Sound, Safe', NEW q \in Requests, NEW x \in Transactions, x.locks = {},
         Step(q, Prepared(x)),
         clean => /\ x.op \in {"move", "relocate"} /\ Fit(x) => row[x.task] = x.copy
                  /\ x.op = "create" /\ ~x.given /\ ~x.stale =>
                       \A u \in Tasks : row[u].place = x.to => row[u].position # x.n
  PROVE  Sound'
<1> DEFINE y == Prepared(x)
<1>1. /\ y.op = x.op /\ y.pc = "update" /\ y.locks = {} /\ y.task = x.task /\ y.given = x.given
      /\ y.to = x.to /\ y.n = x.n /\ y.copy = x.copy /\ y.todo = Shifts(x) /\ y.stale = x.stale
  BY DEF Prepared, Transactions
<1>2. Step(q, y)
  OBVIOUS
<1> HIDE DEF y
<1>3. ASSUME clean, y.op \in Shifting, Fit(y) PROVE Apt(y, write[q], row)
  <2>1. InOrder(y, write[q], row)
    BY <1>1 DEF InOrder, Seen, Before
  <2>2. Shifts(x) = <<Open(x.to, x.n, TRUE)>> \/ y.op \in {"move", "relocate"}
    BY <1>1, <1>3 DEF Shifts, Shifting
  <2>3. CASE y.op = "restore"
    <3>1. y.todo = <<Open(y.to, y.n, TRUE)>>
      BY <1>1, <2>2, <2>3
    <3>2. Going(y, write[q], row)
      BY <1>1, <2>1, <3>1 DEF Going
    <3> QED
      BY <1>1, <2>3, <3>2 DEF Apt
  <2>4. CASE y.op \in {"move", "relocate"}
    <3>1. \/ y.to = y.copy.place /\ y.todo = <<Slide(y.to, y.copy.position, y.n)>>
          \/ y.todo = <<Close(y.copy.place, y.copy.position), Open(y.to, y.n, FALSE)>>
      BY <1>1, <2>4 DEF Shifts
    <3>2. Going(y, write[q], row)
      BY <1>1, <2>4, <3>1 DEF Going
    <3>3. Fit(x)
      BY <1>1, <1>3 DEF Fit
    <3> QED
      BY <1>1, <1>3, <2>4, <3>2, <3>3 DEF Apt
  <2> QED
    BY <1>3, <2>3, <2>4 DEF Shifting
<1>4. clean => Fine(y, write[q], row)
  BY <1>1, <1>3 DEF Fine
<1>5. write' = [write EXCEPT ![q] = write[q]]
  BY <1>2 DEF Step, Sound, Safe, TypeOK
<1> QED
  BY <1>2, <1>4, <1>5, LocalFine DEF Step

LEMMA CheckSound ==
  ASSUME Sound, Safe', NEW q \in Requests, CheckPlace(q) \/ ReadMax(q) \/ CheckRestore(q)
  PROVE  Sound'
<1> DEFINE x == tx[q]
<1>1. /\ x \in Transactions /\ Mine(x, write[q], row) /\ (clean => Fine(x, write[q], row))
      /\ row \in [Tasks -> Rows]
  BY DEF Sound, Safe, TypeOK
<1>2. /\ x.pc \in {"check", "max"}
      /\ CheckPlace(q) => x.op # "restore"
      /\ CheckRestore(q) => x.op = "restore"
  BY DEF CheckPlace, ReadMax, CheckRestore
<1> HIDE DEF x
<1>3. x.op \in Placing
  BY <1>1, <1>2, TxFacts DEF Mine, Placing, Shifting
<1>4. x.locks = {}
  BY <1>1, <1>2, <1>3 DEF Mine, Shifts1, Left, Placing
<1>5. clean /\ x.op \in {"move", "relocate"} /\ Fit(x) => row[x.task] = x.copy
  BY <1>1 DEF Fine, Apt, Shifting
<1>6. CASE CheckPlace(q) /\ x.given
  BY <1>1, <1>4, <1>5, <1>6, PreparedSound DEF CheckPlace, x
<1>7. CASE CheckPlace(q) /\ ~x.given
  <2> DEFINE y == [x EXCEPT !.pc = "max"]
  <2>1. /\ y.op = x.op /\ y.pc = "max" /\ y.locks = {} /\ y.task = x.task /\ y.copy = x.copy
        /\ y.stale = x.stale
    BY <1>1, <1>4 DEF Transactions
  <2>2. Step(q, y)
    BY <1>7 DEF CheckPlace, x
  <2> HIDE DEF y
  <2>3. clean => Fine(y, write[q], row)
    BY <1>5, <2>1 DEF Fine, Fit, Apt, Going
  <2>4. write' = [write EXCEPT ![q] = write[q]]
    BY <2>2 DEF Step, Sound, Safe, TypeOK
  <2> QED
    BY <2>2, <2>3, <2>4, LocalFine DEF Step
<1>8. CASE ReadMax(q)
  <2>1. PICK n \in Positions : /\ \A u \in Tasks : row[u].place = x.to => row[u].position < n
                               /\ Step(q, Prepared([x EXCEPT !.n = n]))
    BY <1>8 DEF ReadMax, x
  <2> DEFINE y == [x EXCEPT !.n = n]
  <2>2. /\ y \in Transactions /\ y.op = x.op /\ y.locks = {} /\ y.task = x.task
        /\ y.to = x.to /\ y.n = n /\ y.copy = x.copy /\ y.stale = x.stale
    BY <1>1, <1>4, BoundAssumption DEF Transactions, Positions
  <2> HIDE DEF y
  <2>3. Step(q, Prepared(y))
    BY <2>1 DEF y
  <2>4. \A u \in Tasks : row[u].place = y.to => row[u].position # y.n
    BY <1>1, <2>1, <2>2, RowFacts
  <2>5. clean /\ y.op \in {"move", "relocate"} /\ Fit(y) => row[y.task] = y.copy
    BY <1>5, <2>2 DEF Fit
  <2> QED
    BY <2>2, <2>3, <2>4, <2>5, PreparedSound
<1>9. CASE CheckRestore(q)
  <2>1. PICK p, n : Step(q, Prepared([x EXCEPT !.to = p, !.n = n])) /\ x.op = "restore"
    BY <1>9 DEF CheckRestore, x
  <2>2. UNCHANGED <<row, clean, write>>
    BY <2>1 DEF Step
  <2> DEFINE y == [x EXCEPT !.to = p, !.n = n]
             z == Prepared(y)
  <2>3. /\ z.op = "restore" /\ z.pc = "update" /\ z.locks = {} /\ z.to = p /\ z.n = n
        /\ z.todo = <<Open(p, n, TRUE)>>
    BY <1>1, <1>4, <2>1 DEF Prepared, Shifts, Transactions
  <2>4. Step(q, z)
    BY <2>1
  <2> HIDE DEF y, z
  <2>5. InOrder(z, write[q], row)
    BY <2>3 DEF InOrder, Seen, Before
  <2>6. Apt(z, write[q], row)
    BY <2>3, <2>5 DEF Apt, Going
  <2>7. Fine(z, write[q], row)
    BY <2>3, <2>6 DEF Fine
  <2>8. write' = [write EXCEPT ![q] = write[q]]
    BY <2>2 DEF Sound, Safe, TypeOK
  <2> QED
    BY <2>4, <2>7, <2>8, LocalFine DEF Step
<1> QED
  BY <1>6, <1>7, <1>8, <1>9

LEMMA SelectSound ==
  ASSUME Sound, Safe', NEW q \in Requests, Select(q)
  PROVE  Sound'
<1> DEFINE x == tx[q]
           y == [x EXCEPT !.pc = "wait",
                          !.chosen = {t \in Tasks : Matches(See(q, t), Head(x.todo))}]
<1>1. clean => Fine(x, write[q], row)
  BY DEF Sound
<1>2. x.pc = "update" /\ x.todo # <<>> /\ Step(q, y)
  BY DEF Select
<1>3. /\ y.op = x.op /\ y.pc = "wait" /\ y.locks = x.locks /\ y.task = x.task
      /\ y.to = x.to /\ y.n = x.n /\ y.copy = x.copy /\ y.given = x.given /\ y.todo = x.todo
      /\ y.stale = x.stale /\ y.chosen = {t \in Tasks : Matches(See(q, t), Head(x.todo))}
  BY DEF Sound, Safe, TypeOK, Transactions
<1>4. \A u : See(q, u) = Seen(y, write[q], row, u) /\ Seen(x, write[q], row, u) = See(q, u)
  BY <1>3 DEF See, Seen
<1> HIDE DEF x, y
<1>5. ASSUME clean, y.op \in Shifting, Fit(y) PROVE Apt(y, write[q], row)
  <2>1. Apt(x, write[q], row)
    BY <1>1, <1>3, <1>5 DEF Fine, Fit
  <2>2. Near(y) = Near(x) /\ Others(y, row) = Others(x, row)
    BY <1>3 DEF Near, Others
  <2>3. InOrder(x, write[q], row) => InOrder(y, write[q], row)
    BY <1>3, <1>4, <2>2 DEF InOrder
  <2>4. Going(y, write[q], row)
    BY <1>2, <1>3, <2>1, <2>3 DEF Going, Apt
  <2> QED
    BY <1>3, <1>4, <2>1, <2>2, <2>4 DEF Apt
<1>6. clean => Fine(y, write[q], row)
  BY <1>3, <1>5 DEF Fine
<1>7. write' = [write EXCEPT ![q] = write[q]]
  BY <1>2 DEF Step, Sound, Safe, TypeOK
<1> QED
  BY <1>2, <1>6, <1>7, LocalFine DEF Step, x

\* A shift of all the rows that match, of the place it makes room in or of one where nobody else
\* is level with the row that goes, leaves the others in their order.
LEMMA UpdateApt ==
  ASSUME NEW x \in Transactions, NEW y \in Transactions, NEW w \in [Tasks -> Rows],
         NEW v \in [Tasks -> Rows], NEW f \in [Tasks -> Rows], NEW s \in [Tasks -> Rows],
         NEW d, NEW hit, ShiftMade(x, w, f, y, v, s, d, hit), Shifts1(x, w, f),
         x.to \in Places, x.n \in Positions, x.task \in Tasks,
         y.task = x.task, y.to = x.to, y.n = x.n,
         Distinct(f), Fit(x), Apt(x, w, f)
  PROVE  Apt(y, v, f)
<1>1. /\ x.op \in Shifting /\ x.pc = "wait" /\ d = Head(x.todo) /\ hit \subseteq x.chosen
      /\ \A u \in Tasks : s[u] = Seen(x, w, f, u)
      /\ \A u \in x.chosen : u \in hit <=> Matches(s[u], d)
      /\ \A u \in hit : /\ v[u].place = d.into /\ v[u].position = s[u].position + d.by
                        /\ v[u].archived = s[u].archived
      /\ \A u \in Tasks \ hit : v[u] = w[u]
      /\ y.op = x.op /\ y.pc = "update" /\ y.todo = Tail(x.todo) /\ y.copy = x.copy
      /\ y.locks = x.locks \union hit
  BY DEF ShiftMade, Seen
<1>2. /\ x.locks \subseteq Tasks /\ x.chosen \subseteq Tasks /\ hit \subseteq Tasks
  BY <1>1, TxFacts
<1>3. \A u \in Tasks : u \in hit <=> Matches(s[u], d)
  <2>1. \A u \in Tasks : u \in x.chosen <=> Matches(s[u], d)
    BY <1>1 DEF Apt
  <2> QED
    BY <1>1, <2>1
<1>4. \A u \in Tasks : Seen(y, v, f, u).position =
                         IF Matches(s[u], d) THEN s[u].position + d.by ELSE s[u].position
  BY <1>1, <1>3 DEF Seen
<1>5. \A u \in Tasks : s[u].place = f[u].place /\ s[u].archived = f[u].archived
  BY <1>1, <1>2 DEF Shifts1, Kept, Seen
<1>6. \A u \in Tasks : /\ s[u].position \in Int /\ s[u].position <= MaxPosition
                       /\ f[u].position \in Int
  <2>1. \A r \in Rows : r.position \in Int /\ r.position <= MaxPosition
    BY RowFacts
  <2> QED
    BY ONLY <2>1, s \in [Tasks -> Rows], f \in [Tasks -> Rows]
<1>7. x.n \in Int /\ x.copy.position \in Int /\ MaxPosition \in Int /\ x.n <= MaxPosition
  BY RowFacts, TxFacts, BoundAssumption DEF Positions
<1>8. Others(y, f) = Others(x, f) /\ \A u \in Others(x, f) : u \in Tasks /\ ~f[u].archived
  BY DEF Others, Shown
<1>9. \A u \in y.locks : f[u].place \in Near(y)
  <2>1. Near(y) = Near(x)
    BY <1>1 DEF Near
  <2>2. Head(x.todo).place \in Near(x)
    BY <1>1, GoingTodo, HeadNear DEF Apt, Shifts1
  <2>3. \A u \in hit : f[u].place = d.place
    BY <1>2, <1>3, <1>5 DEF Matches
  <2> QED
    BY <1>1, <2>1, <2>2, <2>3 DEF Apt
<1>10. ASSUME x.op \in {"move", "relocate"}
       PROVE  \A u \in Others(x, f) : f[u].place = x.copy.place => f[u].position # x.copy.position
  <2>1. f[x.task] = x.copy /\ ~x.copy.archived /\ x.copy # NoRow
    BY <1>10 DEF Apt, Fit, Shifts1
  <2>2. x.task \in Shown(f)
    BY <2>1 DEF Shown
  <2> QED
    BY <2>1, <2>2 DEF Distinct, Others
<1>11. CASE InOrder(x, w, f) /\ \E live \in BOOLEAN : x.todo = <<Open(x.to, x.n, live)>>
  <2>1. PICK live \in BOOLEAN : x.todo = <<Open(x.to, x.n, live)>>
    BY <1>11
  <2>2. y.todo = <<>> /\ d = Open(x.to, x.n, live)
    BY <1>1, <2>1
  <2>3. d.by = 1
    BY <2>2 DEF Open
  <2>4. \A u \in Others(x, f) : Matches(s[u], d) <=> f[u].place = x.to /\ x.n <= s[u].position
    BY <1>5, <1>6, <1>8, <2>2 DEF Matches, Open
  <2>5. InOrder(y, v, f)
    <3> SUFFICES ASSUME NEW a \in Others(x, f), NEW b \in Others(x, f), Before(f, a, b)
                 PROVE  Seen(y, v, f, a).position < Seen(y, v, f, b).position
      BY <1>8 DEF InOrder
    <3>1. s[a].position < s[b].position /\ f[a].place = f[b].place
      BY <1>1, <1>8, <1>11 DEF InOrder, Before
    <3>2. a \in Tasks /\ b \in Tasks
      BY <1>8
    <3> QED
      BY <1>4, <1>6, <1>7, <2>3, <2>4, <3>1, <3>2
  <2>6. HasRoom(y, v, f)
    <3> SUFFICES ASSUME NEW a \in Others(x, f), f[a].place = x.to
                 PROVE  Seen(y, v, f, a).position # x.n
      BY <1>8 DEF HasRoom
    <3>1. a \in Tasks
      BY <1>8
    <3> QED
      BY <1>4, <1>6, <1>7, <2>3, <2>4, <3>1
  <2>7. Going(y, v, f)
    BY <1>1, <2>2, <2>5, <2>6 DEF Going
  <2> QED
    BY <1>1, <1>9, <2>7 DEF Apt
<1>12. CASE /\ x.locks = {} /\ x.op \in {"move", "relocate"}
            /\ x.to = x.copy.place /\ x.todo = <<Slide(x.to, x.copy.position, x.n)>>
  <2>1. y.todo = <<>> /\ d = Slide(x.to, x.copy.position, x.n)
    BY <1>1, <1>12
  <2>2. \A u \in Tasks : s[u] = f[u]
    BY <1>1, <1>12 DEF Seen
  <2>3. \A u \in Others(x, f) : f[u].place = x.to => f[u].position # x.copy.position
    BY <1>10, <1>12
  <2>4. CASE x.copy.position < x.n
    <3>1. d.by = -1 /\ d.place = x.to /\ d.low = x.copy.position + 1 /\ d.high = x.n /\ ~d.live
      BY <2>1, <2>4 DEF Slide
    <3>2. \A u \in Others(x, f) : Matches(s[u], d) <=>
             f[u].place = x.to /\ x.copy.position < f[u].position /\ f[u].position <= x.n
      <4> SUFFICES ASSUME NEW u \in Others(x, f)
                   PROVE  Matches(s[u], d) <=>
                            /\ f[u].place = x.to
                            /\ x.copy.position < f[u].position /\ f[u].position <= x.n
        OBVIOUS
      <4>1. s[u] = f[u] /\ f[u].position \in Int
        BY <1>6, <1>8, <2>2
      <4> QED
        BY ONLY <1>7, <3>1, <4>1 DEF Matches
    <3>3. InOrder(y, v, f)
      <4> SUFFICES ASSUME NEW a \in Others(x, f), NEW b \in Others(x, f), Before(f, a, b)
                   PROVE  Seen(y, v, f, a).position < Seen(y, v, f, b).position
        BY <1>8 DEF InOrder
      <4>1. a \in Tasks /\ b \in Tasks /\ f[a].place = f[b].place /\ f[a].position < f[b].position
        BY <1>8 DEF Before
      <4>2. /\ Seen(y, v, f, a).position =
                 IF Matches(s[a], d) THEN f[a].position + d.by ELSE f[a].position
            /\ Seen(y, v, f, b).position =
                 IF Matches(s[b], d) THEN f[b].position + d.by ELSE f[b].position
            /\ f[a].position \in Int /\ f[b].position \in Int
        BY <1>4, <1>6, <2>2, <4>1
      <4>3. /\ f[a].place = x.to => f[a].position # x.copy.position
            /\ f[b].place = x.to => f[b].position # x.copy.position
        BY <2>3
      <4> QED
        BY ONLY <1>7, <3>1, <3>2, <4>1, <4>2, <4>3
    <3>4. HasRoom(y, v, f)
      <4> SUFFICES ASSUME NEW a \in Others(x, f), f[a].place = x.to
                   PROVE  Seen(y, v, f, a).position # x.n
        BY <1>8 DEF HasRoom
      <4>1. a \in Tasks
        BY <1>8
      <4> QED
        BY <1>4, <1>6, <1>7, <2>2, <2>3, <2>4, <3>1, <3>2, <4>1
    <3> QED
      BY <1>1, <1>9, <2>1, <3>3, <3>4, <1>12 DEF Apt, Going
  <2>5. CASE ~(x.copy.position < x.n)
    <3>1. d.by = 1 /\ d.place = x.to /\ d.low = x.n /\ d.high = x.copy.position - 1 /\ ~d.live
      BY <2>1, <2>5 DEF Slide
    <3>2. \A u \in Others(x, f) : Matches(s[u], d) <=>
             f[u].place = x.to /\ x.n <= f[u].position /\ f[u].position < x.copy.position
      <4> SUFFICES ASSUME NEW u \in Others(x, f)
                   PROVE  Matches(s[u], d) <=>
                            /\ f[u].place = x.to
                            /\ x.n <= f[u].position /\ f[u].position < x.copy.position
        OBVIOUS
      <4>1. s[u] = f[u] /\ f[u].position \in Int
        BY <1>6, <1>8, <2>2
      <4> QED
        BY ONLY <1>7, <3>1, <4>1 DEF Matches
    <3>3. InOrder(y, v, f)
      <4> SUFFICES ASSUME NEW a \in Others(x, f), NEW b \in Others(x, f), Before(f, a, b)
                   PROVE  Seen(y, v, f, a).position < Seen(y, v, f, b).position
        BY <1>8 DEF InOrder
      <4>1. a \in Tasks /\ b \in Tasks /\ f[a].place = f[b].place /\ f[a].position < f[b].position
        BY <1>8 DEF Before
      <4>2. /\ Seen(y, v, f, a).position =
                 IF Matches(s[a], d) THEN f[a].position + d.by ELSE f[a].position
            /\ Seen(y, v, f, b).position =
                 IF Matches(s[b], d) THEN f[b].position + d.by ELSE f[b].position
            /\ f[a].position \in Int /\ f[b].position \in Int
        BY <1>4, <1>6, <2>2, <4>1
      <4>3. /\ f[a].place = x.to => f[a].position # x.copy.position
            /\ f[b].place = x.to => f[b].position # x.copy.position
        BY <2>3
      <4> QED
        BY ONLY <1>7, <3>1, <3>2, <4>1, <4>2, <4>3
    <3>4. HasRoom(y, v, f)
      <4> SUFFICES ASSUME NEW a \in Others(x, f), f[a].place = x.to
                   PROVE  Seen(y, v, f, a).position # x.n
        BY <1>8 DEF HasRoom
      <4>1. a \in Tasks
        BY <1>8
      <4> QED
        BY <1>4, <1>6, <1>7, <2>2, <2>3, <2>5, <3>1, <3>2, <4>1
    <3> QED
      BY <1>1, <1>9, <2>1, <3>3, <3>4, <1>12 DEF Apt, Going
  <2> QED
    BY <2>4, <2>5
<1>13. CASE /\ x.locks = {} /\ x.op \in {"move", "relocate"}
            /\ x.todo = <<Close(x.copy.place, x.copy.position), Open(x.to, x.n, FALSE)>>
  <2>1. y.todo = <<Open(y.to, y.n, FALSE)>> /\ d = Close(x.copy.place, x.copy.position)
    <3> DEFINE c == Close(x.copy.place, x.copy.position)
               o == Open(x.to, x.n, FALSE)
    <3>1. x.todo = <<c, o>> /\ d = Head(x.todo) /\ y.todo = Tail(x.todo)
      BY <1>1, <1>13
    <3> HIDE DEF c, o
    <3>2. d = c /\ y.todo = <<o>>
      BY ONLY <3>1
    <3> QED
      BY <3>2 DEF c, o
  <2>2. \A u \in Tasks : s[u] = f[u]
    BY <1>1, <1>13 DEF Seen
  <2>3. \A u \in Others(x, f) : f[u].place = x.copy.place => f[u].position # x.copy.position
    BY <1>10, <1>13
  <2>4. /\ d.by = -1 /\ d.place = x.copy.place /\ d.low = x.copy.position + 1
        /\ d.high = MaxPosition /\ ~d.live
    BY <2>1 DEF Close
  <2>5. \A u \in Others(x, f) : Matches(s[u], d) <=>
           f[u].place = x.copy.place /\ x.copy.position < f[u].position
    <3> SUFFICES ASSUME NEW u \in Others(x, f)
                 PROVE  Matches(s[u], d) <=>
                          f[u].place = x.copy.place /\ x.copy.position < f[u].position
      OBVIOUS
    <3>1. u \in Tasks /\ s[u] = f[u] /\ f[u].position \in Int /\ f[u].position <= MaxPosition
      BY <1>6, <1>8, <2>2
    <3> QED
      BY <1>7, <2>4, <3>1 DEF Matches
  <2>6. InOrder(y, v, f)
    <3> SUFFICES ASSUME NEW a \in Others(x, f), NEW b \in Others(x, f), Before(f, a, b)
                 PROVE  Seen(y, v, f, a).position < Seen(y, v, f, b).position
      BY <1>8 DEF InOrder
    <3>1. a \in Tasks /\ b \in Tasks /\ f[a].place = f[b].place /\ f[a].position < f[b].position
      BY <1>8 DEF Before
    <3>2. /\ Seen(y, v, f, a).position =
               IF Matches(s[a], d) THEN f[a].position + d.by ELSE f[a].position
          /\ Seen(y, v, f, b).position =
               IF Matches(s[b], d) THEN f[b].position + d.by ELSE f[b].position
          /\ f[a].position \in Int /\ f[b].position \in Int
      BY <1>4, <1>6, <2>2, <3>1
    <3>3. /\ f[a].place = x.copy.place => f[a].position # x.copy.position
          /\ f[b].place = x.copy.place => f[b].position # x.copy.position
      BY <2>3
    <3> QED
      BY ONLY <1>7, <2>4, <2>5, <3>1, <3>2, <3>3
  <2>7. Going(y, v, f)
    BY <1>1, <2>1, <2>6 DEF Going
  <2> QED
    BY <1>1, <1>9, <1>13, <2>7 DEF Apt
<1> QED
  BY <1>1, <1>11, <1>12, <1>13, GoingTodo DEF Apt, Going

LEMMA UpdateSound ==
  ASSUME Sound, Safe', NEW q \in Requests, Update(q)
  PROVE  Sound'
<1> DEFINE x == tx[q]
           d == Head(x.todo)
           s == [t \in Tasks |-> See(q, t)]
           hit == {t \in x.chosen : Matches(See(q, t), d)}
           w == [t \in Tasks |-> IF t \in hit THEN Changed(See(q, t), d) ELSE write[q][t]]
           y == [x EXCEPT !.pc = "update", !.todo = Tail(@), !.chosen = {}, !.locks = @ \union hit]
<1>1. /\ x \in Transactions /\ Mine(x, write[q], row) /\ write[q] \in [Tasks -> Rows]
      /\ row \in [Tasks -> Rows] /\ x.todo \in Seq(Updates) /\ x.chosen \subseteq Tasks
      /\ (clean => Distinct(row) /\ Fine(x, write[q], row))
  BY TxFacts DEF Sound, Safe, TypeOK
<1>2. /\ x.pc = "wait" /\ write' = [write EXCEPT ![q] = w] /\ tx' = [tx EXCEPT ![q] = y]
      /\ UNCHANGED <<row, active, begun, clean>>
      /\ \A t \in hit : See(q, t).position + d.by <= MaxPosition
  BY DEF Update
<1>3. s \in [Tasks -> Rows] /\ \A t \in Tasks : See(q, t) = s[t]
  BY SeesType DEF Sound, Safe
<1>4. \A t \in Tasks : s[t] = IF t \in x.locks THEN write[q][t] ELSE row[t]
  BY DEF See
<1>5. \A t \in x.chosen : t \in hit <=> Matches(s[t], d)
  BY <1>1, <1>3
<1>6. y \in Transactions /\ w \in [Tasks -> Rows]
  BY <1>1, <1>2 DEF Sound, Safe, TypeOK
<1>7. \A t \in Tasks : w[t] = IF t \in hit THEN Changed(s[t], d) ELSE write[q][t]
  BY <1>3
<1>8. /\ y.op = x.op /\ y.pc = "update" /\ y.todo = Tail(x.todo)
      /\ y.locks = x.locks \union hit /\ y.task = x.task /\ y.to = x.to /\ y.n = x.n
      /\ y.copy = x.copy /\ y.given = x.given /\ y.stale = x.stale
  BY <1>1 DEF Transactions
<1>9. hit \subseteq x.chosen
  OBVIOUS
<1> HIDE DEF x, s, hit, w, d, y
<1>10. ASSUME clean, y.op \in Shifting, Fit(y) PROVE Apt(y, w, row)
  <2>1. Fit(x) /\ Apt(x, write[q], row) /\ Distinct(row) /\ x.op \in Shifting
    BY <1>1, <1>8, <1>10 DEF Fine, Fit
  <2>2. x.to \in Places /\ x.task \in Tasks /\ x.n \in Positions /\ Shifts1(x, write[q], row)
    BY <1>1, <1>2, <2>1 DEF Mine, Placing, Places1
  <2>3. d \in Updates /\ d = Head(x.todo)
    <3>1. x.todo # <<>>
      BY <1>2, <2>1, GoingTodo DEF Apt
    <3> QED
      BY <1>1, <3>1 DEF d
  <2>4. \A u \in hit : /\ w[u].place = d.into /\ w[u].position = s[u].position + d.by
                       /\ w[u].archived = s[u].archived
    <3> SUFFICES ASSUME NEW u \in hit
                 PROVE  /\ w[u].place = d.into /\ w[u].position = s[u].position + d.by
                        /\ w[u].archived = s[u].archived
      OBVIOUS
    <3>1. u \in Tasks /\ s[u] \in Rows /\ Matches(s[u], d)
      BY <1>1, <1>3, <1>5, <1>9
    <3>2. s[u].position + d.by <= MaxPosition
      BY <1>2, <1>3, <3>1
    <3> QED
      BY <1>7, <2>3, <3>1, <3>2, ChangedType
  <2>5. \A u \in Tasks \ hit : w[u] = write[q][u]
    BY <1>7
  <2>6. ShiftMade(x, write[q], row, y, w, s, d, hit)
    BY ONLY <1>2, <1>4, <1>5, <1>8, <1>9, <2>1, <2>3, <2>4, <2>5 DEF ShiftMade
  <2> QED
    BY ONLY <1>1, <1>3, <1>6, <1>8, <2>1, <2>2, <2>6, <1>10, UpdateApt
<1>11. clean => Fine(y, w, row)
  <2>1. x.op # "create"
    BY <1>1, <1>2 DEF Mine
  <2> QED
    BY <1>8, <1>10, <2>1 DEF Fine
<1> QED
  BY <1>2, <1>11, LocalFine

LEMMA ArchiveSound ==
  ASSUME Sound, Safe', NEW q \in Requests,
         WriteEntry(q) \/ \E t \in Tasks : ReadTask(q, t)
  PROVE  Sound'
<1>1. tx[q] \in Transactions /\ Mine(tx[q], write[q], row) /\ tx[q].pc \in {"entry", "list"}
  BY DEF Sound, Safe, TypeOK, WriteEntry, ReadTask
<1>2. tx[q].op = "archive"
  BY <1>1, TxFacts DEF Mine, Placing, Shifting, Places1
<1>3. tx'[q].op = tx[q].op
  <2>1. tx \in [Requests -> Transactions]
    BY DEF Sound, Safe, TypeOK
  <2>2. CASE WriteEntry(q)
    BY <1>1, <2>1, <2>2 DEF WriteEntry, Transactions
  <2>3. ASSUME NEW t \in Tasks, ReadTask(q, t) PROVE tx'[q].op = tx[q].op
    BY <1>1, <2>1, <2>3 DEF ReadTask, Step, Transactions
  <2> QED
    BY <2>2, <2>3
<1>4. Fine(tx'[q], write'[q], row)
  BY <1>2, <1>3 DEF Fine, Shifting
<1>5. /\ tx' = [tx EXCEPT ![q] = tx'[q]] /\ write' = [write EXCEPT ![q] = write'[q]]
      /\ UNCHANGED <<row, clean>>
  BY DEF WriteEntry, ReadTask, Step, Sound, Safe, TypeOK
<1> QED
  BY <1>4, <1>5, LocalFine

\* The rows of the others, as q has written them, are where they were, and shown as they were.
LEMMA ShiftedRows ==
  ASSUME Safe, NEW q \in Requests, tx[q].op \in Placing, NEW t \in Tasks
  PROVE  See(q, t).place = row[t].place /\ See(q, t).archived = row[t].archived
BY TxFacts DEF Safe, TypeOK, Mine, Shifts1, Kept, See, Placing

\* Two others never change sides.
LEMMA NeverReversed ==
  ASSUME Safe, NEW q \in Requests, tx[q].op \in Placing, NEW t \in Tasks, NEW u \in Tasks,
         Before(row, t, u)
  PROVE  ~(See(q, u).position < See(q, t).position)
<1> DEFINE x == tx[q]
<1>1. Mine(x, write[q], row) /\ x \in Transactions
  BY DEF Safe, TypeOK
<1>2. x.op = "create" => x.locks = {}
  BY <1>1 DEF Mine
<1>3. x.op \in Shifting => Kept(x, write[q], row) /\ Level(x, write[q], row)
  BY <1>1 DEF Mine, Shifts1
<1>4. /\ row[t].position \in Int /\ row[u].position \in Int /\ row[t].position < row[u].position
      /\ write[q][t].position \in Int /\ write[q][u].position \in Int
  BY RowFacts DEF Safe, TypeOK, Before
<1>5. CASE t \in x.locks /\ u \in x.locks
  BY <1>2, <1>3, <1>4, <1>5 DEF See, Level, Placing
<1>6. CASE t \in x.locks /\ u \notin x.locks
  BY <1>2, <1>3, <1>4, <1>6 DEF See, Kept, Placing
<1>7. CASE t \notin x.locks /\ u \in x.locks
  BY <1>2, <1>3, <1>4, <1>7 DEF See, Kept, Placing
<1>8. CASE t \notin x.locks /\ u \notin x.locks
  BY <1>4, <1>8 DEF See
<1> QED
  BY <1>5, <1>6, <1>7, <1>8

\* As long as nothing has gone wrong, they stay apart and in order, and the place is free.
LEMMA DoneWell ==
  ASSUME Sound, NEW q \in Requests, Finish(q), clean'
  PROVE  /\ \A t, u \in Shown(row) \ {tx[q].task} :
              Before(row, t, u) => See(q, t).position < See(q, u).position
         /\ \A t \in Shown(row) \ {tx[q].task} :
              row[t].place = tx[q].to => See(q, t).position # tx[q].n
<1> DEFINE x == tx[q]
<1>1. /\ clean /\ ~x.stale /\ x.pc = "update" /\ x.todo = <<>> /\ x.op \in Placing
      /\ x.op = "create" /\ x.given =>
           \A u \in Tasks : row[u].place = x.to => row[u].position # x.n
      /\ x.op \in {"move", "relocate"} => ~x.copy.archived
  BY DEF Finish, Done, Placing, Shifting
<1>2. Fine(x, write[q], row) /\ Mine(x, write[q], row)
  BY <1>1 DEF Sound, Safe
<1>3. \A u : See(q, u) = Seen(x, write[q], row, u)
  BY DEF See, Seen
<1>4. CASE x.op = "create"
  <2>1. x.locks = {} /\ \A u \in Tasks : row[u].place = x.to => row[u].position # x.n
    BY <1>1, <1>2, <1>4 DEF Fine, Mine
  <2> QED
    BY <2>1 DEF See, Shown, Before
<1>5. CASE x.op \in Shifting
  <2>1. Apt(x, write[q], row)
    BY <1>1, <1>2, <1>5 DEF Fine, Fit
  <2>2. \A a, b : <<a>> # <<>> /\ <<a, b>> # <<>>
    OBVIOUS
  <2>3. InOrder(x, write[q], row) /\ HasRoom(x, write[q], row)
    BY <1>1, <2>1, <2>2 DEF Apt, Going
  <2> HIDE DEF x
  <2>4. Others(x, row) = Shown(row) \ {x.task}
    BY DEF Others
  <2> QED
    BY <1>3, <2>3, <2>4 DEF InOrder, HasRoom, x
<1> QED
  BY <1>1, <1>4, <1>5 DEF Placing

LEMMA FinishSound ==
  ASSUME Sound, Safe', NEW q \in Requests, Finish(q)
  PROVE  Sound'
<1> DEFINE t == tx[q].task
           f == [u \in Tasks |-> IF u = t THEN Last(q) ELSE See(q, u)]
<1>1. Done(q) /\ tx[q].op \in Placing /\ Free(q, t) /\ Commit(q, f) /\ (clean' => clean)
  BY DEF Finish, Placing, Shifting
<1>2. f \in [Tasks -> Rows]
  BY <1>1, LastType, SeesType DEF Sound, Safe
<1>3. \A r \in Requests \ {q} : \A u \in tx[r].locks : f[u] = row[u]
  BY <1>1, SeenByOthers DEF Free, Sound
<1>4. t \in Tasks /\ f[t] = Last(q)
  BY <1>1, LastType DEF Sound
<1>5. \A u \in Tasks \ {t} : f[u] = See(q, u)
  OBVIOUS
<1>6. Last(q) # NoRow => Last(q).place = tx[q].to /\ Last(q).position = tx[q].n
  <2>1. See(q, t) \in Rows
    BY <1>4, SeesType DEF Sound, Safe
  <2>2. See(q, t) # NoRow =>
          See(q, t) \in [place : Places, position : Positions, archived : BOOLEAN, origin : Entries]
    BY <2>1 DEF Rows
  <2> QED
    BY <2>2 DEF Last
<1> HIDE DEF f, t
<1>7. \A u \in Tasks \ {t} : u \in Shown(f) => u \in Shown(row) /\ f[u].place = row[u].place
  <2> SUFFICES ASSUME NEW u \in Tasks \ {t}, u \in Shown(f)
               PROVE  u \in Shown(row) /\ f[u].place = row[u].place
    OBVIOUS
  <2>1. f[u].place = row[u].place /\ f[u].archived = row[u].archived
    BY <1>1, <1>5, ShiftedRows DEF Sound
  <2>2. f[u] # NoRow /\ ~f[u].archived
    BY DEF Shown
  <2>3. f[u].place # Absent
    BY <1>2, <2>2, RowFacts, AbsentPlace
  <2> QED
    BY <2>1, <2>2, <2>3, NoRowFacts DEF Shown
<1>8. ASSUME clean' PROVE Distinct(f)
  <2>1. Distinct(row)
    BY <1>1, <1>8 DEF Sound
  <2>2. /\ \A a, b \in Shown(row) \ {t} :
              Before(row, a, b) => See(q, a).position < See(q, b).position
        /\ \A a \in Shown(row) \ {t} :
              row[a].place = tx[q].to => See(q, a).position # tx[q].n
    BY <1>8, DoneWell DEF t
  <2>3. ASSUME NEW u \in Shown(f) \ {t}, t \in Shown(f), f[u].place = f[t].place
        PROVE  f[u].position # f[t].position
    <3>1. u \in Shown(row) \ {t} /\ row[u].place = tx[q].to /\ f[u] = See(q, u)
      BY <1>4, <1>5, <1>6, <1>7, <2>3 DEF Shown
    <3>2. f[t].position = tx[q].n
      BY <1>4, <1>6, <2>3 DEF Shown
    <3> QED
      BY <2>2, <3>1, <3>2
  <2>4. ASSUME NEW u \in Shown(f) \ {t}, NEW v \in Shown(f) \ {t}, u # v, f[u].place = f[v].place
        PROVE  f[u].position # f[v].position
    <3>1. /\ u \in Shown(row) \ {t} /\ v \in Shown(row) \ {t} /\ row[u].place = row[v].place
          /\ f[u] = See(q, u) /\ f[v] = See(q, v) /\ u \in Tasks /\ v \in Tasks
      BY <1>5, <1>7, <2>4 DEF Shown
    <3>2. row[u].position \in Int /\ row[v].position \in Int /\ row[u].position # row[v].position
      BY <2>1, <2>4, <3>1, RowFacts DEF Distinct, Sound, Safe, TypeOK
    <3>3. Before(row, u, v) \/ Before(row, v, u)
      BY <3>1, <3>2 DEF Before
    <3>4. f[u].position \in Int /\ f[v].position \in Int
      BY <1>2, <3>1, RowFacts
    <3> QED
      BY <2>2, <3>1, <3>3, <3>4
  <2> QED
    BY <2>3, <2>4 DEF Distinct
<1> QED
  BY <1>1, <1>2, <1>3, <1>8, CommitFine DEF f, t

LEMMA OtherCommitsSound ==
  ASSUME Sound, Safe', \/ \E q \in Requests : FinishArchive(q) \/ FinishDrop(q) \/ Fail(q)
                       \/ \E t \in Tasks : DeleteTask(t)
  PROVE  Sound'
<1>1. ASSUME NEW q \in Requests, FinishArchive(q) \/ FinishDrop(q) PROVE Sound'
  <2> DEFINE f == [t \in Tasks |-> See(q, t)]
  <2>1. Commit(q, f)
    BY <1>1 DEF FinishArchive, FinishDrop
  <2>2. clean' => clean
    BY <1>1 DEF FinishArchive, FinishDrop
  <2>3. f \in [Tasks -> Rows] /\ \A r \in Requests \ {q} : \A u \in tx[r].locks : f[u] = row[u]
    BY SeenByOthers DEF Sound
  <2>4. Mine(tx[q], write[q], row) /\ tx[q] \in Transactions /\ row \in [Tasks -> Rows]
    BY DEF Sound, Safe, TypeOK
  <2>5. ASSUME clean' PROVE \A t \in Shown(f) : t \in Shown(row) /\ f[t] = row[t]
    <3> SUFFICES ASSUME NEW t \in Shown(f) PROVE t \in Shown(row) /\ f[t] = row[t]
      OBVIOUS
    <3>1. t \in Tasks /\ f[t] # NoRow /\ ~f[t].archived /\ f[t] = See(q, t)
      BY DEF Shown
    <3>2. CASE t \notin tx[q].locks
      BY <3>1, <3>2 DEF See, Shown
    <3>3. CASE t \in tx[q].locks /\ FinishArchive(q)
      <4>1. tx[q].op = "archive"
        BY <2>4, <3>3, TxFacts DEF FinishArchive, Mine, Placing, Shifting, Places1
      <4> QED
        BY <2>4, <3>1, <3>3, <4>1 DEF Mine, See
    <3>4. CASE t \in tx[q].locks /\ FinishDrop(q)
      <4>1. row[t].place = tx[q].to /\ write[q][t].archived = row[t].archived
            /\ \A u \in Shown(row) : row[u].place # tx[q].to
        BY <2>4, <2>5, <3>4 DEF FinishDrop, Mine
      <4>2. row[t].archived \/ row[t] = NoRow
        BY <3>1, <4>1 DEF Shown
      <4>3. row[t] # NoRow
        <5>1. tx[q].to # Absent
          BY <2>4, <3>4, AbsentPlace DEF FinishDrop, Mine
        <5> QED
          BY <4>1, <5>1, NoRowFacts
      <4> QED
        BY <3>1, <3>4, <4>1, <4>2, <4>3 DEF See
    <3> QED
      BY <1>1, <3>2, <3>3, <3>4
  <2>6. clean' => Distinct(f)
    BY <2>2, <2>5 DEF Distinct, Sound
  <2> HIDE DEF f
  <2> QED
    BY <2>1, <2>3, <2>6, <2>2, CommitFine
<1>2. ASSUME NEW q \in Requests, Fail(q) PROVE Sound'
  BY <1>2, CommitFine DEF Fail, Sound, Safe, TypeOK
<1>3. ASSUME NEW t \in Tasks, DeleteTask(t) PROVE Sound'
  <2> DEFINE f == [row EXCEPT ![t] = NoRow]
  <2>1. Commit(NoTask, f) /\ clean' = clean /\ \A r \in Requests : t \notin tx[r].locks
    BY <1>3 DEF DeleteTask
  <2>2. f \in [Tasks -> Rows] /\ f[t] = NoRow /\ \A u \in Tasks \ {t} : f[u] = row[u]
    BY NoRowFacts DEF Sound, Safe, TypeOK
  <2>3. \A r \in Requests : tx[r].locks \subseteq Tasks
    BY TxFacts DEF Sound, Safe, TypeOK
  <2> HIDE DEF f
  <2>4. Distinct(row) => Distinct(f)
    BY <2>2 DEF Distinct, Shown
  <2> QED
    BY <2>1, <2>2, <2>3, <2>4, CommitFine DEF Sound
<1> QED
  BY <1>1, <1>2, <1>3

LEMMA StepSound == Sound /\ [Next]_vars => Sound'
<1> SUFFICES ASSUME Sound, [Next]_vars PROVE Sound'
  OBVIOUS
<1>1. Safe'
  BY StepSafe DEF Sound
<1>2. ASSUME NEW q \in Requests,
             \/ Asks(q) \/ CheckPlace(q) \/ ReadMax(q) \/ CheckRestore(q) \/ Select(q) \/ Update(q)
             \/ Finish(q) \/ WriteEntry(q) \/ FinishArchive(q) \/ FinishDrop(q) \/ Fail(q)
             \/ \E t \in Tasks : ReadTask(q, t)
      PROVE  Sound'
  BY <1>1, <1>2, BeginSound, CheckSound, SelectSound, UpdateSound, FinishSound, ArchiveSound,
     OtherCommitsSound
<1>3. CASE UNCHANGED <<row, tx, write, clean>>
  BY <1>1, <1>3 DEF Sound, Distinct, Shown
<1>4. CASE \E t \in Tasks : DeleteTask(t)
  BY <1>1, <1>4, OtherCommitsSound
<1> QED
  BY <1>2, <1>3, <1>4 DEF Next, UpdateSubColumn, vars

\* Two tasks that are shown in one place are never at one position, however many requests
\* overlap, unless one committed what it had computed from rows that had changed since, or one
\* of the cases named at the property has happened.
THEOREM PositionsApart == Spec => []PositionsDistinct
<1>1. Sound => PositionsDistinct
  BY DEF Sound, PositionsDistinct
<1> QED
  BY <1>1, InitSound, StepSound, PTL DEF Spec

\* No request makes two other tasks change sides, whatever overlaps; and they stay in their
\* order under the same condition.
THEOREM OrderStays == Spec => OrderKept
<1>1. ASSUME Sound, [Next]_vars, NEW q \in Requests, Finish(q),
             NEW t \in Tasks \ {tx[q].task}, NEW u \in Tasks \ {tx[q].task}, Before(row, t, u)
      PROVE  /\ ~Before(row', u, t)
             /\ clean' /\ {t, u} \subseteq Shown(row) => Before(row', t, u)
  <2>1. tx[q].op \in Placing /\ row'[t] = See(q, t) /\ row'[u] = See(q, u)
    BY <1>1 DEF Finish, Commit, Placing, Shifting
  <2>2. ~(See(q, u).position < See(q, t).position)
    BY <1>1, <2>1, NeverReversed DEF Sound
  <2>3. See(q, t).place = row[t].place /\ See(q, u).place = row[u].place
    BY <1>1, <2>1, ShiftedRows DEF Sound
  <2>4. clean' /\ {t, u} \subseteq Shown(row) => See(q, t).position < See(q, u).position
    BY <1>1, DoneWell
  <2> QED
    BY <1>1, <2>1, <2>2, <2>3, <2>4 DEF Before
<1> DEFINE Orderly ==
      \A q \in Requests : Finish(q) =>
        \A t, u \in Tasks \ {tx[q].task} : Before(row, t, u) =>
          /\ ~Before(row', u, t)
          /\ clean' /\ {t, u} \subseteq Shown(row) => Before(row', t, u)
<1>2. Sound /\ [Next]_vars => [Orderly]_vars
  BY <1>1
<1>3. Spec => [][Orderly]_vars
  <2> HIDE DEF Orderly
  <2> QED
    BY <1>2, InitSound, StepSound, PTL DEF Spec
<1> QED
  BY <1>3 DEF OrderKept
=============================================================================
