------------------------------ MODULE TaskBoard ------------------------------
(***************************************************************************)
(* Where the tasks of the boards are: column, subcolumn and position       *)
(* (tasks/store).  The position orders the tasks of one column that have   *)
(* no subcolumn, or the tasks of one subcolumn; each operation makes room  *)
(* and closes gaps by shifting the others of such a place.  Archived tasks *)
(* keep their place and their position and are shifted with the others,    *)
(* except when a task is restored.                                         *)
(*                                                                         *)
(* withTx begins a transaction at the isolation the database gives by      *)
(* itself, READ COMMITTED of PostgreSQL: each statement sees what is       *)
(* committed when it begins, and its own transaction's writes.  So each    *)
(* SELECT is an action, and what it has read is kept by the request while  *)
(* others commit.  An UPDATE is two: it selects the rows (Select), waits   *)
(* for those that another transaction has written, and changes the ones    *)
(* that still match (Update).  The last write is one with the commit, as   *)
(* nobody sees it before.  A request may fail anywhere, on account of a    *)
(* refusal, a deadlock or a caller who has gone.                           *)
(*                                                                         *)
(* Abstractions.  Permissions, the contents of a task and its closing are  *)
(* left out, and so are the blocks that keep a task out of a final column; *)
(* whether a column is active, which only refuses some restores, is not    *)
(* kept.  An UPDATE locks its rows at once and not one by one.             *)
(***************************************************************************)
EXTENDS Integers, Sequences

CONSTANTS Tasks, NoTask,
          Columns,
          SubColumns,
          Board,        \* the board of a column
          Owner,        \* the column of a subcolumn
          Requests,     \* the requests served at a time
          Boards,       \* the rows that the store may hold at first
          MaxPosition,  \* bound: positions
          MaxBegun      \* bound: requests

VARIABLES row,      \* the committed rows of tasks, each with its task_archive_entries
          active,   \* the active subcolumns
          tx,       \* the requests: what each has read, what is left to do, its row locks
          write,    \* the rows that are locked, as its transaction has written them
          begun,
          clean     \* history: nothing yet may have put two tasks at one position

vars == <<row, active, tx, write, begun, clean>>

\* column_id and subcolumn_id.
Places == {<<c, "none">> : c \in Columns} \union {<<Owner[s], s>> : s \in SubColumns}
Positions == 1 .. MaxPosition
Absent == <<>>
NoEntry == [place |-> Absent, position |-> 1]
Entries == [place : Places, position : Positions] \union {NoEntry}
NoRow == [place |-> Absent, position |-> 1, archived |-> FALSE, origin |-> NoEntry]
Rows == [place : Places, position : Positions, archived : BOOLEAN, origin : Entries] \union {NoRow}

\* An UPDATE of tasks: the rows of a place and a range, perhaps without the archived ones, are
\* shifted by so much, or put into another place.
Updates == {u \in [place : Places, low : Nat, high : Nat, by : {-1, 0, 1}, live : BOOLEAN,
                   into : Places] : u.low + u.by >= 1}

Transactions ==
  [op : {"none", "create", "move", "relocate", "restore", "archive", "drop"},
   pc : {"idle", "check", "max", "list", "entry", "update", "wait"},
   task : Tasks \union {NoTask}, copy : Rows, to : Places \union {Absent},
   n : 0 .. MaxPosition, given : BOOLEAN, todo : Seq(Updates), chosen : SUBSET Tasks,
   locks : SUBSET Tasks, stale : BOOLEAN]
Idle == [op |-> "none", pc |-> "idle", task |-> NoTask, copy |-> NoRow, to |-> Absent, n |-> 0,
         given |-> FALSE, todo |-> <<>>, chosen |-> {}, locks |-> {}, stale |-> FALSE]

Shown(f) == {t \in Tasks : f[t] # NoRow /\ ~f[t].archived}
Distinct(f) ==
  \A t, u \in Shown(f) : t # u /\ f[t].place = f[u].place => f[t].position # f[u].position

ASSUME OwnerAssumption == Owner \in [SubColumns -> Columns] /\ "none" \notin SubColumns
ASSUME BoundAssumption == MaxPosition \in Nat \ {0} /\ MaxBegun \in Nat
ASSUME NoTaskAssumption == NoTask \notin Tasks
ASSUME BoardsAssumption == \A f \in Boards : f \in [Tasks -> Rows] /\ Distinct(f)

TypeOK ==
  /\ row \in [Tasks -> Rows]
  /\ active \subseteq SubColumns
  /\ tx \in [Requests -> Transactions]
  /\ write \in [Requests -> [Tasks -> Rows]]
  /\ begun \in 0 .. MaxBegun
  /\ clean \in BOOLEAN

Init ==
  /\ row \in Boards
  /\ active = SubColumns
  /\ tx = [q \in Requests |-> Idle]
  /\ write = [q \in Requests |-> [t \in Tasks |-> NoRow]]
  /\ begun = 0
  /\ clean = TRUE

-----------------------------------------------------------------------------
\* What a statement of q sees of t, and whether it need not wait for another to write it.
See(q, t) == IF t \in tx[q].locks THEN write[q][t] ELSE row[t]
Free(q, t) == \A r \in Requests \ {q} : t \notin tx[r].locks

Begin(q, x) ==
  /\ tx[q] = Idle /\ begun < MaxBegun
  /\ tx' = [tx EXCEPT ![q] = x]
  /\ begun' = begun + 1
  /\ UNCHANGED <<row, active, write, clean>>

Step(q, x) ==
  /\ tx' = [tx EXCEPT ![q] = x]
  /\ UNCHANGED <<row, active, write, begun, clean>>

\* The places that a request is about.  It is stale once a row there changes.
Near(x) == IF x.op = "restore" THEN Places ELSE {x.copy.place, x.to} \ {Absent}

Touched(f, x) == \E t \in Tasks : f[t] # row[t] /\ {f[t].place, row[t].place} \cap Near(x) # {}

\* The committed rows become f; q is done, or nobody (NoTask) for a statement by itself.
Commit(q, f) ==
  /\ row' = f
  /\ tx' = [r \in Requests |-> IF r = q THEN Idle
                               ELSE [tx[r] EXCEPT !.stale = @ \/ Touched(f, tx[r])]]
  /\ write' = [r \in Requests |-> IF r = q THEN [t \in Tasks |-> NoRow] ELSE write[r]]

-----------------------------------------------------------------------------
\* Fault injected: the one at n moves up too.
CloseFrom(p, n) ==
  [place |-> p, low |-> n, high |-> MaxPosition, by |-> -1, live |-> FALSE, into |-> p]
\* Those after n move up, those from n on move down.
Close(p, n) ==
  [place |-> p, low |-> n + 1, high |-> MaxPosition, by |-> -1, live |-> FALSE, into |-> p]
Open(p, n, live) ==
  [place |-> p, low |-> n, high |-> MaxPosition, by |-> 1, live |-> live, into |-> p]
\* In the same place, those in between.
Slide(p, from, to) ==
  IF from < to
  THEN [place |-> p, low |-> from + 1, high |-> to, by |-> -1, live |-> FALSE, into |-> p]
  ELSE [place |-> p, low |-> to, high |-> from - 1, by |-> 1, live |-> FALSE, into |-> p]

\* Fault injected: no room is made in the place that a task is relocated to.
ShiftsUnopened(x) ==
  IF x.op = "create" THEN <<>>
  ELSE IF x.op = "restore" THEN <<Open(x.to, x.n, TRUE)>>
  ELSE IF x.op = "move" /\ x.to = x.copy.place THEN <<Slide(x.to, x.copy.position, x.n)>>
  ELSE <<Close(x.copy.place, x.copy.position)>>
\* The shifts of a request that has read all it needs: a restore leaves the archived where they
\* are, a relocation closes and opens its own place like another.
Shifts(x) ==
  IF x.op = "create" THEN <<>>
  ELSE IF x.op = "restore" THEN <<Open(x.to, x.n, TRUE)>>
  ELSE IF x.op = "move" /\ x.to = x.copy.place THEN <<Slide(x.to, x.copy.position, x.n)>>
  ELSE <<Close(x.copy.place, x.copy.position), Open(x.to, x.n, FALSE)>>

Prepared(x) == [x EXCEPT !.todo = Shifts(x), !.pc = "update"]

\* A request for a task of which r has been read; no position is 0.
Asked(op, t, r, p, n) ==
  [op |-> op, pc |-> "check", task |-> t, copy |-> r, to |-> p, n |-> n, given |-> n # 0,
   todo |-> <<>>, chosen |-> {}, locks |-> {}, stale |-> FALSE]

\* createTaskTx, for a new task, a clone or a recurring one.
CreateTask(q, t, p, n) ==
  /\ row[t] = NoRow /\ \A r \in Requests : tx[r].task # t /\ t \notin tx[r].chosen
  /\ Begin(q, Asked("create", t, NoRow, p, n))

\* getTaskTx, which takes no lock, and the column, which must be of the same board.  The
\* handler does not ask whether the task is archived.
MoveTask(q, t, p, n) ==
  /\ row[t] # NoRow
  /\ Board[p[1]] = Board[row[t].place[1]]
  /\ Begin(q, Asked("move", t, row[t], p, n))

\* To any board.
RelocateTask(q, t, p, n) ==
  /\ row[t] # NoRow
  /\ Begin(q, Asked("relocate", t, row[t], p, n))

RestoreTask(q, t, p) ==
  /\ row[t].archived
  /\ Begin(q, Asked("restore", t, row[t], p, 0))

\* The subcolumn is active; the position is given or the one after the highest.
CheckPlace(q) ==
  LET x == tx[q] IN
  /\ x.pc = "check" /\ x.op # "restore"
  /\ x.to[2] \in active \union {"none"}
  /\ Step(q, IF x.given THEN Prepared(x) ELSE [x EXCEPT !.pc = "max"])

ReadMax(q) ==
  LET x == tx[q]
      there == {u \in Tasks : row[u].place = x.to} IN
  /\ x.pc = "max"
  /\ \E n \in Positions :
       /\ \A u \in there : row[u].position < n
       /\ n = 1 \/ \E u \in there : row[u].position = n - 1
       /\ Step(q, Prepared([x EXCEPT !.n = n]))

\* The entry, gone with a task that was deleted.
EntryOf(x) ==
  IF row[x.task] = NoRow THEN [place |-> <<x.copy.place[1], "none">>, position |-> x.copy.position]
  ELSE row[x.task].origin

\* A subcolumn that was not asked for is the archived one, which must be in the column asked
\* for; one that is not active is left for its column.
CheckRestore(q) ==
  LET x == tx[q]
      sub == IF x.to[2] = "none" THEN EntryOf(x).place[2] ELSE x.to[2]
      p == <<x.to[1], IF sub \in active THEN sub ELSE "none">> IN
  /\ x.pc = "check" /\ x.op = "restore"
  /\ sub # "none" => Owner[sub] = x.to[1]
  /\ Step(q, Prepared([x EXCEPT !.to = p, !.n = EntryOf(x).position]))

-----------------------------------------------------------------------------
Matches(r, u) ==
  /\ r.place = u.place
  /\ u.low <= r.position /\ r.position <= u.high
  /\ u.live => ~r.archived

Changed(r, u) == [r EXCEPT !.place = u.into, !.position = @ + u.by]

Select(q) ==
  LET x == tx[q] IN
  /\ x.pc = "update" /\ x.todo # <<>>
  /\ Step(q, [x EXCEPT !.pc = "wait",
                       !.chosen = {t \in Tasks : Matches(See(q, t), Head(x.todo))}])

\* Fault injected: it writes over rows that another has written.
UpdateOver(q) ==
  LET x == tx[q]
      u == Head(x.todo)
      hit == {t \in x.chosen : Matches(See(q, t), u)} IN
  /\ x.pc = "wait"
  /\ \A t \in hit : See(q, t).position + u.by <= MaxPosition
  /\ write' = [write EXCEPT ![q] =
                 [t \in Tasks |-> IF t \in hit THEN Changed(See(q, t), u) ELSE write[q][t]]]
  /\ tx' = [tx EXCEPT ![q] = [x EXCEPT !.pc = "update", !.todo = Tail(@), !.chosen = {},
                                       !.locks = @ \union hit]]
  /\ UNCHANGED <<row, active, begun, clean>>
Update(q) ==
  LET x == tx[q]
      u == Head(x.todo)
      hit == {t \in x.chosen : Matches(See(q, t), u)} IN
  /\ x.pc = "wait"
  /\ \A t \in x.chosen : Free(q, t)
  /\ \A t \in hit : See(q, t).position + u.by <= MaxPosition
  /\ write' = [write EXCEPT ![q] =
                 [t \in Tasks |-> IF t \in hit THEN Changed(See(q, t), u) ELSE write[q][t]]]
  /\ tx' = [tx EXCEPT ![q] = [x EXCEPT !.pc = "update", !.todo = Tail(@), !.chosen = {},
                                       !.locks = @ \union hit]]
  /\ UNCHANGED <<row, active, begun, clean>>

Done(q) == tx[q].pc = "update" /\ tx[q].todo = <<>>

\* The row as the last statement leaves it: an INSERT, or an UPDATE that finds no row when the
\* task has been deleted.
Last(q) ==
  LET x == tx[q]
      r == See(q, x.task) IN
  IF x.op = "create"
  THEN [place |-> x.to, position |-> x.n, archived |-> FALSE, origin |-> NoEntry]
  ELSE IF r = NoRow THEN r
  ELSE [r EXCEPT !.place = x.to, !.position = x.n, !.archived = @ /\ x.op # "restore"]

\* A position that is given to a new task may be taken; an archived task that is moved leaves
\* a gap that others close over it.
Finish(q) ==
  LET x == tx[q] IN
  /\ Done(q) /\ x.op \in {"create", "move", "relocate", "restore"}
  /\ Free(q, x.task)
  /\ Commit(q, [t \in Tasks |-> IF t = x.task THEN Last(q) ELSE See(q, t)])
  /\ clean' = (/\ clean /\ ~x.stale
               /\ x.op = "create" /\ x.given =>
                    \A u \in Tasks : row[u].place = x.to => row[u].position # x.n
               /\ x.op \in {"move", "relocate"} => ~x.copy.archived)
  /\ UNCHANGED <<active, begun>>

-----------------------------------------------------------------------------
ArchiveTask(q, t) ==
  /\ row[t] # NoRow
  /\ Begin(q, [Idle EXCEPT !.op = "archive", !.pc = "list", !.chosen = {t}])

\* The whole column, its subcolumns included.
ArchiveTasksByColumn(q, c) ==
  Begin(q, [Idle EXCEPT !.op = "archive", !.pc = "list",
                        !.chosen = {t \in Shown(row) : row[t].place[1] = c}])

\* archiveTaskTx for one of them: one that is archived by now is left out.
ReadTask(q, t) ==
  LET x == tx[q]
      r == See(q, t) IN
  /\ x.pc = "list" /\ t \in x.chosen
  /\ r # NoRow
  /\ Step(q, IF r.archived THEN [x EXCEPT !.chosen = @ \ {t}]
             ELSE [x EXCEPT !.pc = "entry", !.task = t, !.copy = r])

\* The entry, as it was read, and the row.
WriteEntry(q) ==
  LET x == tx[q]
      r == See(q, x.task)
      entry == [place |-> x.copy.place, position |-> x.copy.position] IN
  /\ x.pc = "entry"
  /\ Free(q, x.task) /\ r # NoRow
  /\ write' = [write EXCEPT ![q][x.task] = [r EXCEPT !.archived = TRUE, !.origin = entry]]
  /\ tx' = [tx EXCEPT ![q] = [x EXCEPT !.pc = "list", !.chosen = @ \ {x.task},
                                       !.locks = @ \union {x.task}]]
  /\ UNCHANGED <<row, active, begun, clean>>

FinishArchive(q) ==
  /\ tx[q].pc = "list" /\ tx[q].chosen = {}
  /\ Commit(q, [t \in Tasks |-> See(q, t)])
  /\ UNCHANGED <<active, begun, clean>>

\* Its tasks fall back to the column, at the positions they have.  The handler has counted
\* those that are not archived before; one may have come since.
DeleteSubColumn(q, s) ==
  Begin(q, [Idle EXCEPT !.op = "drop", !.pc = "update", !.to = <<Owner[s], s>>,
            !.todo = <<[place |-> <<Owner[s], s>>, low |-> 1, high |-> MaxPosition, by |-> 0,
                        live |-> FALSE, into |-> <<Owner[s], "none">>]>>])

FinishDrop(q) ==
  LET p == tx[q].to IN
  /\ Done(q) /\ tx[q].op = "drop"
  /\ Commit(q, [t \in Tasks |-> See(q, t)])
  /\ active' = active \ {p[2]}
  /\ clean' = (clean /\ \A t \in Shown(row) : row[t].place # p)
  /\ UNCHANGED begun

\* The transaction is rolled back.
Fail(q) ==
  /\ tx[q] # Idle
  /\ Commit(q, row)
  /\ UNCHANGED <<active, begun, clean>>

\* The row goes, with its entry; nothing is shifted.
DeleteTask(t) ==
  /\ row[t] # NoRow /\ begun < MaxBegun
  /\ \A r \in Requests : t \notin tx[r].locks
  /\ Commit(NoTask, [row EXCEPT ![t] = NoRow])
  /\ begun' = begun + 1
  /\ UNCHANGED <<active, clean>>

\* It writes is_active and leaves the tasks where they are.
UpdateSubColumn(s, on) ==
  /\ begun < MaxBegun
  /\ active' = IF on THEN active \union {s} ELSE active \ {s}
  /\ begun' = begun + 1
  /\ UNCHANGED <<row, tx, write, clean>>

Asks(q) ==
  \/ \E t \in Tasks, p \in Places, n \in 0 .. MaxPosition :
       CreateTask(q, t, p, n) \/ MoveTask(q, t, p, n) \/ RelocateTask(q, t, p, n)
  \/ \E t \in Tasks, p \in Places : RestoreTask(q, t, p)
  \/ \E t \in Tasks : ArchiveTask(q, t)
  \/ \E c \in Columns : ArchiveTasksByColumn(q, c)
  \/ \E s \in SubColumns : DeleteSubColumn(q, s)

Next ==
  \/ \E q \in Requests :
       \/ Asks(q) \/ CheckPlace(q) \/ ReadMax(q) \/ CheckRestore(q) \/ Select(q) \/ Update(q)
       \/ Finish(q) \/ WriteEntry(q) \/ FinishArchive(q) \/ FinishDrop(q) \/ Fail(q)
       \/ \E t \in Tasks : ReadTask(q, t)
  \/ \E t \in Tasks : DeleteTask(t)
  \/ \E s \in SubColumns, on \in BOOLEAN : UpdateSubColumn(s, on)

Spec == Init /\ [][Next]_vars

-----------------------------------------------------------------------------
\* Two tasks that are shown in one place are never at one position, as long as no transaction
\* committed after another had changed the rows of a place it was about (it shifts with the
\* position that it read before), no task was created at a position that was taken, moved while
\* it was archived, or left in a subcolumn that was deleted.
PositionsDistinct == clean => Distinct(row)

Before(f, t, u) == f[t].place = f[u].place /\ f[t].position < f[u].position

\* A request moves its own task among the others, who stay in their order as long as that is
\* so.  Whatever overlaps, and whatever it has read, it never makes two others change sides: at
\* worst they come level.
OrderKept ==
  [][\A q \in Requests : Finish(q) =>
       \A t, u \in Tasks \ {tx[q].task} : Before(row, t, u) =>
         /\ ~Before(row', u, t)
         /\ clean' /\ {t, u} \subseteq Shown(row) => Before(row', t, u)]_vars
=============================================================================
