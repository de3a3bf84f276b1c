CONSTANTS
  t1 = t1
  t2 = t2
  t3 = t3
  q1 = q1
  q2 = q2
  NoTask = NoTask
  Tasks <- MCTasks
  Requests <- MCRequests
  Columns = {"todo", "done"}
  SubColumns = {"sub"}
  Board <- MCBoard
  Owner <- MCOwner
  Boards <- MCBoards
  MaxPosition = 4
  MaxBegun = 2
SPECIFICATION Spec
INVARIANTS
  TypeOK
  PositionsDistinct
SYMMETRY Symmetric
PROPERTIES
  OrderKept
CHECK_DEADLOCK FALSE
