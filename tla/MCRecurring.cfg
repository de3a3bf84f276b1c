SPECIFICATION FairSpec
CONSTANTS
  p1 = p1
  p2 = p2
  Schedulers <- TwoProcesses
  Schedules <- MCSchedules
  Choices <- MCChoices
  Years <- MCYears
  FirstDay <- MCFirstDay
  FirstWeekday <- Thursday
  Starts <- MCStarts
  Ends <- MCEnds
  MaxHand = 1
INVARIANTS TypeOK OneTaskEach NoneSkipped NextIsFirst
PROPERTY CatchesUp
