SPECIFICATION ClockSpec
CONSTANTS
  Caller = {driver, other}
  Delay = {0, 1, 2}
  MaxTime = 3
  MaxTimers = 4
  MaxDepth = 2
INVARIANTS NothingOverdue FiredOnce FiresInOrder
PROPERTY BackOnlyIfOvertaken
