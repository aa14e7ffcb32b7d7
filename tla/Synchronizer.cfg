CONSTANTS
  Threads = {monitor, runner1, runner2, runner3}
  Monitor = monitor
  NoThread = nothread
  Rounds = 3
SPECIFICATION FairSpec
INVARIANTS
  TypeOK
  NobodyLeavesEarly
  NoRoundIsSkipped
  NoLostWakeup
  LoopEndsWhenAllDone
PROPERTIES
  ImplementsBarrier
  MonitorLearnsOfTheEnd
CHECK_DEADLOCK FALSE
