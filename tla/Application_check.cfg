CONSTANTS
  Requests = {r1, r2}
  MaxReloads = 3
  Runs = {w1, w2}
  Pages = 2
  MaxEpochs = 4
  Keys = {k1, k2}
  Tagged = {k1}
  Loads = {l1, l2, l3}
  NoLoad = NoLoad
  Given = Given
  Contacts = 3
  BatchSize = 2
  Planners = {p1, p2}
  NoPlanner = NoPlanner
  MaxCommands = 3
  MaxSlips = 2
  MaxRestarts = 2
  Tasks = {t1, t2, t3}
  Uncloneable = {t3}
  Timed = {t2}
  NoTask = NoTask
  MinThreads = 1
  MaxThreads = 2
  MaxExisting = 10
  MaxFailures = 2
SPECIFICATION FairSpec
INVARIANTS OneGeneration RequestsAreServed ProgressIsTrue InvalidatedStaysOut PlanIsTrue EveryTaskIsHeld
PROPERTIES CampaignEnds CommandsSettle TasksSettle
CHECK_DEADLOCK FALSE
