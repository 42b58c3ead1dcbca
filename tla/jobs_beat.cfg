SPECIFICATION FairSpec
CONSTANTS
  Job = {j1}
  Order = {o1}
  Worker = {w1}
  Beat = Beat
  Nobody = Nobody
  MaxLosses = 0
  FaultSets = {{}}
PROPERTY BeatLearnsJobs
CHECK_DEADLOCK FALSE
