SPECIFICATION Spec
CONSTANTS
  par = par
  kid = kid
  sib = sib
  Root = root
  None = none
  Names = {par, kid}
  Families <- NestedOnly
  Directive <- RestartOrStop
  FailStart = {}
  FailStop = {}
  Ops <- PassivationOps
  MaxInc = 1
  Scenarios <- Two
  MaxTasks = 5
INVARIANTS
  PostStopOnce
CHECK_DEADLOCK FALSE
