SPECIFICATION Spec
CONSTANTS
  par = par
  kid = kid
  sib = sib
  Root = root
  None = none
  Names = {par, kid}
  Families <- NestedOnly
  Directive <- RestartOrStop
  FailStart = {}
  FailStop = {}
  Ops <- RestartOps
  MaxInc = 1
  Scenarios <- One
  MaxTasks = 5
INVARIANTS
  RunningIsRegistered
CHECK_DEADLOCK FALSE
