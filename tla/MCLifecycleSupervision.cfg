SPECIFICATION Spec
CONSTANTS
  par = par
  kid = kid
  sib = sib
  Root = root
  None = none
  Names = {par, kid}
  Families <- NestedOrFlat
  Directive <- RestartOrStop
  FailStart = {kid}
  FailStop = {kid}
  Ops <- FailOps
  MaxInc = 3
  Scenarios <- Supervisors
  MaxTasks = 9
INVARIANTS
  TypeOK
  PostStopOnce
  TreeConsistent
  SuspensionHandled
CHECK_DEADLOCK FALSE
