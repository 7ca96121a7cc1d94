SPECIFICATION FairSpec
CONSTANTS
  par = par
  kid = kid
  sib = sib
  Root = root
  None = none
  Names = {par, kid, sib}
  Families <- NestedOnly
  Directive <- ResumeOrEscalate
  FailStart = {}
  FailStop = {}
  Ops <- StopOps
  MaxInc = 1
  Scenarios <- Triple
  MaxTasks = 9
INVARIANTS
  RegistryExact
  CounterExact
PROPERTIES
  OperationsFinish
CHECK_DEADLOCK FALSE
