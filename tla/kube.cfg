\* A tunnel that is edited, deleted, rescheduled and fails, up to the bound.
\* A cluster without the tunnel has nothing left to do.
CHECK_DEADLOCK FALSE
SPECIFICATION FairSpec
CONSTANTS
  Nodes <- TwoNodes
  Bodies = {"b1"}
  Invalid = Invalid
  None = None
  MaxPort = 2
  MaxEvents = 1
INVARIANTS
  TypeOK
PROPERTIES
  ReportsAreCurrent
  EndpointsConverge
  DeletedIsCleaned
