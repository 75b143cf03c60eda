\* The daemon alone: no client, no health check, a limited number of restarts.
SPECIFICATION FairSpec
CONSTANTS
  Main = Main
  Clients = {}
  Ops = {}
  MaxLaunch = 3
  RestartPolicy = "always"
  MaxAttempts = 2
  HealthType = "none"
  ShutdownTimeout = 1
INVARIANTS
  OneLiveChild
  ExitKillsPublished
  AttemptsBounded
  WaiterNeverBlocks
PROPERTIES
  ExitNoticed
