\* The daemon alone, with a TCP probe that can fail.
SPECIFICATION Spec
CONSTANTS
  Main = Main
  Clients = {}
  Ops = {}
  MaxLaunch = 2
  RestartPolicy = "always"
  MaxAttempts = 0
  HealthType = "tcp"
  ShutdownTimeout = 1
INVARIANTS
  OneLiveChild
