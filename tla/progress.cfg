\* What must happen in the end, with a handler that removes the
\* tunnel while probes fail, restarts are under way and the daemon ends.
SPECIFICATION FairSpec
CONSTANTS
  Main = Main
  c1 = c1
  Clients = {c1}
  Ops = {"RemoveTunnel"}
  MaxLaunch = 2
  RestartPolicy = "on-failure"
  MaxAttempts = 1
  HealthType = "tcp"
  ShutdownTimeout = 1
PROPERTIES
  CondemnedIsReaped
  LockReleased
  ShutdownCompletes
