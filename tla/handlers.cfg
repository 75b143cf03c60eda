\* A handler that starts, stops, enables, disables and removes the tunnel
\* while it is being started, restarted and shut down.
SPECIFICATION Spec
CONSTANTS
  Main = Main
  c1 = c1
  Clients = {c1}
  Ops = {"StartTunnel", "EnableTunnel", "StopTunnel", "DisableTunnel", "RemoveTunnel"}
  MaxLaunch = 2
  RestartPolicy = "always"
  MaxAttempts = 1
  HealthType = "none"
  ShutdownTimeout = 1
INVARIANTS
  TypeOK
PROPERTIES
  LaunchesEnd
  RemovedStaysDown
