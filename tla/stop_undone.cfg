\* A handler stops the tunnel while a restart is pending.
SPECIFICATION Spec
CONSTANTS
  Main = Main
  c1 = c1
  Clients = {c1}
  Ops = {"StopTunnel"}
  MaxLaunch = 2
  RestartPolicy = "always"
  MaxAttempts = 0
  HealthType = "none"
  ShutdownTimeout = 1
PROPERTIES
  RestartOnlyIfExpected
