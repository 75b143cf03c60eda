\* delay: 2, multiplier: 2, max_delay: 60, no limit on attempts, in 16 bits.
\* Restarts stop at the bound.
CHECK_DEADLOCK FALSE
SPECIFICATION Spec
CONSTANTS
  Width = 16
  Delay = 2
  BackoffMultiplier = 2
  MaxDelay = 60
  MaxAttempts = 0
  BoundAttempts = 16
PROPERTIES
  DelaysNeverShrink
