\* The single-probe rule as circuit_breaker.go states it.
SPECIFICATION BreakerSpec
CONSTANTS
  ToolCalls = {c1, c2, c3}
  Hanging = {c3}
  Threshold = 2
  Cooldown = 1
  StrandedTimeout = 1
  ResetDelays <- MCResetDelays
  Horizon = 3
  Nobody = Nobody
PROPERTY OneProbeAtATime
