CONSTANTS
  Sidecars = {s1, s2, s3}
  None = None
  Concurrent = TRUE
SPECIFICATION SidecarSpec
INVARIANTS ExclusiveRuntime
CHECK_DEADLOCK FALSE
