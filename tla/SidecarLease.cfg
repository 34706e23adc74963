CONSTANTS
  Sidecars = {s1, s2, s3, s4}
  None = None
  Concurrent = FALSE
SPECIFICATION SidecarFairSpec
INVARIANTS SidecarTypeOK ExclusiveRuntime ServingOwnsFile
PROPERTIES LoneStartClaims
CHECK_DEADLOCK FALSE
