SPECIFICATION Spec
CONSTANTS
  Bits <- MCBits
  Assignments <- MCAssignments
  Fallback <- MCFallback
  Speeds <- MCSpeeds
  Rates <- MCRates
  Positions <- MCPositions
  Ramps <- MCRamps
  Factory <- MCFactory
INVARIANTS
  RunsAsCommanded
  MemoryIsTrue
  OnlyEnableIsStale
PROPERTIES
  UpdateSparesActive
