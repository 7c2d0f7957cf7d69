SPECIFICATION Spec
CONSTANTS
  Label = {"a"}
  MaxDid = 2
  MaxParticles = 3
  MaxSize = 4
  MaxFailures = 1
  None = None
CHECK_DEADLOCK FALSE
INVARIANTS
  Lockstep
  WeightsFollow
  LabelsLead
