CONSTANTS
  Jobs = {a, b, c}
  Concurrency = 2
SPECIFICATION Spec
INVARIANTS WaitingAnswerable LogFollowsState CapacityKept NoIdleCapacity
PROPERTIES LifeSpec
SYMMETRY Symmetry
