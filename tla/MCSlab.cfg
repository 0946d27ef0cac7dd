\* Three kernel pages, two objects in each.
CONSTANTS
  Slabs = {s1, s2, s3}
  num_total = 2
  NULL = NULL
SPECIFICATION Spec
INVARIANTS
  SlabsOnTheRightList
  ObjectsConserved
  UsedIsHeld
  FreeFindsASlab
PROPERTIES
  ImplementsObjectCache
SYMMETRY Symmetry
