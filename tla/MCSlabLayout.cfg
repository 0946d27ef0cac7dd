CONSTANTS
  size = 4096
  ObjSizes <- MCObjSizes
SPECIFICATION LayoutSpec
INVARIANTS
  FreelistClearOfObjects
  ObjectsInsideSlab
\* Initialising a slab ends.
CHECK_DEADLOCK FALSE
