\* Three threads in two address spaces.
CONSTANTS
  ThreadSet = {t1, t2, t3}
  Spaces = {a, b}
  runnable = runnable
  waiting = waiting
  Null = Null
  NIds = 8
  ErrorCodes = {0, 7}
SYMMETRY Symmetry
SPECIFICATION Spec
INVARIANTS
  ThreadsFound
  ResumeEntersThread
  FrameIsContext
