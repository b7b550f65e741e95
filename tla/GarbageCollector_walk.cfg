SPECIFICATION Spec
CONSTANTS
  Paths <- Tree
  Top = "Linux"
  Dirs <- TreeDirs
  Children <- TreeChildren
  Below <- TreeBelow
INVARIANTS RemovesExactlyGarbage RootsSurvive
CHECK_DEADLOCK FALSE
