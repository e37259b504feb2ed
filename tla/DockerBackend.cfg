CONSTANTS
  MaxLines = 3
  LineShapes = {"narrow", "wide"}
SPECIFICATION FairSpec
INVARIANTS
  TypeOK
  FramesAreLines
  NoContainerForgotten
  StopLeavesNothing
PROPERTIES
  EveryLineHeard
CHECK_DEADLOCK FALSE
