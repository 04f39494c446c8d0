\* Every drawing of a trigger, a question, an action and a wait.
CONSTANTS
  t = t  q = q  a = a  d = d  none = none
  Nodes <- All  Cases <- NoCase  Lists <- NoCase  Drawings <- AllDrawings
  None = none
SPECIFICATION Spec
INVARIANTS LoopsAreRefused
CHECK_DEADLOCK FALSE
