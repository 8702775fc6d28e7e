SPECIFICATION Spec
CONSTANTS
  Main = main
  Actor = actor
  Outputs = {q1}
INVARIANTS RestartKeepsOutputs
