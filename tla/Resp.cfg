\* Up to three commands of every form.
CONSTANTS
  Atoms <- AllAtoms
  Arrays <- AllArrays
  Lines <- AllLines
  MaxCommands = 3
SPECIFICATION Spec
INVARIANTS
  CommandsIntact
  ReadsToTheEnd
  RepliesInStep
CHECK_DEADLOCK FALSE
