CONSTANTS
  Sources <- LeftEarly
  MaxNesting = 3
  MaxParens = 2
SPECIFICATION FairSpec
PROPERTY
  VariablesReturn
