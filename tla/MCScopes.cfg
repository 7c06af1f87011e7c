CONSTANTS
  a = a
  b = b
  c = c
  Names = {a, b, c}
  Signatures = {s1, s2}
  None = None
  Buckets = 2
  Hash <- MCHash
  MaxDepth = 2
  MaxNodes = 3
SPECIFICATION Spec
PROPERTIES
  ImplementsTables
