SPECIFICATION Spec
CONSTANTS
  Inputs <- HexInputs
  buf_size = 4
  MaxRead = 2
INVARIANT
  BodyExact
