SPECIFICATION Spec
CONSTANTS
  BlockSize = 3
  Incompressible = {3}
  WriteLens = {1, 2, 5, 7}
  MaxBytes = 13
  Params <- MCParams
  Cpus = 3
  MaxAuto = 2
  SlotBytes = 4
INVARIANTS DestroyDefined NothingLeft
PROPERTIES SerialImplementsStream
