SPECIFICATION FairSpec
CONSTANTS
  BlockSize = 2
  Incompressible = {2, 6, 8}
  Workers = {w1, w2}
  NSlots = 4
  WriteLens = {1, 5}
  MaxBytes = 11
INVARIANTS SlotExclusion OutputDeterministic IndexSound FinishedComplete NoLostWakeup
PROPERTIES ImplementsStream CallsReturn FreeEndsWorkers
