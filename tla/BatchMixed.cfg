SPECIFICATION FairSpec
CONSTANTS
  b1 = b1
  b2 = b2
  b3 = b3
  k1 = k1
  k2 = k2
  k3 = k3
  k4 = k4
  Batches = {b1, b2, b3}
  Keys = {k1, k2}
  NoInput = NoInput
  Inputs <- MixedInputs
INVARIANTS
  KeyOnce
  AtomicWhole
  ResultsTruthful
PROPERTIES
  ImplementsContract
  EveryBatchAnswered
