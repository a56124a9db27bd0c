CONSTANTS
  GPR = {"RAX", "RCX", "RSP"}
  Modulus <- MCModulus
  XorWord <- MCXorWord
  Slot = 1
  Blocks <- MCBlocks
  MaxPasses = 2
  Envs <- MCEnvs

SPECIFICATION Spec

CHECK_DEADLOCK FALSE

INVARIANTS
  TypeOK
  ReadsShrink
  MeaningPreserved

PROPERTY
  OnePassSuffices
