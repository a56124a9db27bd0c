CONSTANTS
  GPR = {"RAX", "RCX", "RSP"}
  Modulus <- MCModulus
  XorWord <- MCXorWord
  Slot = 1
  Streams <- MCStreams
  MaxDepth = 12
  Envs <- MCEnvs

SPECIFICATION Spec

CHECK_DEADLOCK FALSE

INVARIANT
  LastValueWithNeg
