CONSTANTS
  GPR = {"RAX", "RCX", "RSP"}
  Modulus <- MCModulus
  XorWord <- MCXorWord
  Slot = 1
  Streams <- MCStreams
  CPUs <- MCCPUs

SPECIFICATION Spec

CHECK_DEADLOCK FALSE

INVARIANTS
  TypeOK
  EmittedMeansIR
  PairsWhole
  MemoryOperatorConfined

PROPERTY
  CompletesOrThrows
