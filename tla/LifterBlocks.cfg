CONSTANTS
  GPR = {"RAX", "RCX", "RSP"}
  Modulus <- MCModulus
  XorWord <- MCXorWord
  Slot = 1
  AddrSize = 1
  Insns <- MCInsns
  UnionReads <- MCUnionReads
  MaxInsns = 3
  MaxLifts = 2
  CPUs <- MCCPUs

SPECIFICATION Spec

CHECK_DEADLOCK FALSE

INVARIANTS
  TypeOK
  SingleAssignment
  ReadsSeeReachingDef
  OperatesInPlace
  DataPreserved
  JumpDecided
