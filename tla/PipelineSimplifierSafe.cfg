CONSTANTS
  GPR = {"RAX", "RCX", "RSP"}
  Modulus <- MCModulus
  XorWord <- MCXorWord
  Slot = 1
  AddrSize = 1
  Insns <- FlagInsns
  UnionReads = {0}
  MaxInsns = 3
  MaxLifts = 1
  CPUs <- MCCPUs

SPECIFICATION PipelineSpec

CHECK_DEADLOCK FALSE

INVARIANT
  SimplifierIsSafe
