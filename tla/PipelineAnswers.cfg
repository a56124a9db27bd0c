CONSTANTS
  GPR = {"RAX", "RCX", "RSP"}
  Modulus <- MCModulus
  XorWord <- MCXorWord
  Slot = 1
  AddrSize = 1
  Insns <- MCInsns
  UnionReads = {0}
  MaxInsns = 2
  MaxLifts = 2
  CPUs <- MCCPUs

SPECIFICATION PipelineSpec

CHECK_DEADLOCK FALSE

PROPERTIES
  BlockAnswered
  TranslatesBlocks
