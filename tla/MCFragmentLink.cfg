CONSTANTS
  a = a
  b = b
  c = c
  Instructions = {a, b, c}
  PayloadLen <- Lengths
  InflatedLen <- InflatedLengths
  FRAG_HEADER_LEN = 1
  MAX_FRAGMENT_INDEX = 2
  ASSEMBLY_LIMIT = 4
  DECOMPRESS_LIMIT = 5
  Mtus = {2, 3, 4}
  Strays <- ForeignFragments
  MaxId = 2
SPECIFICATION FragmentSpec
CHECK_DEADLOCK FALSE
INVARIANTS AssembledAsSent NeverWedged ArrivedIsCount FreshIdRecovers
