CONSTANTS
  Units = {"hash", "lsu", "dma", "kvs", "switch", "chain"}
  HLens = {4, 8}
  MoveSizes = {4}
  None = None
  Word = {WordA, WordB}
  NoWord = NoWord
  Zero = Zero
  Depth = 2
SPECIFICATION SyscSpec
INVARIANTS HashExact LsuExact DmaExact KvsLookupsExact SwitchNothingLost
PROPERTIES ChainIsQueue AllServed
CHECK_DEADLOCK FALSE
