\* Four lanes over four banks, two branch targets, and the pc at any word,
\* also across the end of the memory.  With pc_align half a word, lanes contest a bank.
CONSTANTS
  FeLanes = 4
  BankCnt = 4
  MemWords = 8
  IlenBytes = 2
  PcAligns = {1, 2}
  Targets = {6, 12}
  PcBytes = 16
  ResetPc = 2
  CrackLen <- MCCrackLen
  Levels = 2
  OpenMax = 2
SPECIFICATION FairSpec
INVARIANTS
  TypeOK
  RowsHoldTheirWord
PROPERTIES
  HandsOverTheProgram
  DispatchIsFed
