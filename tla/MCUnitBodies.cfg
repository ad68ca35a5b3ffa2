\* Words of eight bits, so that a byte has two and a half four.  A jump keeps the
\* top three bits of the pc, and the pcs lie at the ends of such a region.
CONSTANTS
  XLen = 8
  IlenBytes = 4
  FieldAt = 4
  RegionBits = 3
  Operands <- EdgeWords
  Places <- EdgePlaces
  Pcs <- EdgePcs
SPECIFICATION Spec
INVARIANTS
  ResultsAreTheManuals
  WritesWhatItBooked
  BranchesGoRight
  WordsAreBytes
