\* Both descriptions; the shipped machines of two lanes with every word.
CONSTANTS
  Machines <- MCMachines
  Thorough <- MCThorough
  Registers <- TwoRegisters
  Leftovers = {"BGEU", "SW", "EXT", "MUL"}
SPECIFICATION Spec
INVARIANTS
  OneReadingPerWord
  DecodeInvertsAssembly
  RoutedWhereItRuns
