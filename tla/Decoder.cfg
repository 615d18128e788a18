SPECIFICATION Spec
CONSTANTS
  NULL = NULL
  Undecoded = Undecoded
  Registers = {0, 9, 22, 31}
  Sources <- EveryInstruction
  Words <- EveryWord
INVARIANTS
  DecodesWhatWasAssembled
  DecodesNothingElse
  DecodesToInstructions
CHECK_DEADLOCK FALSE
