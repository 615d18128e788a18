SPECIFICATION Spec
CONSTANTS
  AddressMod = 12
  StackSize = 3
  Zero = Zero
  ReadOnlyStart = 1
  ReadOnlyEnd = 2
  DataEnd = 4
  Sizes = {1, 2}
  Initial = Initial
  New = New
INVARIANTS
  StoredBytesAreKept
