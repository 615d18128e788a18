SPECIFICATION Spec
CONSTANTS
  AddressMod = 10
  StackSize = 5
  Zero = Zero
  ReadOnlyStart = 1
  ReadOnlyEnd = 3
  DataEnd = 3
  Sizes = {1, 2}
  Initial = Initial
  New = New
INVARIANTS
  StackIsKept
  DataIsStoredUnlessCut
  ReadOnlyIsKeptOutOfReach
