SPECIFICATION Spec
CONSTANTS
  AddressMod = 512
  StackSize = 224
  Zero <- NoByte
  Inputs <- FilesAndNames
INVARIANTS
  PushesSucceed
  SegmentsAreInPlace
  ProtectionFollowsTheHeaders
  StackIsAsPromised
