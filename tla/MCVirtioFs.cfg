SPECIFICATION VirtioFsSpec
CONSTANTS
  a = a
  b = b
  Names = {a, b}
  MaxObjects = 3
  MaxIds = 4
  MaxHandles = 1
  MaxMounts = 2
  Chains <- MCChains
  MaxPosted = 2
  MaxReply = 3
  NameLens <- MCNameLens
  MaxSizes = {48, 80}
  MaxChanges = 2
SYMMETRY NameSymmetry
INVARIANT TablesMatchGuest UnmovedResolve ChainsCarried ListingExact
CHECK_DEADLOCK FALSE
