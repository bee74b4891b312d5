SPECIFICATION DeclSpec
CONSTANTS
  MaxItems = 2
  MaxCapacity = 3
  Decls <- MCDecls
  Mounts <- MCUnitMounts
  Chosen <- MCChosen
INVARIANT OneRState
