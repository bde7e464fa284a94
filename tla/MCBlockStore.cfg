CONSTANTS
  Class <- const_Class
  MaxBlocks <- const_MaxBlocks
  Data = Data

SPECIFICATION Spec

INVARIANTS
  TypeOK
  FreeListsSound
  BlocksAccounted
  HeadsAgree

PROPERTY
  ImplementsPool
