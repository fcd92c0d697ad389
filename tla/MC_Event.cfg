CONSTANTS
  MaxSends = 8

SPECIFICATION Spec

INVARIANTS
  TypeOK
  NoNullTuple
  NoLeak

PROPERTIES
  ImplementsSession
