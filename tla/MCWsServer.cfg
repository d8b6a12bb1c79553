CONSTANTS
  Sessions = {s1, s2}
  None = None
  MaxBacklog = 1
SPECIFICATION Spec
SYMMETRY Symmetry
INVARIANTS
  TypeOK
  NoUseAfterFree
  NoDanglingRegistry
  AnnouncedBeforeClosed
  NoSessionLeaked
  OpenIsBinary
PROPERTIES
  NeverReopened
  ImplementsRegistry
