SPECIFICATION Spec
CONSTANTS
  Programs <- TimedPrograms
INVARIANTS
  SectionsClosed
  SectionsOpened
  StampedDataPersists
  LoadsFromMemory
  FencedIsPersistent
  FencedThroughout
\* A worker ends after its last instruction.
CHECK_DEADLOCK FALSE
