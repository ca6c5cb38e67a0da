SPECIFICATION Spec
CONSTANTS
  Programs <- OverwritePrograms
INVARIANTS
  SectionsClosed
CHECK_DEADLOCK FALSE
