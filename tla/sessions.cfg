SPECIFICATION Spec
CONSTANTS
  c1 = c1
  c2 = c2
  Copies = {c1, c2}
  Controls = {c1}
  First = c1
  Policies <- NewPolicies
  ChunkSize = 2
  MaxMessages = 2
  MaxArchived = 3
  MaxErasures = 1
  None = none
VIEW NamedOnly
CONSTRAINT Followed
INVARIANTS TypeOK ArchiveIsWhole ArchivedExactlyOnce
CHECK_DEADLOCK FALSE
