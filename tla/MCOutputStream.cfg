SPECIFICATION FairSpec
CONSTANTS
  p = p
  q = q
  Streams <- MCStreams
  Leaves = {k1, k2}
  Collection = Collection
  Manager = Manager
  None = None
  BUF_SIZE = 1
  MaxNames = 2
  MaxChars <- MCMaxChars
  MaxChanges = 2
INVARIANTS TypeOK NothingLost OnceInOrder MembersAgree
PROPERTIES CallsReturn
CHECK_DEADLOCK FALSE
