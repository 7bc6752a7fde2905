CONSTANTS
  Objects = {o1, o2, o3}
  Tags = {guestRes, hostRes}
  GuestDtorTags = {guestRes}
  HostDtorTags = {hostRes}
  Tasks = {t1}
  Subtasks = {s1}
  MaxHandle = 2
  MaxFrames = 3
  MaxArgs = 1
  MaxLends = 2
  NoObject = NoObject
  NoTask = NoTask
  NoSubtask = NoSubtask
  NoTag = NoTag
SYMMETRY ObjectSymmetry
SPECIFICATION Spec
INVARIANTS
  TypeOK
  HandlesPartitioned
  BorrowsCounted
  BorrowsEndWithTask
  LendsCovered
PROPERTIES
  DropResourceRemovesWhatItValidated
  GrowsOnlyWhenFull
  RefinesHandleMap
CHECK_DEADLOCK FALSE
