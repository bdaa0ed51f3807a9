CONSTANTS
  i1 = i1
  i2 = i2
  Id = {i1}
  Menus <- AnyMenu
  BufferLimit = 3
  BatchLimit = 1
  MaxWrites = 2
CHECK_DEADLOCK FALSE
SPECIFICATION FollowLiveSpec
PROPERTIES
  GoneRowsLeave
  Syncs
  EndsOnceTold
