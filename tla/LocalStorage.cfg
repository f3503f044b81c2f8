SPECIFICATION Spec
CONSTANTS
  MaxBlocks = 4
  Small = small
  Large = large
  Values <- MCValues
  ValueChunks <- MCValueChunks
  Names = {inbox}
  DirChunks <- MCDirChunks
  Tags = {message}
  DirTag = directory
  NoData = noData
INVARIANTS Integrity
PROPERTIES NothingLeaks ImplementsRecordStore
CHECK_DEADLOCK FALSE
