SPECIFICATION MCSpec
CONSTANTS
  LineSize <- MCLineSize
  MaxSize = 2
  MaxFiles = 2
  MayFail = TRUE
  DebugFile = {"physics.txt"}
  OwnName = {"rotating", "pdebug"}
  LevelSet = {5}
  Thread = {1, 2}
  Statements <- MCStatements
  Threshold = 3
  MaxStatements = 2
  InlineSize = 6
  MaxPackedArgs = 2
  FormatString <- MCFormatString
  ArgLists <- MCArgLists
INVARIANTS
  RotationKeepsNewest
  DebugFileIsNewOrGoesOn
  LoggerIsThere
  FieldsShowWhatTheyName
  FieldsAreWhole
  LinesSortByTime
  MessagesAreWhole
CHECK_DEADLOCK FALSE
