SPECIFICATION Spec
CONSTANTS
  s1 = s1
  s2 = s2
  s3 = s3
  p1 = p1
  p2 = p2
  NoSchema = NoSchema
  Options <- StreamKinds
  SchemaContents = {}
  Topics = {p1, p2}
  CallerIds = {1, 2}
  Times = {1, 2}
  MaxId = 3
  OverflowChecks = FALSE
  MaxRecords = 5
  MaxMessages = 2
  MaxFaults = 0
  MaxAttachment = 0
  Api = {"add_channel", "write_to_known_channel", "attach", "write_metadata", "finish"}
CHECK_DEADLOCK FALSE
INVARIANTS
  FileDescribesItself
  NoSeekWhenDisabled
PROPERTIES
  CompleteIsFinal
  OkMeansWritten
