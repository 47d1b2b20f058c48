SPECIFICATION Spec
CONSTANTS
  s1 = s1
  s2 = s2
  s3 = s3
  p1 = p1
  p2 = p2
  NoSchema = NoSchema
  Options <- ThreeKinds
  SchemaContents = {}
  Topics = {p1}
  CallerIds = {1}
  Times = {1}
  MaxId = 3
  OverflowChecks = FALSE
  MaxRecords = 4
  MaxMessages = 2
  MaxFaults = 1
  MaxAttachment = 1
  Api = {"write", "write_to_known_channel", "start_attachment", "put_attachment_bytes", "finish_attachment", "flush", "finish", "into_inner", "interrupt"}
CHECK_DEADLOCK FALSE
INVARIANTS
  AttachmentsExact
  NothingUncounted
PROPERTIES
  AttachmentUndisturbed
  FailedIsFinal
  ImplementsLog
