SPECIFICATION Spec
CONSTANTS
  s1 = s1
  s2 = s2
  s3 = s3
  p1 = p1
  p2 = p2
  NoSchema = NoSchema
  Options <- DefaultOnly
  SchemaContents = {s1, s2}
  Topics = {p1}
  CallerIds = {1, 2}
  Times = {1}
  MaxId = 2
  OverflowChecks = FALSE
  MaxRecords = 5
  MaxMessages = 3
  MaxFaults = 0
  MaxAttachment = 1
  Api = {"add_schema", "add_channel", "write", "write_to_known_channel", "write_private_record"}
CHECK_DEADLOCK FALSE
INVARIANTS
  TypeOK
  RegistriesConsistent
  IdsResolve
PROPERTIES
  IdsKeepMeaning
  ClashesRefused
