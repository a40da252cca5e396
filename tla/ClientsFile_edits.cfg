SPECIFICATION Spec
CONSTANTS
  Tool = {t1, t2}
  Id = {"app", "job", "a b"}
  BadId = "a b"
  Audience = {"app", "job", "a b"}
  Role = {"user"}
  Username = {"alice", " bob"}
  BadName = " bob"
  Absent = Absent
  AddForms <- MCAddForms
  Changes <- MCChanges
  InitialFiles <- MCInitialFiles
  MaxRuns = 3
  MaxCrashes = 1
  MaxWarnings = 1
INVARIANTS ToolInv LoadedSound
PROPERTIES FileStaysReadable OneEntryPerCommand
CHECK_DEADLOCK FALSE
SYMMETRY ToolSymmetry
