SPECIFICATION Spec
CONSTANTS
  Tool = {t1}
  Id = {"app", "job", "a b"}
  BadId = "a b"
  Audience = {"app", "job", "a b"}
  Role = {"user", "boss"}
  Username = {"alice", " bob"}
  BadName = " bob"
  Absent = Absent
  AddForms <- MCAddForms
  Changes <- MCChanges
  InitialFiles <- RolesOnly
  MaxRuns = 2
  MaxCrashes = 0
  MaxWarnings = 0
INVARIANT RolesDeclared
CHECK_DEADLOCK FALSE
