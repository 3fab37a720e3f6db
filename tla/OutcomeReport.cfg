SPECIFICATION Spec
CONSTANTS
  Contents <- Reports
  Absent = "absent"
  Torn = "torn"
INVARIANT AcknowledgedIsDurable
INVARIANT ReportIsHonest
INVARIANT DiagnosisSurvives
INVARIANT GreenHasReport
PROPERTY ImplementsRegister
CHECK_DEADLOCK FALSE
