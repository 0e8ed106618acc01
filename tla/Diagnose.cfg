SPECIFICATION Spec
CONSTANTS
    kMaxBodyBytes = 16
    kMaxDiagnosisBodyBytes = 22
    MaxName = 2
    MaxDescription = 8
INVARIANTS  SteadyUnitIsDiagnosed
CHECK_DEADLOCK FALSE
