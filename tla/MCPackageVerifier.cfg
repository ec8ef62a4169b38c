CONSTANTS
  N = 3
  Packages <- MCPackages
  Requests <- MCRequests
  Runs = {r1, r2}
  Jobs = 2
SPECIFICATION Spec
INVARIANTS TypeOK VerdictsAreExact ReportIsTrue RetainedExactly NoInternalError
PROPERTIES VerificationEnds
CHECK_DEADLOCK FALSE
