\* Two starts of the program on up to two hosts, two attempts for each step.
CONSTANTS
  h1 = h1
  h2 = h2
  NoStep = NoStep
  NoPhase = NoPhase
  Hosts <- MCHosts
  Steps = {"05", "18", "10", "12", "0b", "26b", "99"}
  MaxRetries = 2
  ChecksFirst = {"05", "18", "10", "12", "26b"}
  NeedsHosts = {"0b"}
  Verified = {"05", "18", "10"}
  Phases = {3, 4, 7}
  PhaseSteps <- MCPhaseSteps
  FullPhases <- MCFullPhases
  Registered = {"05", "18", "10", "12", "0b", "99"}
  Optional = {}
  CanSkip = {"05", "12", "0b"}
  FinalStep = "99"
  Requests <- MCRequests
  PreConfigured <- MCPreConfigured
  MaxRuns = 2
SPECIFICATION FairSpec
INVARIANTS
  TypeOK
  VerifiedResult
  SuccessIsEarned
  FailureGate
  OnlyEmptyClusterRaises
  ReportTruthful
PROPERTIES
  ImplementsContract
  Terminates
