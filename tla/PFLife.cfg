SPECIFICATION MCSpec
CONSTANTS
  Moves <- MCMoves
  Sites <- MCSites
  Journeys <- MCJourneys
  Passages <- MCPassages
  Targets = {1, 2}
  Jobs = {1, 2}
  Admins = {"x", "y"}
  Releasings <- MCReleasings
  Requesters = {"m1", "m2"}
  Points = {"p1", "p2"}
  Instances = {1, 2}
  Admissions <- MCAdmissions
  MaxRows = 4
  Policies <- MCPolicies
  Span <- MCSpan
  Outage = 2
  Edits = 1
  Enrolments <- MCEnrolments
  Contexts = {"c1", "c2"}
  Executors = {1, 2}
  UploadTTL = 1
  TaskLease = 2
  LastTime = 3
  Ada = Ada
  Bob = Bob
  Acme = Acme
  Emails = {Ada, Bob}
  Orgs = {Acme}
  Links = {1, 2}
  None = None
  Root = Root
  Growths <- MCGrowths
CHECK_DEADLOCK FALSE
INVARIANTS
  
  HandoverSafety
  
  AdmissionSafety
  
  EnrolmentSafety
  OrganizationSafety
PROPERTIES
  PlatformStepsAreSafe
  HandoverEnds
  
