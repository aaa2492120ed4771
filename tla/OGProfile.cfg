SPECIFICATION OrganizationsSpec
CONSTANTS
  Ada = Ada
  Bob = Bob
  Emails = {Ada, Bob}
  Acme = Acme
  Orgs = {Acme}
  Links = {1}
  None = None
  Root = Root
  Growths <- MCProfileGrowths
CHECK_DEADLOCK FALSE
INVARIANTS
  LastAdministratorStays
