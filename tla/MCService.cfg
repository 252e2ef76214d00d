SPECIFICATION Spec
CONSTANTS
  None = None
  Junk = Junk
  Unreadable = Unreadable
  Blank = Blank
  Unparsed = Unparsed
  Empty = Empty
  NoSchema = NoSchema
  UsersInFile = TRUE
  UsersVariable = None
  TrustedProxies <- Proxies
  DefaultProxies <- Proxies
  Addresses <- Hosts
  Requests = {r1, r2}
  Inputs <- Traffic
  Targets <- ThreeTargets
  DefaultTarget = "chinook"
  ConfiguredTargets <- Served
  Configurations <- UserMaps
  FirstConfiguration <- OldSecret
  Catalogues <- Schemas
  FirstCatalogue <- Deployed
  Statements <- Written
  Holds <- Databases2
  LoopEndings = {"rate_limited"}
  Ceilings = {"global_daily_limit"}
  Errors = {"timeout"}
  MaxRows = 3
  HealthQuery <- Health
  CatalogueQuery <- Listing
  MaxRotations = 1
  MaxMigrations = 1
SYMMETRY Symmetry
INVARIANTS TypeOK RevokedSecretsDie RepliesComeFromTheirTarget
  WritesStopAtTheValidator OnlyNumericChangesTheShape
