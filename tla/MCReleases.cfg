SPECIFICATION ReleasesSpec
CONSTANTS
  u1 = u1
  u2 = u2
\* Two processes deploy, each at most twice, with two hooks for every phase.
  Swappers = {u1, u2}
  First = "r0"
  NoLink = "none"
  Hooks = 2
  MaxCalls = 2
\* Two installers of different releases over one whose first file anybody writes.
  Installers = {"i1", "i2"}
  Existing <- InstalledIndex
  Target <- TargetIndexes
  PayloadData <- PayloadFiles
  Data = {1, 2}
  LooseModes = {1}
  Inodes = {1, 2, 3, 4, 5, 6, 7, 8, 9}
  MaxWrites = 1
\* Two operators advance the epoch while the daemon samples and saves.
  Setters = {u1, u2}
  NoOne = "noone"
  Epochs = {1, 2}
  HybridEpoch = 2
  Times = {1, 2}
  Threshold = 0
  SavePeriod = 2
  FirstFiles = {"record", "none"}
  MaxClock = 2
  MaxLosses = 1
\* Two applications with an arpm for each and a third, one more than the
\* registry has room for; one control connection; version 3 is no package, but
\* its checksum is the one of the registry.
  Apps = {u1, u2, "spare"}
  Versions = {1, 3}
  Headerless = 3
  FirstVersion = 1
  OwnVersions = {1}
  Sha <- Admitted
  Arpms = {u1, u2}
  Serves <- ServedBy
  Conns = {"c"}
  MaxApps = 2
  MaxCommands = 2
  MaxSeconds = 1
\* Certificates that expire, one signing, one further ceremony.
  Validities = {1, 6}
  TimeSpace = 8
  Skew = 1
  Payloads = {1}
  Damages = {2}
  Levels = {"unset"}
  NodeProfiles = {"edge", "enterprise", "sovereign"}
  PackageProfiles = {"enterprise"}
  Delivered <- DeliveredPackages
  Installed <- InstalledPackages
  FirstUntil <- Expiry
  Issued = 1
  Expires = 2
  SigningKeys = {"leaf"}
  MaxKeys = 5
  MaxTime = 3
  MaxSigns = 1
\* Two savers and a reader of the vault.
  Savers = {u1, u2}
  Readers = {"r"}
  Texts <- StoredTexts
  NoApp = "noapp"
  Requests <- SecretRequests
  DefaultIters = 3
  MaxSaves = 3
SYMMETRY Interchangeable
INVARIANTS
  TargetIsRelease
  
  
  RunsOnlyRegistered
  CertifiedContentOnly
  
  DeliversOneStore
PROPERTIES
  ExistingUntouched
CHECK_DEADLOCK FALSE
