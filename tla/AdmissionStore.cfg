SPECIFICATION MCSpec
CONSTANTS
  Workers = {w1, w2}
  Deps = {src, old, new}
  Keys = {{src, old}, {src, new}}
  RetryCap = 2
  MaxCrashes = 2
  Nobody = Nobody
  NoKey = NoKey
  NoDep = NoDep
  Sources = {1, 2}
  Pages = {"p", "q"}
  PageOf <- PageOfSource
  Size <- SizeOf
  Chunk = 2
  MaxSource = 4
  ByteCap = 9
  HopCap = 4
  MaxRedirects = 1
  MaxDeaths = 2
  Count = 2
  Snapshots = {1, 2}
  FileOf <- Files
  Digital <- DigitalPages
  Scanned <- ScannedPages
  Unsupported = {"b"}
  OcrLimit = 2
  Every = 1
  MaxSessions = 2
  Assets = {1}
  Tracked = {1, 2}
  JobOwned = {}
  Legacy = {6}
  Samples = {2}
  Pins = {3}
  Decisions = {4}
  Resolver = {}
  Manifests = {5, 14}
  Entries <- EntriesOf
  Roots <- SafeRoots
  At <- Located
  Want <- WantOf
  Digests = {"d", "e"}
  Usual = "d"
  MaxOdd = 2
  MaxChanges = 1
  Mentions <- MentionsOf
  Documents <- DocumentSets
  LegacyRecords = {"l1", "l2"}
  LegacyAbout <- LegacyAboutOf
  MaxRuns = 2
  MaxEvents = 2
INVARIANTS
  CommitIntact
  ReadSound
  AdmittedSound
  ExtractionSound
  AuditSound
PROPERTY ImplementsCommitments
SYMMETRY StoreSymmetry
CHECK_DEADLOCK FALSE
