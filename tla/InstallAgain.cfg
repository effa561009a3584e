\* One agent, onboarded twice.
SPECIFICATION InstallSpec
CONSTANTS
  Parts = {"onboard"}
  Programs <- SomePrograms
  ArgTokens <- SomeArgTokens
  ShapeFlags = {"--format"}
  NoFlag = NoFlag
  NoValue = NoValue
  MaxTokens = 3
  Scripts <- SomeScripts
  PipeSize = 2
  ChunkSize = 2
  Caps = {0, 2, 5, 6}
  Users = {u1, u2}
  Keys = {k1, k2}
  NoKey = NoKey
  TornKey = TornKey
  Raws = {r1, r2}
  NoRaw = NoRaw
  MaxKills = 1
  claude = claude
  aider = aider
  b1 = b1
  prefix = prefix
  blank = blank
  broken = broken
  closed = closed
  AgentOrder <- OneJson
  Wrapped = {}
  Binaries = {b1}
  Prefix = prefix
  Texts = {blank, broken, closed}
  Blank = blank
  Broken = {broken}
  Closed = {closed}
  NoFile = NoFile
  NoBackup = NoBackup
  MaxMoves = 3
  RawWord = "NID_RAW=1"
  NidWords = {"nid", "nid --shadow", "/opt/nid"}
  Nid = "nid"
  NidShadow = "nid --shadow"
  Builtins = {"cd"}
  Plumbing = {"cat >"}
  OtherWords = {"pytest"}
  Commands <- SomeCommands
  MaxPasses = 3
  MaxToggles = 3
  Updaters = {p1, p2}
  ka = ka
  kb = kb
  kc = kc
  ReleaseKeys = {ka, kb, kc}
  Anchor = ka
  Releases <- SomeReleases
  Original = Original
  TornBinary = TornBinary
  NoBinary = NoBinary
  NoRelease = NoRelease
  MaxHops = 2
  MaxUpdateKills = 1
  Importers = {i1, i2}
  s1 = s1
  s2 = s2
  f1 = f1
  Signers = {s1, s2}
  Fingerprints = {f1}
  Nobody = Nobody
  Tarballs <- SomeTarballs
  MaxRows = 2
CHECK_DEADLOCK FALSE
PROPERTY
  UninstallRestores
