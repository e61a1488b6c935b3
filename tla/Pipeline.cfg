SPECIFICATION PipelineSpec
CONSTANTS
  Identity = {i1}
  Provenance = {r1, r2}
  Prompt = {q1, q2}
  MaxEpoch = 1
  MaxRequests = 2
  MaxReceipts = 4
  NoPath = nopath
  NoPrompt = noprompt
  Settings <- SettingsDef
  FirstSettings <- FirstSettingsDef
  Rolls = {0}
  MaxVersions = 2
  MaxEdits = 2
  MaxStops = 1
  SourceOrder <- SourceOrderDef
  Versions <- VersionsDef
  Offsets <- OffsetsDef
  Layer2 <- Layer2Def
  Gap = 1
  MaxChanges = 2
  ChunkSamples = 2
  MaxChunks = 3
  MaxTotal = 5
  Lengths = {0, 1, 3}
  Params = {p1}
  MaxRuns = 2
  MaxUpsets = 2
  Given <- GivenDef
  InputChars = 9
  PromptBudget = 9
  MaxReductions = 2
  Template = 1
  OneDigit = 3
  MinRoom = 2
  AnswerLengths = {1, 3}
  MaxFaults = 1
  Meeting = {m1, m2}
  Scope = {s1, s2}
  Word = {w1}
  MaxEvents = 3
  i1 = i1
  r1 = r1
  r2 = r2
  q1 = q1
  q2 = q2
  nopath = nopath
  noprompt = noprompt
  m1 = m1
  m2 = m2
  s1 = s1
  s2 = s2
  w1 = w1
SYMMETRY Symmetry
INVARIANTS PipelineTypeOK DoubtIsGuarded ReceiptsAccount BundleSafe IntegrationSafe PlanSafe TextSafe CatalogSafe
PROPERTY NothingPaidTwice
CHECK_DEADLOCK FALSE
