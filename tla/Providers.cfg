SPECIFICATION Spec
CONSTANTS
  Connection = {c1}
  KeyValue = {k1}
  MaxRequests = 3
  Task = {t1, t2}
  None = none
  MaxLeases = 3
  MaxFaults = 1
  MaxBoots = 2
  Version = {v1}
  NoVersion = noversion
  MaxSetups = 2
  MaxServers = 2
  MaxSlips = 1
  Call = {a1}
  Image = img
  MaxEpochs = 2
  MaxMishaps = 2
  MaxTurns = 1
  MaxFailures = 1
  Request = {x1}
  Kinds = {"models", "minutes", "ollama", "compatible", "probe", "audio"}
  DnsSlots = 1
  MaxBreakdowns = 1
  MaxAsked = 2
INVARIANTS RegistrySafe RuntimeSafe ClaudeSafe CodexSafe ExchangeSafe
PROPERTY ProvidersSettle
CHECK_DEADLOCK FALSE
