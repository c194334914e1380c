SPECIFICATION Spec
CONSTANTS
  Paths <- MCPaths
  QVerisPaths <- MCQVeris
  Markets <- MCMarkets
  Latency <- MCLatency
  ReleaseOf <- MCReleaseOf
  RegistryOf <- MCRegistry
  Supplement = {"twelve"}
  PricesOf <- MCPrices
  InputOf <- MCInput
  ProfileOf <- MCProfile
  SamplePath = "hangseng"
  US = "US"
  CN = "CN"
  AlphaVantage = "alpha"
  TwelveData = "twelve"
  EODHD = "eodhd"
  Massive = "massive"
  Scenarios <- MCScenarios
  EditsOf <- MCEditsOf
  MaxIncidents = 2
INVARIANTS
  SamplePassedMeansEveryRound
CHECK_DEADLOCK FALSE
