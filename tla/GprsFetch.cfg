SPECIFICATION FairSpec
CONSTANTS
  use_dns = 1
  FetchModes = {"2"}
PROPERTIES DataFetched
