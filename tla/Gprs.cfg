SPECIFICATION FairSpec
CONSTANTS
  use_dns = 1
  FetchModes = {"2", "3"}
INVARIANTS
  TypeOK
PROPERTIES
  NameGivenUp
  GetsOnline
