SPECIFICATION DriverSpec
CONSTANTS
  use_dns = 1
  ErrorCountSize = 256
INVARIANTS SlotConserved
PROPERTIES NameGivenUp GetsOnline
