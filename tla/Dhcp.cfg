SPECIFICATION DhcpFairSpec
CONSTANTS
  Servers = {s1}
  Addrs = {a1, a2}
  None = None
  MAX_DHCP_RETRY = 2
  DHCP_WAIT_TIME = 1
  INFINITE_LEASETIME = 99
  LeaseTime = 4
  Roam = TRUE
  Busy = TRUE
  MaxWire = 2
  MaxRx = 1
INVARIANTS LeaseHeld
PROPERTIES GetsAddress
