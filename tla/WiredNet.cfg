SPECIFICATION WiredFairSpec
CONSTANTS
  MAX_DNS_RETRY = 2
  DNS_WAIT_TIME = 3
  DnsReplies = {"addr", "empty", "error", "long"}
INVARIANTS BlockedAtMost
PROPERTIES Connects
