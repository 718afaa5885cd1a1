CONSTANTS
  MaxLookups = 1
  Names <- MCNames
  Dotless = {}
  Local = {1}
  Cancellable = {1}
  Servers = 1
  Ids = {0, 1, 2, 3, 4}
  Pick <- MCPick
  None = none
  dns_retries = 1
  dns_max_dns_in_flight = 9
  dns_failover_number = 1
  Domains = 0
  dns_validate_qname = TRUE
  RoundRobin = {FALSE}
  TxnTimeouts = {FALSE}
  MaxFaults = 1
  MaxNet = 2
SPECIFICATION FairSpec
PROPERTY AllAnswered
