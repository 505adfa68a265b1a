CONSTANTS
  t1 = t1 ip1 = ip1 ip2 = ip2
  Terminals = {t1}
  Ips = {ip1, ip2}
  FIFO_SIZE = 1
  MAX_PEERS = 2
  Confs <- Files
  MaxConns = 2
  MaxSignals = 2
  MaxRuns = 2
SPECIFICATION FairSpec
INVARIANTS CleanAbsence FirstLoadIsSafe ReloadIsClean PeersAreConfigured 
PROPERTIES ScriptEnds  DaemonStops
CHECK_DEADLOCK FALSE
