\* One node with a quota of 1; connections die, stall and are forgotten, so
\* slots leak and requests pass both quota checks together.  No symmetry.
SPECIFICATION FairSpec
CONSTANTS
  php = php
  rust = rust
  t1 = t1
  t2 = t2
  Thread = {t1, t2}
  Node <- OneNode
  Configured <- OneNode
  Address <- OneAddress
  Port <- OnePort
  Group <- OnePhp
  Quota <- PhpQuota
  PoolSize = 3
  Fd = {f1, f2}
  NoFd = NoFd
  Protocols <- OneOfEach
  Bodies = {0}
  Attempts = 2
  Faults = {"died", "slow", "stalled", "pieces", "gone"}
  MaxRequest = 3
CHECK_DEADLOCK FALSE
INVARIANTS TypeOK OverQuota
PROPERTY Ends
