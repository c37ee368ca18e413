SPECIFICATION Spec
CONSTANTS
  php = php
  rust = rust
  t1 = t1
  t2 = t2
  Thread = {t1, t2}
  Node <- TwoNodes
  Configured <- TwoNodes
  Address <- UnixAddress
  Port <- UnixPort
  Group <- TwoGroups
  Quota <- Quotas
  PoolSize = 2
  Fd = {f1, f2, f3}
  NoFd = NoFd
  Protocols <- Http1Only
  Bodies = {0, 1}
  Attempts = 3
  Faults = {"pieces"}
  MaxRequest = 3
CHECK_DEADLOCK FALSE
SYMMETRY Same
PROPERTIES Patient NeverEmpty
