\* A body of two chunks takes a turn more than Attempts leaves, although the
\* backends are prompt; with Faults = {"slow"} a slow backend does the same.
SPECIFICATION Spec
CONSTANTS
  php = php
  rust = rust
  t1 = t1
  t2 = t2
  Thread = {t1, t2}
  Node <- TwoNodes
  Configured <- TwoNodes
  Address <- UnixAddress
  Port <- UnixPort
  Group <- TwoGroups
  Quota <- Quotas
  PoolSize = 2
  Fd = {f1, f2, f3}
  NoFd = NoFd
  Protocols <- Http1Only
  Bodies = {0, 2}
  Attempts = 3
  Faults = {}
  MaxRequest = 3
CHECK_DEADLOCK FALSE
SYMMETRY Same
INVARIANT AnswerOwn
