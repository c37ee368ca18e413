------------------------------ MODULE MCFcgiPool ------------------------------
(* Small instances of FcgiPool.                                             *)
EXTENDS FcgiPoolProps, TLC

CONSTANTS php, rust, t1, t2

TwoNodes == {php, rust}

(* Two Unix sockets.                                                        *)
UnixAddress == [n \in TwoNodes |-> IF n = php THEN "php.sock" ELSE "rust.sock"]
UnixPort    == [n \in TwoNodes |-> 0]
TwoGroups   == [n \in TwoNodes |-> IF n = php THEN 0 ELSE 1]

(* The configuration the repository ships: one IP, a port for each group.   *)
LocalAddress == [n \in TwoNodes |-> "127.0.0.1"]
LocalPort    == [n \in TwoNodes |-> IF n = php THEN 9000 ELSE 9010]

(* Its example of PHP on two machines: two IPs, one port.                   *)
FarAddress == [n \in TwoNodes |-> IF n = php THEN "192.168.1.10" ELSE "192.168.1.11"]
FarPort    == [n \in TwoNodes |-> 9000]
OneGroup   == [n \in TwoNodes |-> 0]

(* One PHP backend.                                                         *)
OneNode     == {php}
OneAddress  == [n \in OneNode |-> "php.sock"]
OnePort     == [n \in OneNode |-> 0]
OnePhp      == [n \in OneNode |-> 0]

Quotas == [b \in Backend |-> IF b = 2 THEN 0 ELSE 1]
PhpQuota == [b \in Backend |-> IF b = 0 THEN 1 ELSE 0]
WideQuotas == [b \in Backend |-> 2]

(* The protocols of the requests.                                           *)
Http1Only == [t \in {t1, t2} |-> {"http1"}]
OneOfEach == [t \in {t1, t2} |-> IF t = t1 THEN {"http1"} ELSE {"http2"}]
Mixed     == [t \in {t1, t2} |-> {"http1", "http2"}]

Same == Permutations({t1, t2})
=============================================================================
