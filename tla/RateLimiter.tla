----------------------------- MODULE RateLimiter -----------------------------
(***************************************************************************)
(* sec_traffic_is_request_allowed: an open-addressing table of addresses   *)
(* with a count for the current second, and the janitor that clears idle   *)
(* entries.  Every operation holds rate_limit_mutex, but a request reads   *)
(* the clock before it waits for it.                                       *)
(***************************************************************************)
EXTENDS Naturals, FiniteSets, Bags

CONSTANTS
  Addr,             (* client addresses                                     *)
  Size,             (* HASH_TABLE_SIZE                                      *)
  Home,             (* hash_ip                                              *)
  Limit,            (* limit_per_sec                                        *)
  Idle,             (* seconds after which the janitor clears an entry      *)
  Callers,          (* bound: checks that go on at one time                 *)
  LastSecond        (* bound: how far the clock runs                        *)

Slot == 0 .. Size - 1

ASSUME LimiterAssumption ==
  /\ Size \in Nat \ {0} /\ Limit \in Nat \ {0} /\ Idle \in Nat \ {0}
  /\ Callers \in Nat /\ LastSecond \in Nat
  /\ Home \in [Addr -> Slot]

VARIABLES
  table,            (* slot -> the entry as a set of at most one record     *)
  clock,            (* time(NULL)                                           *)
  call,             (* the checks that have read the clock, as a bag        *)
  passed            (* history: requests let through in the second they     *)
                    (* came in                                              *)

limiterVars == <<table, clock, call, passed>>

LimiterInit ==
  /\ table = [i \in Slot |-> {}]
  /\ clock = 0
  /\ call = EmptyBag
  /\ passed = [a \in Addr |-> 0]

(* The i-th slot that a looks at, and where the search stops. *)
Probe(a, i) == (Home[a] + i) % Size
Ends(a, i) == table[Probe(a, i)] = {} \/ \E e \in table[Probe(a, i)] : e.ip = a
Found(a) == {Probe(a, i) : i \in {i \in Slot : Ends(a, i) /\ \A j \in 0 .. i - 1 : ~Ends(a, j)}}

(* Fault: one request too many fits. *)
BelowLimitOrAt(e) == e.count <= Limit
BelowLimit(e) == e.count < Limit

(* What a check does to the entry it found, and whether it allows the      *)
(* request.  The first refusal is logged and counted, to log only once.    *)
Renewed(a, now) == [ip |-> a, count |-> 1, start |-> now]
Verdict(a, now, entry) ==
  IF entry = {} THEN [entry |-> Renewed(a, now), ok |-> TRUE]
  ELSE LET e == CHOOSE e \in entry : TRUE
       IN  IF now > e.start THEN [entry |-> Renewed(a, now), ok |-> TRUE]
           ELSE IF BelowLimit(e) THEN [entry |-> [e EXCEPT !.count = @ + 1], ok |-> TRUE]
           ELSE [entry |-> IF e.count = Limit THEN [e EXCEPT !.count = @ + 1] ELSE e,
                 ok |-> FALSE]

(* now = time(NULL), in front of the lock. *)
Call ==
  /\ BagCardinality(call) < Callers
  /\ \E a \in Addr : call' = call (+) SetToBag({[ip |-> a, now |-> clock]})
  /\ UNCHANGED <<table, clock, passed>>

(* A request counts for its second only if it is decided in it.            *)
Pass(c) == passed' = IF c.now = clock THEN [passed EXCEPT ![c.ip] = @ + 1] ELSE passed

Done(c) == call' = call (-) SetToBag({c})

Check(c) ==
  /\ Done(c)
  /\ \E i \in Found(c.ip) :
       LET v == Verdict(c.ip, c.now, table[i])
       IN  /\ table' = [table EXCEPT ![i] = {v.entry}]
           /\ IF v.ok THEN Pass(c) ELSE UNCHANGED passed
  /\ UNCHANGED clock

(* Every slot has another address: the request passes uncounted. *)
CheckFull(c) ==
  /\ Found(c.ip) = {}
  /\ Done(c)
  /\ UNCHANGED <<table, clock, passed>>

(* clean_old_rate_limits: the entries of others stay where they are.       *)
Expired(e) == clock > e.start + Idle
Clean ==
  /\ table' = [i \in Slot |-> {e \in table[i] : ~Expired(e)}]
  /\ UNCHANGED <<clock, call, passed>>

Tick ==
  /\ clock < LastSecond
  /\ clock' = clock + 1
  /\ passed' = [a \in Addr |-> 0]
  /\ UNCHANGED <<table, call>>

LimiterNext ==
  \/ Call
  \/ \E c \in BagToSet(call) : Check(c) \/ CheckFull(c)
  \/ Clean
  \/ Tick

LimiterSpec == LimiterInit /\ [][LimiterNext]_limiterVars

-----------------------------------------------------------------------------
EntriesOf(a) == {i \in Slot : \E e \in table[i] : e.ip = a}

(* In one second an address passes Limit times for each entry it has: once *)
(* the limit if no hole of the janitor has cut it off from an older entry. *)
(* What a full table lets through is not counted.                          *)
LimitKept == \A a \in Addr : passed[a] <= Limit * Cardinality(EntriesOf(a))

(* An address has one entry.  The janitor breaks it: an entry behind a     *)
(* cleared slot is not found, and the address gets a second one.           *)
OneEntry == \A a \in Addr : Cardinality(EntriesOf(a)) <= 1
=============================================================================
