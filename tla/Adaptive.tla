------------------------------- MODULE Adaptive -------------------------------
(***************************************************************************)
(* core_adaptive_init: the sizes of the worker pool, of the event batch,   *)
(* of the task queue and of the FastCGI pool, computed once at startup     *)
(* from the machine and the configuration, before anything is allocated.   *)
(*                                                                         *)
(* The arithmetic is the C program's: unsigned long and unsigned int wrap, *)
(* and a cast to int keeps the low bits.  The widths are constants, scaled *)
(* down for TLC; the limits in the formulas are those of the source.       *)
(***************************************************************************)
EXTENDS Integers, Sequences, FiniteSetsExt

CONSTANTS
  Word,             (* unsigned long is modulo Word ...                     *)
  UInt,             (* ... unsigned int modulo UInt                         *)
  Cores,            (* numbers of processors                                *)
  Ram,              (* total_ram_mb                                         *)
  FdLimit,          (* RLIMIT_NOFILE                                        *)
  FpmLines          (* the max_children lines a PHP-FPM file may have, as   *)
                    (* sequences of numbers (0: not a number)               *)

Language == {"php", "python", "rust"}

ASSUME WidthAssumption ==
  /\ Word \in Nat /\ UInt \in Nat
  /\ UInt % 2 = 0 /\ UInt >= 65536 /\ Word >= UInt

ASSUME MachineAssumption ==
  /\ Cores \subseteq Nat \ {0}
  /\ Ram \subseteq 1 .. Word - 1
  /\ FdLimit \subseteq Nat
  /\ FpmLines \subseteq Seq(Nat)

VARIABLES
  host,             (* the machine and the configuration                    *)
  sizes             (* what was computed, as a set of at most one record    *)

adaptiveVars == <<host, sizes>>

AdaptiveInit ==
  /\ host \in [cores : Cores, ram : Ram, fd : FdLimit, active : SUBSET Language,
               fpm : FpmLines]
  /\ sizes = {}

-----------------------------------------------------------------------------
ToLong(n) == n % Word
ToUInt(n) == n % UInt
ToInt(n) == ((n + UInt \div 2) % UInt) - UInt \div 2

Clamp(n, low, high) == Max({low, Min({n, high})})

(* The default memory_budget of a process, in MB. *)
Budget(l) == CASE l = "php" -> 20 [] l = "python" -> 40 [] l = "rust" -> 15

(* On less than 1 GB the difference wraps. *)
Available(ram) == ToLong(ram - Clamp(ram \div 4, 1024, 4096))

(* The share of an active backend among the active ones, in per cent.      *)
Percent(l, active) ==
  CASE active = Language -> (CASE l = "php" -> 50 [] l = "python" -> 30 [] l = "rust" -> 20)
    [] active = {"php", "python"} -> (IF l = "php" THEN 60 ELSE 40)
    [] active = {"php", "rust"} -> (IF l = "php" THEN 70 ELSE 30)
    [] active = {"python", "rust"} -> (IF l = "python" THEN 60 ELSE 40)

(* php_budget_ram and its like.  The product wraps; one backend alone has  *)
(* no product.                                                             *)
BudgetRam(l) ==
  IF l \notin host.active THEN 0
  ELSE IF host.active = {l} THEN Available(host.ram)
  ELSE ToLong(Available(host.ram) * Percent(l, host.active)) \div 100

MaxByRam(l) == ToInt(BudgetRam(l) \div Budget(l))

RamTotalMax ==
  Max({32, ToInt(MaxByRam("php") + MaxByRam("python") + MaxByRam("rust"))})

WorkerMax == Clamp(Min({host.cores * 64, RamTotalMax}), 32, 1024)

(* Fault: the minimum is not held below the ceiling. *)
WorkerMinFree == host.cores * 4
WorkerMin == Min({host.cores * 4, WorkerMax})

(* fetch_php_fpm_config: the last line with a positive number counts.      *)
MaxChildren ==
  LET good == {i \in DOMAIN host.fpm : host.fpm[i] > 0}
  IN  IF good = {} THEN 50 ELSE ToInt(host.fpm[Max(good)])

PhpQuota == IF "php" \in host.active THEN MaxChildren ELSE 0

(* sisa_jatah: the workers that php leaves. *)
Rest == Max({0, ToInt(WorkerMax - PhpQuota)})

PythonQuota ==
  IF "python" \notin host.active THEN 0
  ELSE IF "rust" \notin host.active THEN Rest
  ELSE LET ram == ToLong(BudgetRam("python") + BudgetRam("rust"))
       IN  IF ram > 0 THEN ToInt(ToLong(Rest * BudgetRam("python")) \div ram)
           ELSE Rest \div 2

RustQuota == IF "rust" \in host.active THEN ToInt(Rest - PythonQuota) ELSE 0

MaxFd == Max({64, Min({host.fd, UInt - 1})})

QueueCapacity ==
  IF MaxFd > WorkerMax
    THEN Clamp(ToUInt((MaxFd - WorkerMax) * 60) \div 100, 256, 4096)
    ELSE 256

Adapt ==
  /\ sizes = {}
  /\ sizes' = {[worker_max |-> WorkerMax, worker_min |-> WorkerMin,
                php_quota |-> PhpQuota, python_quota |-> PythonQuota,
                rust_quota |-> RustQuota,
                pool_size |-> ToInt(PhpQuota + PythonQuota + RustQuota),
                event_batch_size |-> Min({WorkerMax, 1024}),
                queue_capacity |-> QueueCapacity]}
  /\ UNCHANGED host

AdaptiveNext == Adapt

AdaptiveSpec == AdaptiveInit /\ [][AdaptiveNext]_adaptiveVars

-----------------------------------------------------------------------------
(* Whatever wraps on the way, the sizes are what the rest of the program   *)
(* takes for granted: a pool of at least one worker whose minimum is below *)
(* its ceiling, room in the queue and in the batch, quotas that are not    *)
(* negative and that the pool of connections can hold, and no more python  *)
(* and rust connections than workers.  A max_children that does not fit    *)
(* in an int is left out.                                                  *)
SizesSound ==
  \A s \in sizes :
    /\ 1 <= s.worker_min /\ s.worker_min <= s.worker_max /\ s.worker_max <= 1024
    /\ s.event_batch_size \in 1 .. 1024
    /\ s.queue_capacity \in 256 .. 4096
    /\ (\A i \in DOMAIN host.fpm : host.fpm[i] < UInt \div 2) =>
         /\ 0 <= s.php_quota /\ 0 <= s.python_quota /\ 0 <= s.rust_quota
         /\ s.pool_size = s.php_quota + s.python_quota + s.rust_quota
         /\ s.python_quota + s.rust_quota <= s.worker_max
=============================================================================
