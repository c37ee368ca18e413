------------------------------ MODULE Background ------------------------------
(***************************************************************************)
(* The threads beside the workers, and the end of main: the asynchronous   *)
(* logger with its queue, the telemetry monitor, the janitor of the rate   *)
(* limiter, and the cleanup sequence that stops them in order.             *)
(*                                                                         *)
(* The logger and the monitor sleep on one condition variable, and a line  *)
(* signals one of them.  Lines are told apart only as far as the properties *)
(* need it: one line of any writer is watched as "first", main's last line *)
(* is "bye", the others are alike, so their number needs no bound.         *)
(***************************************************************************)
EXTENDS SignalStop, SequencesExt

CONSTANT MaxLog       (* MAX_LOG_QUEUE                                      *)

(* With a queue of one line, a line whose signal woke the monitor would    *)
(* stay: the monitor's own line is dropped without a signal.               *)
ASSUME MaxLogAssumption == MaxLog \in Nat /\ MaxLog > 1

VARIABLES
  log,              (* global_log_queue                                     *)
  held,             (* the line the logger has taken, as a sequence         *)
  file,             (* the watched lines in the file                        *)
  accepted,         (* history: the watched lines that entered the queue    *)
  bg,               (* where the logger, the monitor and the janitor are    *)
  log_keep_running,
  janitor_running,
  fin               (* how far main's cleanup sequence is                   *)

lines  == <<log, held, file, accepted>>
bgVars == <<lines, bg, log_keep_running, janitor_running, fin>>
allVars == <<vars, bgVars>>

(* The watched lines of a sequence, in order. *)
Watched(s) ==
  LET upTo[i \in 0 .. Len(s)] ==
        IF i = 0 THEN <<>>
        ELSE IF s[i] = "other" THEN upTo[i - 1]
        ELSE Append(upTo[i - 1], s[i])
  IN  upTo[Len(s)]

(* telemetry_enabled and rate_limit_enabled decide which threads exist.    *)
BgInit ==
  /\ log = <<>> /\ held = <<>> /\ file = <<>> /\ accepted = <<>>
  /\ \E m, j \in {"awake", "gone"} :
       /\ bg = [logger |-> "awake", monitor |-> m, janitor |-> j]
       /\ janitor_running = (j = "awake")
  /\ log_keep_running = TRUE
  /\ fin = "pool"

(* pthread_cond_signal: one of the threads asleep on the queue, if any.    *)
CondSignal(b) ==
  LET asleep == {x \in {"logger", "monitor"} : b[x] = "asleep"}
  IN  IF asleep = {} THEN {b} ELSE {[b EXCEPT ![x] = "awake"] : x \in asleep}

(* Fault: a line signals only when the queue was empty. *)
SignalIfEmpty(b) == IF log = <<>> THEN CondSignal(b) ELSE {b}

LineSignals(b) == CondSignal(b)

(* A full queue drops the line.  b: what the writer leaves in bg.          *)
Enqueue(l, b) ==
  IF Len(log) < MaxLog
    THEN /\ log' = Append(log, l)
         /\ accepted' = accepted \o Watched(<<l>>)
         /\ bg' \in LineSignals(b)
    ELSE bg' = b /\ UNCHANGED <<log, accepted>>

Line == {"other"} \cup ({"first"} \ ToSet(accepted))

WriteLog(b) == /\ \E l \in Line : Enqueue(l, b)
               /\ UNCHANGED <<held, file>>

(* A thread logs while it serves a connection, and a worker that leaves    *)
(* because the load subsided does so with the queue locked.                *)
ThreadLogs(t) ==
  /\ \/ Top(t) \in {"run", "serve"}
     \/ t \in Worker /\ Top(t) = "locked"
  /\ WriteLog(bg)
  /\ UNCHANGED <<vars, log_keep_running, janitor_running, fin>>

-----------------------------------------------------------------------------
(* Fault: the logger leaves as soon as it is told to stop. *)
FinishedEarly == ~log_keep_running

(* The logger leaves only when it is told to stop and the queue is empty.  *)
Finished == log = <<>> /\ ~log_keep_running

LoggerTakes ==
  /\ bg.logger = "awake"
  /\ IF Finished
       THEN bg' = [bg EXCEPT !.logger = "gone"] /\ UNCHANGED <<log, held>>
     ELSE IF log = <<>>
       THEN bg' = [bg EXCEPT !.logger = "asleep"] /\ UNCHANGED <<log, held>>
     ELSE /\ held' = <<Head(log)>>
          /\ log' = Tail(log)
          /\ bg' = [bg EXCEPT !.logger = "writing"]
  /\ UNCHANGED <<vars, file, accepted, log_keep_running, janitor_running, fin>>

LoggerWrites ==
  /\ bg.logger = "writing"
  /\ file' = file \o Watched(held)
  /\ held' = <<>>
  /\ bg' = [bg EXCEPT !.logger = "awake"]
  /\ UNCHANGED <<vars, log, accepted, log_keep_running, janitor_running, fin>>

(* The monitor reads log_keep_running without the mutex, logs its line,    *)
(* and only then takes the mutex to wait, for at most 15 s.                *)
MonitorTests ==
  /\ bg.monitor = "awake"
  /\ bg' = [bg EXCEPT !.monitor = IF log_keep_running THEN "report" ELSE "gone"]
  /\ UNCHANGED <<vars, lines, log_keep_running, janitor_running, fin>>

MonitorReports ==
  /\ bg.monitor = "report"
  /\ WriteLog([bg EXCEPT !.monitor = "wait"])
  /\ UNCHANGED <<vars, log_keep_running, janitor_running, fin>>

MonitorWaits ==
  /\ bg.monitor = "wait"
  /\ bg' = [bg EXCEPT !.monitor = "asleep"]
  /\ UNCHANGED <<vars, lines, log_keep_running, janitor_running, fin>>

MonitorTimesOut ==
  /\ bg.monitor = "asleep"
  /\ bg' = [bg EXCEPT !.monitor = "awake"]
  /\ UNCHANGED <<vars, lines, log_keep_running, janitor_running, fin>>

(* The janitor tests the flag under its mutex before and after each wait.  *)
JanitorLoops ==
  /\ bg.janitor = "awake"
  /\ bg' = [bg EXCEPT !.janitor = IF janitor_running THEN "asleep" ELSE "gone"]
  /\ UNCHANGED <<vars, lines, log_keep_running, janitor_running, fin>>

JanitorTimesOut ==
  /\ bg.janitor = "asleep"
  /\ bg' = [bg EXCEPT !.janitor = IF janitor_running THEN "clean" ELSE "gone"]
  /\ UNCHANGED <<vars, lines, log_keep_running, janitor_running, fin>>

(* clean_old_rate_limits, without janitor_lock; it logs if it cleared any. *)
JanitorCleans ==
  LET awake == [bg EXCEPT !.janitor = "awake"]
  IN  /\ bg.janitor = "clean"
      /\ \/ WriteLog(awake)
         \/ bg' = awake /\ UNCHANGED lines
      /\ UNCHANGED <<vars, log_keep_running, janitor_running, fin>>

-----------------------------------------------------------------------------
(* Main's cleanup sequence, behind the pool that SignalStop stops.         *)

PoolStopped ==
  /\ fin = "pool" /\ Top(Main) = "stopped"
  /\ fin' = "janitor"
  /\ WriteLog(bg)
  /\ UNCHANGED <<vars, log_keep_running, janitor_running>>

(* sec_traffic_stop_janitor: a janitor that never ran is not joined.       *)
StopJanitor ==
  /\ fin = "janitor"
  /\ fin' = IF janitor_running THEN "joinjanitor" ELSE "tables"
  /\ janitor_running' = FALSE
  /\ bg' = IF bg.janitor = "asleep" THEN [bg EXCEPT !.janitor = "awake"] ELSE bg
  /\ UNCHANGED <<vars, lines, log_keep_running>>

JoinJanitor ==
  /\ fin = "joinjanitor" /\ bg.janitor = "gone"
  /\ fin' = "tables"
  /\ WriteLog(bg)
  /\ UNCHANGED <<vars, log_keep_running, janitor_running>>

(* The pools and tables are destroyed, each with a line. *)
DestroyTables ==
  /\ fin = "tables"
  /\ fin' \in {"tables", "bye"}
  /\ WriteLog(bg)
  /\ UNCHANGED <<vars, log_keep_running, janitor_running>>

SayBye ==
  /\ fin = "bye"
  /\ fin' = "stoplogger"
  /\ Enqueue("bye", bg)
  /\ UNCHANGED <<vars, held, file, log_keep_running, janitor_running>>

StopLogger ==
  /\ fin = "stoplogger"
  /\ fin' = "joinlogger"
  /\ log_keep_running' = FALSE
  /\ bg' = [x \in DOMAIN bg |-> IF x # "janitor" /\ bg[x] = "asleep" THEN "awake" ELSE bg[x]]
  /\ UNCHANGED <<vars, lines, janitor_running>>

JoinLogger ==
  /\ fin = "joinlogger" /\ bg.logger = "gone"
  /\ fin' = "joinmonitor"
  /\ UNCHANGED <<vars, lines, bg, log_keep_running, janitor_running>>

JoinMonitor ==
  /\ fin = "joinmonitor" /\ bg.monitor = "gone"
  /\ fin' = "exit"
  /\ UNCHANGED <<vars, lines, bg, log_keep_running, janitor_running>>

-----------------------------------------------------------------------------
Logger  == LoggerTakes \/ LoggerWrites
Monitor == MonitorTests \/ MonitorReports \/ MonitorWaits \/ MonitorTimesOut
Janitor == JanitorLoops \/ JanitorTimesOut \/ JanitorCleans
Cleanup == \/ PoolStopped \/ StopJanitor \/ JoinJanitor \/ DestroyTables
           \/ SayBye \/ StopLogger \/ JoinLogger \/ JoinMonitor

(* A process that has exited has no threads. *)
BgNext ==
  /\ fin # "exit"
  /\ \/ Next /\ UNCHANGED bgVars
     \/ \E t \in Thread : ThreadLogs(t)
     \/ Logger \/ Monitor \/ Janitor \/ Cleanup

BgSpec == Init /\ BgInit /\ [][BgNext]_allVars

-----------------------------------------------------------------------------
(* The file has the lines in the order they were accepted, and those that  *)
(* it lacks are still on their way; main's last line, if the queue had     *)
(* room for it, is in the file when the process exits (main.c, "Ini        *)
(* mengosongkan antrean memori log ke file disk sebelum proses exit").     *)
LinesKept ==
  /\ accepted = file \o Watched(held) \o Watched(log)
  /\ fin = "exit" /\ Contains(accepted, "bye") => Contains(file, "bye")

(* The comment taken at its word: nothing is left in the queue.  The       *)
(* monitor breaks it, with a line written after the logger has gone.       *)
QueueDrained == fin = "exit" => log = <<>>

(* A line that was accepted reaches the file, whichever thread its signal  *)
(* woke.                                                                   *)
AcceptedWritten ==
  Contains(log, "first") /\ bg.logger # "gone" ~> Contains(file, "first")

(* After a handled signal the process exits: pool, janitor, logger and     *)
(* monitor are all woken or time out, and are joined.  A worker whose      *)
(* dispatch does not end is waited for as long.                            *)
Exits == DispatchesReturn => (~server_running ~> fin = "exit")

(* Nothing waits for ever in the background: a line for its writer, or the  *)
(* end of the process for a thread other than a serving worker.            *)
Finishes == AcceptedWritten /\ Exits
=============================================================================
