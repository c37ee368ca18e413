----------------------------- MODULE TaskChannel -----------------------------
(***************************************************************************)
(* What the task queue promises to the event loop that fills it and to the *)
(* workers that empty it: a FIFO channel of at most Capacity events, from  *)
(* which an accepted event leaves exactly once, either to one taker while  *)
(* the channel is open or, after it was closed, when what is left is       *)
(* thrown away.  TaskQueue implements this module.                         *)
(***************************************************************************)
EXTENDS Naturals, Sequences

CONSTANTS
  Event,      (* the events that may be offered             *)
  Capacity    (* how many accepted events may wait          *)

VARIABLES
  chan,       (* the accepted events not taken yet, in order *)
  open        (* FALSE once takers must give up              *)

chanVars == <<chan, open>>

Init ==
  /\ chan = <<>>
  /\ open = TRUE

(* The code does not look at is_running when it pushes: an event can still *)
(* be accepted after the channel was closed, and is then discarded.        *)
Offer(e) ==
  /\ Len(chan) < Capacity
  /\ chan' = Append(chan, e)
  /\ UNCHANGED open

Take ==
  /\ open
  /\ chan # <<>>
  /\ chan' = Tail(chan)
  /\ UNCHANGED open

Close ==
  /\ open' = FALSE
  /\ UNCHANGED chan

Discard ==
  /\ ~open
  /\ chan' = <<>>
  /\ UNCHANGED open

Next ==
  \/ \E e \in Event : Offer(e)
  \/ Take
  \/ Close
  \/ Discard

Spec == Init /\ [][Next]_chanVars
=============================================================================
